----------------------------- MODULE Assembler -----------------------------
(***************************************************************************)
(* assembler/assembler.py with the macros and what the tokenizer makes of  *)
(* words: source code becomes opcode.  The labels are collected, then the  *)
(* opcode is generated twice: the first time to learn where the labels are.*)
(* A line of source is its words, as the regular expressions of the        *)
(* tokenizer find them, without comments.                                  *)
(***************************************************************************)
EXTENDS Operands, Boot, Scope, FiniteSets

LOCAL INSTANCE SequencesExt

CONSTANTS
    CommandLines, \* the files given to run_assembler.py: sequences of sources
    Upper(_),     \* the upper case of a word
    OperandBufferSize

VARIABLES
    files,        \* the files that are still to be assembled
    source, phase,
    pass,         \* which call of _generate_opcode
    line,         \* the line to be parsed next
    labels, opcode,
    augmented_opcode, \* per line its position and its part of the opcode
    consts, current_scope

vars == <<files, source, phase, pass, line, labels, opcode, augmented_opcode, consts,
          current_scope>>

-----------------------------------------------------------------------------
(* Tokens *)

\* The value of a token is spread over fields; reg and length also serve
\* references, whose base is a name, a register or a number.
Token(type, length, name, reg, value, offset) ==
    [type |-> type, length |-> length, name |-> name, reg |-> reg, value |-> value,
     offset |-> offset, bytes |-> <<>>]

MacroNames == {"DAT", "DATN", "CONST", "PARAM", "PARAMB", "VAR", "VARB"}
Names(list) == {list[i] : i \in DOMAIN list}
Keywords == InstructionNames \union MacroNames \union Names(RegisterNames)

LiteralTypes == {"BYTE_LITERAL", "WORD_LITERAL", "STRING_LITERAL"}

\* What an operand is encoded as (get_operand_opcode).
OperandTypes ==
    [WORD_LITERAL |-> "VALUE", BYTE_LITERAL |-> "VALUE", ADDRESS_WORD_LITERAL |-> "ADDRESS",
     WORD_REGISTER |-> "REGISTER", BYTE_REGISTER |-> "REGISTER", ABS_REF_REG |-> "ABS_REF_REG",
     REL_REF_WORD |-> "REL_REF_WORD", REL_REF_WORD_BYTE |-> "REL_REF_WORD_BYTE",
     REL_REF_WORD_REG |-> "REL_REF_WORD_REG"]

\* What a reference to a label becomes.
LABEL_REFERENCE_TYPES ==
    [ADDRESS_LABEL |-> "ADDRESS_WORD_LITERAL", IDENTIFIER |-> "ADDRESS_WORD_LITERAL",
     REL_REF_LABEL |-> "REL_REF_WORD", REL_REF_LABEL_BYTE |-> "REL_REF_WORD_BYTE",
     REL_REF_LABEL_REG |-> "REL_REF_WORD_REG"]

ARGUMENT_TYPES == DOMAIN OperandTypes \union DOMAIN LABEL_REFERENCE_TYPES
                    \union {"STRING_LITERAL", "VARIABLE", "SYSTEM_VARIABLE"}

\* What the token rules find: literals of two or four digits, references to a register
\* or a number, with what belongs to one, and the same with labels, not known yet.
WordTypes ==
    (DOMAIN OperandTypes \ {"WORD_REGISTER", "BYTE_REGISTER"}) \union DOMAIN LABEL_REFERENCE_TYPES
        \union {"LABEL", "STRING_LITERAL", "MACRO", "VARIABLE", "SYSTEM_VARIABLE", "UNEXPECTED"}

IsWord(word) ==
    /\ word.type = "BYTE_LITERAL" => word.length = 1 /\ word.value \in Bytes
    /\ word.type = "WORD_LITERAL" => word.length = 2 /\ word.value \in Words
    /\ word.type \in DOMAIN OperandTypes =>
          IsOperand(Operand(word.length, OperandTypes[word.type], word.reg, word.value,
                            word.offset))
    /\ word.type \in DOMAIN LABEL_REFERENCE_TYPES =>
          IsOperand(Operand(word.length, OperandTypes[LABEL_REFERENCE_TYPES[word.type]],
                            word.reg, 0, word.offset))

SourceWords ==
    {word \in [type : WordTypes, length : 0 .. 2, name : STRING, reg : STRING, value : Nat,
               offset : Int, bytes : Seq(Bytes)] : IsWord(word)}
Sources == Seq(Seq(SourceWords))

ASSUME AssemblerAssumption ==
    CommandLines \subseteq Seq(Sources) /\ OperandBufferSize \in Nat

\* Words are recognised in upper case; labels and variables keep their case.
Tokenized(word) ==
    LET name == Upper(word.name)
        As(type, length, reg) == Token(type, length, name, reg, 0, 0)
    IN  IF word.type = "MACRO" THEN As("MACRO", 0, "none")
        ELSE IF word.type # "IDENTIFIER" THEN word
        ELSE IF name \in InstructionNames THEN As("INSTRUCTION", 0, "none")
        ELSE IF name \in Names(WordRegisters) THEN As("WORD_REGISTER", 2, name)
        ELSE IF name \in Names(ByteRegisters) THEN As("BYTE_REGISTER", 1, name)
        ELSE word

\* No UnexpectedCharacterError, no InvalidStringLiteralError (a word of the type
\* UNEXPECTED stands for both) and no UnknownMacroError.
CanTokenize(word) ==
    word.type # "UNEXPECTED" /\ (word.type = "MACRO" => Upper(word.name) \in MacroNames)

Tokens(i) == [k \in DOMAIN source[i] |-> Tokenized(source[i][k])]

\* _parse_line: labels, then an instruction or a macro with its arguments.
LabelsOf(tokens) ==
    {k \in DOMAIN tokens : \A j \in 1 .. k : tokens[j].type = "LABEL"}
Statement(tokens) == SubSeq(tokens, Cardinality(LabelsOf(tokens)) + 1, Len(tokens))
Parses(statement) ==
    statement # <<>> =>
        /\ Head(statement).type \in {"INSTRUCTION", "MACRO"}
        /\ \A k \in 2 .. Len(statement) : statement[k].type \in ARGUMENT_TYPES

-----------------------------------------------------------------------------
(* The line that is parsed *)

opcode_pos == Len(opcode)
statement == Statement(Tokens(line))
args == Tail(statement)

\* Its own labels are already there when its operands are parsed.
labels_here ==
    [name \in DOMAIN labels |->
        IF \E k \in LabelsOf(Tokens(line)) : Tokens(line)[k].name = name
        THEN opcode_pos ELSE labels[name]]

\* is_variable_defined
IsVariableDefined(name) ==
    \/ name \in DOMAIN consts
    \/ current_scope # NoScope /\ IsDeclared(current_scope, name)

\* Scope.get_value
Slot(scope, name) ==
    Token("ABS_REF_REG", scope.slots[name].size, name, "BP", 0, Offset(scope, name))

\* substitute_variable, of one that is defined.
SubstituteVariable(arg) ==
    IF arg.type # "VARIABLE" THEN arg
    ELSE IF arg.name \in DOMAIN consts THEN consts[arg.name]
    ELSE Slot(current_scope, arg.name)

\* _substitute_label, of one that is known: its distance from this line.
SubstituteLabel(arg) ==
    IF arg.type \notin DOMAIN LABEL_REFERENCE_TYPES THEN arg
    ELSE [arg EXCEPT !.type = LABEL_REFERENCE_TYPES[arg.type],
                     !.value = labels_here[arg.name] - opcode_pos]

Substitutable(arg) == arg.type = "VARIABLE" => IsVariableDefined(arg.name)

AsOperand(token) ==
    Operand(token.length, OperandTypes[token.type], token.reg, token.value, token.offset)

\* _parse_operands raises nothing.
ParsesOperand(arg) ==
    /\ arg.type # "STRING_LITERAL" /\ Substitutable(arg)
    /\ LET token == SubstituteVariable(arg)
       IN  /\ token.type \in DOMAIN LABEL_REFERENCE_TYPES => token.name \in DOMAIN labels
           /\ SubstituteLabel(token).type \in DOMAIN OperandTypes
           /\ Encodable(AsOperand(SubstituteLabel(token)))

EncodeOperand(arg) == OperandOpcode(AsOperand(SubstituteLabel(SubstituteVariable(arg))))

-----------------------------------------------------------------------------
(* Instructions and macros *)

\* Faulty variant of ScopeAfter: LVRET does not end the scope.
ScopeAfterEnterOnly(name) ==
    IF name = "ENTER" THEN NewScope(args[1].value, args[2].value) ELSE current_scope

\* ENTER begins a scope, also inside another; LVRET ends it.
ScopeAfter(name) ==
    CASE name = "ENTER" -> NewScope(args[1].value, args[2].value)
      [] name = "LVRET" -> NoScope
      [] OTHER -> current_scope

InstructionOk(name) ==
    /\ \A k \in DOMAIN args : ParsesOperand(args[k])
    /\ Len(args) = InstructionMapping(name).operand_count
    /\ name = "ENTER" =>
          \A k \in {1, 2} : k \in DOMAIN args /\ args[k].type = "BYTE_LITERAL"

InstructionOpcode(name) ==
    <<InstructionMapping(name).opcode>>
        \o FlattenSeq([k \in DOMAIN args |-> EncodeOperand(args[k])])

\* What .DAT inserts for a literal.
Data(token) ==
    CASE token.type = "STRING_LITERAL" -> token.bytes
      [] token.type = "BYTE_LITERAL" -> <<token.value>>
      [] token.type = "WORD_LITERAL" -> ToBinary(token.value, 2)

AreLiterals(types) ==
    \A k \in DOMAIN args :
        Substitutable(args[k]) /\ SubstituteVariable(args[k]).type \in types[k]

DatOk == args # <<>> /\ AreLiterals([k \in DOMAIN args |-> LiteralTypes])
DatOpcode == FlattenSeq([k \in DOMAIN args |-> Data(SubstituteVariable(args[k]))])

DatnOk == /\ Len(args) = 2
          /\ AreLiterals(<<LiteralTypes \ {"STRING_LITERAL"}, LiteralTypes>>)
DatnOpcode ==
    FlattenSeq([n \in 1 .. SubstituteVariable(args[1]).value |->
                   Data(SubstituteVariable(args[2]))])

\* A name that can be defined: not in sight yet.
IsNewName(arg) == arg.type = "VARIABLE" /\ ~IsVariableDefined(arg.name)

ConstOk ==
    /\ Len(args) = 2 /\ IsNewName(args[1])
    /\ Substitutable(args[2]) /\ SubstituteVariable(args[2]).type \in LiteralTypes

Declarations ==
    [PARAM |-> <<"parameter", 2>>, PARAMB |-> <<"parameter", 1>>,
     VAR |-> <<"variable", 2>>, VARB |-> <<"variable", 1>>]

\* The slot that a declaration adds to the scope.
ScopeWithSlot(name) ==
    AddSlot(current_scope, Declarations[name][1], args[1].name, Declarations[name][2])

DeclarationOk(name) ==
    LET kind == Declarations[name][1] size == Declarations[name][2]
    IN  /\ current_scope # NoScope
        /\ Len(args) \in IF kind = "parameter" THEN {1} ELSE {1, 2}
        /\ IsNewName(args[1]) /\ HasRoom(current_scope, kind, size)
        /\ Len(args) = 2 =>
              /\ Substitutable(args[2])
              /\ SubstituteVariable(args[2]).type
                    = IF size = 1 THEN "BYTE_LITERAL" ELSE "WORD_LITERAL"
              /\ Encodable(AsOperand(Slot(ScopeWithSlot(name), args[1].name)))

\* MOV $name default
DefaultOpcode(name) ==
    IF Len(args) = 1 THEN <<>>
    ELSE <<InstructionMapping("MOV").opcode>>
             \o OperandOpcode(AsOperand(Slot(ScopeWithSlot(name), args[1].name)))
             \o OperandOpcode(AsOperand(SubstituteVariable(args[2])))

MacroOk(name) == \/ name = "DAT" /\ DatOk
                 \/ name = "DATN" /\ DatnOk
                 \/ name = "CONST" /\ ConstOk
                 \/ name \in DOMAIN Declarations /\ DeclarationOk(name)

-----------------------------------------------------------------------------
(* assemble_code *)

NoNames == [name \in {} |-> 0]

Init ==
    /\ files \in CommandLines
    /\ source = <<>> /\ phase = "assembled" /\ pass = 0 /\ line = 0
    /\ labels = NoNames /\ opcode = <<>> /\ augmented_opcode = <<>>
    /\ consts = NoNames /\ current_scope = NoScope

\* _reset_state and _tokenize, for the next file.
AssembleFile ==
    /\ phase = "assembled" /\ files # <<>>
    /\ source' = Head(files) /\ files' = Tail(files)
    /\ pass' = 0 /\ line' = 0
    /\ labels' = NoNames /\ opcode' = <<>> /\ augmented_opcode' = <<>>
    /\ consts' = NoNames /\ current_scope' = NoScope
    /\ phase' = IF \A i \in DOMAIN source' : \A k \in DOMAIN source'[i] :
                        CanTokenize(source'[i][k])
                THEN "collect" ELSE "error"

\* Faulty variant of BeginPass: the opcode of the first pass is still there.
BeginPassKeepsOpcode(n) ==
    /\ pass' = n /\ line' = 1 /\ UNCHANGED opcode /\ augmented_opcode' = <<>>
    /\ consts' = NoNames /\ current_scope' = NoScope

\* The beginning of _generate_opcode.
BeginPass(n) ==
    /\ pass' = n /\ line' = 1 /\ opcode' = <<>> /\ augmented_opcode' = <<>>
    /\ consts' = NoNames /\ current_scope' = NoScope

LabelTokens ==
    UNION {{<<i, k>> : k \in {k \in DOMAIN source[i] : source[i][k].type = "LABEL"}} :
              i \in DOMAIN source}
LabelName(t) == source[t[1]][t[2]].name

\* _collect_labels: every label once, and no keyword. A keyword in lower case is one
\* that this does not see.
CollectLabels ==
    /\ phase = "collect"
    /\ \A t \in LabelTokens : LabelName(t) \notin Keywords
    /\ \A t, u \in LabelTokens : LabelName(t) = LabelName(u) => t = u
    /\ labels' = [name \in {LabelName(t) : t \in LabelTokens} |-> 0]
    /\ BeginPass(1) /\ phase' = "generate"
    /\ UNCHANGED <<files, source>>

LabelError ==
    /\ phase = "collect"
    /\ \/ \E t \in LabelTokens : LabelName(t) \in Keywords
       \/ \E t, u \in LabelTokens : t # u /\ LabelName(t) = LabelName(u)
    /\ phase' = "error"
    /\ UNCHANGED <<files, source, pass, line, labels, opcode, augmented_opcode, consts,
                   current_scope>>

Generating == phase = "generate" /\ line \in DOMAIN source

\* The line's part of the opcode is at hand.
Emit(line_opcode) ==
    /\ opcode' = opcode \o line_opcode
    /\ augmented_opcode' = Append(augmented_opcode, [pos |-> opcode_pos, bytes |-> line_opcode])
    /\ labels' = labels_here
    /\ line' = line + 1
    /\ UNCHANGED <<files, source, phase, pass>>

LineIs(type) == /\ Generating /\ Parses(statement) /\ statement # <<>>
                /\ Head(statement).type = type

EmptyLine ==
    /\ Generating /\ statement = <<>>
    /\ Emit(<<>>) /\ UNCHANGED <<consts, current_scope>>

Instruction ==
    /\ LineIs("INSTRUCTION")
    /\ LET name == Head(statement).name
       IN  /\ InstructionOk(name)
           /\ Emit(InstructionOpcode(name))
           /\ current_scope' = ScopeAfter(name)
    /\ UNCHANGED consts

InsertData ==
    /\ LineIs("MACRO")
    /\ \/ Head(statement).name = "DAT" /\ DatOk /\ Emit(DatOpcode)
       \/ Head(statement).name = "DATN" /\ DatnOk /\ Emit(DatnOpcode)
    /\ UNCHANGED <<consts, current_scope>>

DefineConst ==
    /\ LineIs("MACRO") /\ Head(statement).name = "CONST" /\ ConstOk
    /\ Emit(<<>>)
    /\ consts' = [name \in DOMAIN consts \union {args[1].name} |->
                     IF name = args[1].name THEN SubstituteVariable(args[2]) ELSE consts[name]]
    /\ UNCHANGED current_scope

Declare ==
    /\ LineIs("MACRO")
    /\ LET name == Head(statement).name
       IN  /\ name \in DOMAIN Declarations /\ DeclarationOk(name)
           /\ Emit(DefaultOpcode(name))
           /\ current_scope' = ScopeWithSlot(name)
    /\ UNCHANGED consts

\* ParserError, OperandError, MacroError, ... whichever: no opcode is returned.
LineOk ==
    /\ Parses(statement)
    /\ statement # <<>> =>
          \/ Head(statement).type = "INSTRUCTION" /\ InstructionOk(Head(statement).name)
          \/ Head(statement).type = "MACRO" /\ MacroOk(Head(statement).name)

LineError ==
    /\ Generating /\ ~LineOk
    /\ phase' = "error"
    /\ UNCHANGED <<files, source, pass, line, labels, opcode, augmented_opcode, consts,
                   current_scope>>

\* The first pass is over: the addresses of the labels are good now.
SecondPass ==
    /\ phase = "generate" /\ line > Len(source) /\ pass = 1
    /\ BeginPass(2)
    /\ UNCHANGED <<files, source, phase, labels>>

\* What assemble_file writes when the opcode is there.
executable == File(Executable(1, opcode, <<>>))

Assembled ==
    /\ phase = "generate" /\ line > Len(source) /\ pass = 2
    /\ phase' = "assembled"
    /\ UNCHANGED <<files, source, pass, line, labels, opcode, augmented_opcode, consts,
                   current_scope>>

Next == \/ AssembleFile \/ CollectLabels \/ LabelError
        \/ EmptyLine \/ Instruction \/ InsertData \/ DefineConst \/ Declare \/ LineError
        \/ SecondPass \/ Assembled

Spec == Init /\ [][Next]_vars

-----------------------------------------------------------------------------
(* Properties *)

\* The slots of a scope lie apart from each other, and in the part of the frame that
\* ENTER was told to reserve for them.
FrameSlots == current_scope # NoScope => SlotsApart(current_scope)

\* The labels have their addresses when the first pass ends: no line of the second pass
\* moves one.
LabelsSettled == [][pass = 2 /\ pass' = 2 => labels' = labels]_vars

\* What a source says, found without passes, positions or scopes.
Said(i) == Statement(Tokens(i))
Says(i, names) == Said(i) # <<>> /\ Head(Said(i)).name \in names
Position(i) == augmented_opcode[i].pos

\* The line of the ENTER whose scope line i is in.
EntersOf(i) ==
    {e \in 1 .. i - 1 : /\ Says(e, {"ENTER"})
                        /\ \A j \in e + 1 .. i - 1 : ~Says(j, {"ENTER", "LVRET"})}
Scoped(i, names) ==
    {j \in 1 .. i : Says(j, names) /\ \E e \in EntersOf(i) : e < j}

\* The lines that define the name for line i: there should be one.
Definitions(i, name) ==
    {j \in {j \in 1 .. i : Says(j, {"CONST"})} \union Scoped(i, DOMAIN Declarations) :
        Said(j)[2].name = name}

\* The .CONST that gives line k, another one, its literal.
CopiedFrom(k) ==
    {d \in 1 .. k - 1 : /\ Says(d, {"CONST"}) /\ Said(k)[3].type = "VARIABLE"
                        /\ Said(d)[2].name = Said(k)[3].name}

\* The literal that a .CONST stands for.
LiteralOf ==
    LET value[k \in DOMAIN source] ==
            IF CopiedFrom(k) = {} THEN Said(k)[3]
            ELSE value[CHOOSE d \in CopiedFrom(k) : TRUE]
    IN  value

\* As docs/assembly.md has it: parameters end at BP + 7, variables begin at BP. The
\* bytes are those declared from the first slot of the kind to that of line j.
Parameters == {"PARAM", "PARAMB"}
SizeOf(k) == IF Says(k, {"PARAM", "VAR"}) THEN 2 ELSE 1
BytesUpTo(i, j, kind) ==
    UNION {{k} \X (1 .. SizeOf(k)) : k \in {k \in Scoped(i, kind) : k <= j}}
SlotOffset(i, j) ==
    LET enter == CHOOSE e \in EntersOf(i) : TRUE
    IN  IF Says(j, Parameters)
        THEN 7 + Said(enter)[2].value - Cardinality(BytesUpTo(i, j, Parameters))
        ELSE 1 - Cardinality(BytesUpTo(i, j, {"VAR", "VARB"}))

\* Whether the CPU finds at line i the operand that its argument stands for.
Means(operand, arg, i) ==
    IF arg.type \in DOMAIN LABEL_REFERENCE_TYPES
    THEN \E d \in DOMAIN source :
            /\ \E k \in DOMAIN source[d] :
                  source[d][k].type = "LABEL" /\ source[d][k].name = arg.name
            /\ operand = Operand(arg.length, OperandTypes[LABEL_REFERENCE_TYPES[arg.type]],
                                 arg.reg, Position(d) - Position(i), arg.offset)
    ELSE IF arg.type # "VARIABLE" THEN operand = AsOperand(arg)
    ELSE /\ Cardinality(Definitions(i, arg.name)) = 1
         /\ \A d \in Definitions(i, arg.name) :
               operand = IF Says(d, {"CONST"}) THEN AsOperand(LiteralOf[d])
                         ELSE Operand(SizeOf(d), "ABS_REF_REG", "BP", 0, SlotOffset(i, d))

\* The instruction of a line: a default value is a MOV.
IsCode(i) ==
    \/ Said(i) # <<>> /\ Head(Said(i)).type = "INSTRUCTION"
    \/ Says(i, {"VAR", "VARB"}) /\ Len(Said(i)) = 3
CodeName(i) == IF Head(Said(i)).type = "INSTRUCTION" THEN Head(Said(i)).name ELSE "MOV"

\* When the machine has been booted from the executable of a source (not too long for
\* the RAM), then where a line is the CPU decodes the instruction of that line, and its
\* operands mean what the source says: a label is the distance to the line it stands
\* at, a variable its only definition in sight. An instruction has to fit into the
\* operand buffer: SETTMR with five long operands is assembled, and cannot be decoded.
DecodedAsWritten ==
    phase = "assembled" /\ Len(opcode) + OperandBufferSize <= RamSize =>
        /\ Bootable(executable)
        /\ \A i \in {i \in DOMAIN source : IsCode(i)} :
            LET inst == InstructionMapping(CodeName(i))
                ram == BootedRam(executable)
                ip == EntryPoint + Position(i)
                buffer == [k \in 1 .. OperandBufferSize |-> ReadByte(ram, ip + k)]
                decoded == ParseOperandBuffer(buffer, inst.operand_count)
            IN  /\ ReadByte(ram, ip) = inst.opcode
                /\ Len(augmented_opcode[i].bytes) <= OperandBufferSize + 1 =>
                      /\ decoded.ok
                      /\ \A k \in 1 .. inst.operand_count :
                            Means(decoded.operands[k], Said(i)[k + 1], i)
=============================================================================

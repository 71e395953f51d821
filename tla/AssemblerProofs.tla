--------------------------- MODULE AssemblerProofs ---------------------------
(***************************************************************************)
(* From source code to a machine that runs it: the parameters and local    *)
(* variables that the assembler addresses lie in the frame that ENTER      *)
(* builds, apart from each other; an executable is loaded as it was saved; *)
(* a machine that has booted one that keeps to its part of the RAM handles *)
(* interrupts; the second pass moves no label; and where a line of code    *)
(* is, that machine decodes the instruction of the line, with the operands *)
(* that the source means.  For any programs, byte counts, and sizes of a   *)
(* byte, of the RAM and of the signature.                                  *)
(***************************************************************************)
EXTENDS Assembler, MemoryProofs, FiniteSetTheorems, SequenceTheorems

LOCAL INSTANCE SequencesExt

-----------------------------------------------------------------------------
(* Scopes *)

\* The slots of each kind follow each other, up to the byte count, and that is
\* within what ENTER reserved.
GoodScope(s) ==
    /\ s.max \in [Kinds -> Nat] /\ s.byte_count \in [Kinds -> Nat]
    /\ \A kind \in Kinds : s.byte_count[kind] <= s.max[kind]
    /\ \A n \in DOMAIN s.slots :
          /\ s.slots[n].kind \in Kinds /\ s.slots[n].size \in Sizes /\ s.slots[n].before \in Nat
          /\ s.slots[n].before + s.slots[n].size <= s.byte_count[s.slots[n].kind]
    /\ \A n, m \in DOMAIN s.slots :
          n # m /\ s.slots[n].kind = s.slots[m].kind =>
              \/ s.slots[n].before + s.slots[n].size <= s.slots[m].before
              \/ s.slots[m].before + s.slots[m].size <= s.slots[n].before

\* A new scope has no slots.
LEMMA NewScopeGood ==
  ASSUME NEW p \in Nat, NEW v \in Nat
  PROVE  GoodScope(NewScope(p, v))
  BY DEF GoodScope, NewScope, Kinds

\* A slot is added behind those of its kind.
LEMMA AddSlotGood ==
  ASSUME NEW s, GoodScope(s), NEW kind \in Kinds, NEW size \in Sizes, NEW name,
         ~IsDeclared(s, name), HasRoom(s, kind, size)
  PROVE  GoodScope(AddSlot(s, kind, name, size))
<1> DEFINE t == AddSlot(s, kind, name, size)
<1>1. /\ t.max = s.max /\ t.byte_count = [s.byte_count EXCEPT ![kind] = @ + size]
      /\ DOMAIN t.slots = DOMAIN s.slots \union {name}
      /\ t.slots[name] = [kind |-> kind, size |-> size, before |-> s.byte_count[kind]]
      /\ \A n \in DOMAIN s.slots : t.slots[n] = s.slots[n]
  BY DEF AddSlot, IsDeclared
<1> HIDE DEF t
<1>2. size \in {1, 2} /\ s.byte_count \in [Kinds -> Nat] /\ s.max \in [Kinds -> Nat]
  BY DEF GoodScope, Sizes
<1>3. /\ t.byte_count \in [Kinds -> Nat] /\ t.byte_count[kind] = s.byte_count[kind] + size
      /\ \A k \in Kinds : t.byte_count[k] >= s.byte_count[k] /\ t.byte_count[k] <= s.max[k]
  BY <1>1, <1>2 DEF GoodScope, HasRoom
<1>4. ASSUME NEW n \in DOMAIN t.slots
      PROVE  /\ t.slots[n].kind \in Kinds /\ t.slots[n].size \in Sizes
             /\ t.slots[n].before \in Nat
             /\ t.slots[n].before + t.slots[n].size <= t.byte_count[t.slots[n].kind]
  <2>1. CASE n = name
    BY <1>1, <1>2, <1>3, <2>1 DEF Sizes
  <2>2. CASE n # name
    BY <1>1, <1>2, <1>3, <2>2 DEF GoodScope, Sizes
  <2> QED
    BY <2>1, <2>2
<1>5. ASSUME NEW n \in DOMAIN t.slots, NEW m \in DOMAIN t.slots, n # m,
             t.slots[n].kind = t.slots[m].kind
      PROVE  \/ t.slots[n].before + t.slots[n].size <= t.slots[m].before
             \/ t.slots[m].before + t.slots[m].size <= t.slots[n].before
  BY <1>1, <1>5 DEF GoodScope
<1>6. GoodScope(t)
  BY <1>1, <1>2, <1>3, <1>4, <1>5 DEF GoodScope
<1> QED
  BY <1>6 DEF t

\* Parameters are above the saved words, variables below them.
LEMMA GoodScopeApart ==
  ASSUME NEW s, GoodScope(s)
  PROVE  SlotsApart(s)
<1>1. ASSUME NEW n \in DOMAIN s.slots
      PROVE  LET slot == s.slots[n]
             IN  /\ slot.kind = "parameter" \/ slot.kind = "variable"
                 /\ slot.size \in {1, 2} /\ slot.before \in Nat
                 /\ s.max.parameter \in Nat /\ s.max.variable \in Nat
                 /\ slot.kind = "parameter" => slot.before + slot.size <= s.max.parameter
                 /\ slot.kind = "variable" => slot.before + slot.size <= s.max.variable
  <2>1. /\ s.max["parameter"] = s.max.parameter /\ s.max["variable"] = s.max.variable
        /\ s.max["parameter"] \in Nat /\ s.max["variable"] \in Nat
        /\ \A k \in Kinds : s.byte_count[k] \in Nat /\ s.max[k] \in Nat
    BY DEF GoodScope, Kinds
  <2> QED
    BY <2>1 DEF GoodScope, Kinds, Sizes
<1>2. ASSUME NEW n \in DOMAIN s.slots
      PROVE  SlotBytes(s, n) \subseteq
               IF s.slots[n].kind = "parameter" THEN 7 .. 6 + s.max.parameter
               ELSE 1 - s.max.variable .. 0
  BY <1>1 DEF SlotBytes, Offset
<1>3. ASSUME NEW n \in DOMAIN s.slots, NEW m \in DOMAIN s.slots, n # m
      PROVE  SlotBytes(s, n) \intersect SlotBytes(s, m) = {}
  <2>1. CASE s.slots[n].kind = s.slots[m].kind
    <3>1. \/ s.slots[n].before + s.slots[n].size <= s.slots[m].before
          \/ s.slots[m].before + s.slots[m].size <= s.slots[n].before
      BY <1>3, <2>1 DEF GoodScope
    <3> QED
      BY <1>1, <2>1, <3>1 DEF SlotBytes, Offset
  <2>2. CASE s.slots[n].kind # s.slots[m].kind
    BY <1>1, <2>2 DEF SlotBytes, Offset
  <2> QED
    BY <2>1, <2>2
<1> QED
  BY <1>2, <1>3 DEF SlotsApart

-----------------------------------------------------------------------------
(* The assembler *)

FrameInv == /\ files \in Seq(Sources) /\ source \in Sources
            /\ current_scope = NoScope \/ GoodScope(current_scope)

\* The arguments of a line are words of it; a byte literal among them is a number.
LEMMA ArgumentValue ==
  ASSUME source \in Sources, line \in DOMAIN source, NEW k \in DOMAIN args, statement # <<>>,
         args[k].type = "BYTE_LITERAL"
  PROVE  args[k].value \in Nat
<1> DEFINE tokens == Tokens(line)
           first == Cardinality(LabelsOf(tokens)) + 1
<1>1. /\ source[line] \in Seq(SourceWords)
      /\ \A j \in DOMAIN source[line] : source[line][j].value \in Nat
  <2>1. source[line] \in Seq(SourceWords)
    BY DEF Sources
  <2>2. \A j \in DOMAIN source[line] : source[line][j] \in SourceWords
    BY <2>1
  <2> QED
    BY <2>1, <2>2 DEF SourceWords
<1>2. /\ DOMAIN tokens = DOMAIN source[line]
      /\ DOMAIN tokens = 1 .. Len(tokens) /\ Len(tokens) \in Nat
      /\ tokens \in Seq({tokens[j] : j \in DOMAIN tokens})
      /\ \A j \in DOMAIN tokens : tokens[j] = Tokenized(source[line][j])
  <2>1. tokens = [j \in 1 .. Len(source[line]) |-> Tokenized(source[line][j])]
        /\ DOMAIN source[line] = 1 .. Len(source[line]) /\ Len(source[line]) \in Nat
    BY <1>1 DEF Tokens
  <2> QED
    BY <2>1
<1>3. first \in 1 .. Len(tokens) + 1
  <2>1. /\ IsFiniteSet(1 .. Len(tokens)) /\ Cardinality(1 .. Len(tokens)) = Len(tokens)
    <3>1. Len(tokens) \in Int /\ Len(tokens) >= 0
      BY <1>2
    <3>2. /\ IsFiniteSet(1 .. Len(tokens))
          /\ Cardinality(1 .. Len(tokens)) = IF 1 > Len(tokens) THEN 0 ELSE Len(tokens) - 1 + 1
      BY ONLY <3>1, FS_Interval
    <3> QED
      BY <3>1, <3>2
  <2>2. LabelsOf(tokens) \subseteq 1 .. Len(tokens)
    BY <1>2 DEF LabelsOf
  <2>3. /\ IsFiniteSet(LabelsOf(tokens))
        /\ Cardinality(LabelsOf(tokens)) <= Cardinality(1 .. Len(tokens))
    BY <2>1, <2>2, FS_Subset
  <2>4. Cardinality(LabelsOf(tokens)) \in Nat
    BY <2>3, FS_CardinalityType
  <2> QED
    BY <1>2, <2>1, <2>3, <2>4
<1>4. PICK j \in DOMAIN tokens : args[k] = tokens[j]
  <2> DEFINE S == {tokens[j] : j \in DOMAIN tokens}
  <2>1. statement = SubSeq(tokens, first, Len(tokens)) /\ args = Tail(statement)
    BY DEF statement, Statement, args, tokens, first
  <2>2. /\ statement \in Seq(S) /\ Len(statement) = Len(tokens) - first + 1
        /\ \A i \in 1 .. Len(tokens) - first + 1 : statement[i] = tokens[first + i - 1]
    <3>1. /\ first \in Int /\ Len(tokens) \in Int /\ first <= Len(tokens) + 1
          /\ \A i \in first .. Len(tokens) : tokens[i] \in S
      BY <1>2, <1>3
    <3> HIDE DEF S
    <3> QED
      BY <2>1, <3>1, SubSeqProperties
  <2>3. /\ args \in Seq(S) /\ Len(args) = Len(statement) - 1
        /\ \A i \in 1 .. Len(args) : args[i] = statement[i + 1]
    <3> HIDE DEF S
    <3> QED
      BY <2>1, <2>2, HeadTailProperties
  <2>4. k \in 1 .. Len(args)
    BY <2>3
  <2>5. k + 1 \in 1 .. Len(tokens) - first + 1 /\ first + k \in 1 .. Len(tokens)
    <3>1. /\ Len(tokens) \in Nat /\ first \in Nat /\ first >= 1 /\ k \in Nat /\ k >= 1
          /\ k <= Len(args)
      BY <1>2, <1>3, <2>3, <2>4
    <3>2. Len(args) = Len(tokens) - first
      BY <2>2, <2>3, <3>1
    <3> QED
      BY <3>1, <3>2
  <2>6. args[k] = tokens[first + k]
    <3>1. args[k] = statement[k + 1] /\ statement[k + 1] = tokens[first + (k + 1) - 1]
      BY <2>2, <2>3, <2>4, <2>5
    <3>2. first + (k + 1) - 1 = first + k
      <4>1. first \in Int /\ k \in Int
        BY <1>3, <2>4
      <4> QED
        BY <4>1
    <3> QED
      BY <3>1, <3>2
  <2> QED
    BY <1>2, <2>5, <2>6
<1>5. Tokenized(source[line][j]).type = "BYTE_LITERAL" => Tokenized(source[line][j]) = source[line][j]
  BY DEF Tokenized, Token
<1> QED
  BY <1>1, <1>2, <1>4, <1>5

\* Whatever the assembler is given, the slots of a scope lie apart, and in the frame.
THEOREM AssemblerFrameSlots == Spec => []FrameSlots
<1>1. Init => FrameInv
  <2>1. <<>> \in Sources
    BY DEF Sources
  <2> QED
    BY <2>1, AssemblerAssumption DEF Init, FrameInv
<1>2. FrameInv /\ [Next]_vars => FrameInv'
  <2> SUFFICES ASSUME FrameInv, [Next]_vars
               PROVE  FrameInv'
    OBVIOUS
  <2>1. CASE AssembleFile
    BY <2>1 DEF AssembleFile, FrameInv
  <2>2. CASE CollectLabels \/ SecondPass
    BY <2>2 DEF CollectLabels, SecondPass, BeginPass, FrameInv
  <2>3. CASE LabelError \/ LineError \/ Assembled \/ UNCHANGED vars
    BY <2>3 DEF LabelError, LineError, Assembled, vars, FrameInv
  <2>4. CASE EmptyLine \/ InsertData \/ DefineConst
    BY <2>4 DEF EmptyLine, InsertData, DefineConst, Emit, FrameInv
  <2>5. CASE Instruction
    <3> DEFINE name == Head(statement).name
    <3>1. /\ UNCHANGED <<files, source>> /\ current_scope' = ScopeAfter(name)
          /\ InstructionOk(name) /\ Generating /\ statement # <<>>
      BY <2>5 DEF Instruction, Emit, LineIs
    <3>2. CASE name = "ENTER"
      <4>1. \A k \in {1, 2} : k \in DOMAIN args /\ args[k].type = "BYTE_LITERAL"
        BY <3>1, <3>2 DEF InstructionOk
      <4>2. line \in DOMAIN source
        BY <3>1 DEF Generating
      <4>3. args[1].value \in Nat /\ args[2].value \in Nat
        BY <3>1, <4>1, <4>2, ArgumentValue DEF FrameInv
      <4>4. current_scope' = NewScope(args[1].value, args[2].value)
        BY <3>1, <3>2 DEF ScopeAfter
      <4> QED
        BY <3>1, <4>3, <4>4, NewScopeGood DEF FrameInv
    <3>3. CASE name # "ENTER"
      BY <3>1, <3>3 DEF ScopeAfter, FrameInv
    <3> QED
      BY <3>2, <3>3
  <2>6. CASE Declare
    <3> DEFINE name == Head(statement).name
               kind == Declarations[name][1]
               size == Declarations[name][2]
    <3>1. /\ UNCHANGED <<files, source>> /\ current_scope' = ScopeWithSlot(name)
          /\ DeclarationOk(name) /\ name \in DOMAIN Declarations
      BY <2>6 DEF Declare, Emit
    <3>2. kind \in Kinds /\ size \in Sizes
      BY <3>1 DEF Declarations, Kinds, Sizes
    <3>3. /\ current_scope # NoScope /\ HasRoom(current_scope, kind, size)
          /\ ~IsDeclared(current_scope, args[1].name)
      BY <3>1 DEF DeclarationOk, IsNewName, IsVariableDefined
    <3>4. current_scope' = AddSlot(current_scope, kind, args[1].name, size)
      BY <3>1 DEF ScopeWithSlot
    <3> HIDE DEF name, kind, size
    <3> QED
      BY <3>1, <3>2, <3>3, <3>4, AddSlotGood DEF FrameInv
  <2> QED
    BY <2>1, <2>2, <2>3, <2>4, <2>5, <2>6 DEF Next
<1>3. FrameInv => FrameSlots
  BY GoodScopeApart DEF FrameInv, FrameSlots
<1> QED
  BY <1>1, <1>2, <1>3, PTL DEF Spec

-----------------------------------------------------------------------------
(* Words in files *)

\* The two bytes of a word, and the word again.
LEMMA WordRoundTrip ==
  ASSUME NEW value \in Words
  PROVE  /\ ToBinary(value, 2) = <<GetHigh(value), GetLow(value)>>
         /\ GetHigh(value) \in Bytes /\ GetLow(value) \in Bytes
         /\ GetHigh(value) * ByteSize + GetLow(value) = value
<1>1. value \in Int /\ value % WordSize = value
  BY SizesType DEF Words
<1>2. GetLow(value) \in Bytes /\ value = GetHigh(value) * ByteSize + GetLow(value)
  BY <1>1, HighAndLow
<1> QED BY <1>1, <1>2, WordBytes DEF ToBinary

-----------------------------------------------------------------------------
(* Executables *)

\* What a read returns, found byte by byte.
LEMMA PartIs ==
  ASSUME NEW file \in Seq(Int), NEW b \in Seq(Int), NEW pos \in Nat, NEW count \in Nat,
         pos + Len(b) <= Len(file),
         count = Len(b) \/ (pos + Len(b) = Len(file) /\ count >= Len(b)),
         \A k \in 1 .. Len(b) : file[pos + k] = b[k]
  PROVE  Part(file, pos, count) = b
<1> DEFINE end == IF pos + count < Len(file) THEN pos + count ELSE Len(file)
<1>1. Len(file) \in Nat /\ Len(b) \in Nat
  OBVIOUS
<1>2. end = pos + Len(b) /\ end \in Int /\ pos + 1 \in Int
  <2>1. CASE count = Len(b)
    BY <1>1, <2>1, SMTT(20)
  <2>2. CASE pos + Len(b) = Len(file) /\ count >= Len(b)
    <3>1. ~(pos + count < Len(file))
      BY <1>1, <2>2
    <3>2. end = Len(file)
      BY <3>1, Zenon
    <3> HIDE DEF end
    <3> QED BY <1>1, <2>2, <3>2
  <2> QED BY <2>1, <2>2
<1> HIDE DEF end
<1>3. \A i \in pos + 1 .. end : file[i] \in Int
  <2>1. TAKE i \in pos + 1 .. end
  <2>2. i \in 1 .. Len(file)
    BY <1>1, <1>2
  <2> QED BY <2>2
<1>4. /\ SubSeq(file, pos + 1, end) \in Seq(Int)
      /\ Len(SubSeq(file, pos + 1, end)) = IF pos + 1 <= end THEN end - (pos + 1) + 1 ELSE 0
      /\ \A i \in 1 .. end - (pos + 1) + 1 : SubSeq(file, pos + 1, end)[i] = file[pos + 1 + i - 1]
  BY <1>2, <1>3, SubSeqProperties
<1>5. Len(SubSeq(file, pos + 1, end)) = Len(b)
  BY <1>1, <1>2, <1>4
<1>6. \A i \in 1 .. Len(b) : SubSeq(file, pos + 1, end)[i] = b[i]
  <2>1. TAKE i \in 1 .. Len(b)
  <2>2. pos + 1 + i - 1 = pos + i /\ i \in 1 .. end - (pos + 1) + 1
    BY <1>1, <1>2
  <2> QED BY <1>4, <2>2
<1>7. SubSeq(file, pos + 1, end) = b
  BY <1>4, <1>5, <1>6, SeqEqual
<1> QED BY <1>7 DEF Part, end

\* The two parts of a concatenation.
LEMMA Concatenated ==
  ASSUME NEW s \in Seq(Int), NEW t \in Seq(Int)
  PROVE  /\ s \o t \in Seq(Int) /\ Len(s \o t) = Len(s) + Len(t)
         /\ \A k \in 1 .. Len(s) : (s \o t)[k] = s[k]
         /\ \A k \in 1 .. Len(t) : (s \o t)[Len(s) + k] = t[k]
<1>1. Len(s) \in Nat /\ Len(t) \in Nat
  OBVIOUS
<1>2. /\ s \o t \in Seq(Int) /\ Len(s \o t) = Len(s) + Len(t)
      /\ \A i \in 1 .. Len(s) + Len(t) :
            (s \o t)[i] = IF i <= Len(s) THEN s[i] ELSE t[i - Len(s)]
  BY ConcatProperties
<1>3. \A k \in 1 .. Len(s) : (s \o t)[k] = s[k]
  BY <1>1, <1>2
<1>4. \A k \in 1 .. Len(t) : (s \o t)[Len(s) + k] = t[k]
  <2>1. TAKE k \in 1 .. Len(t)
  <2>2. Len(s) + k \in 1 .. Len(s) + Len(t) /\ ~(Len(s) + k <= Len(s)) /\ Len(s) + k - Len(s) = k
    BY <1>1
  <2> QED BY <1>2, <2>2
<1> QED BY <1>2, <1>3, <1>4

\* Where everything is in a file.
LaidOut(file, version, code, extra) ==
    LET n == Len(Signature)
        entry_point == n + 3 + Len(extra)
    IN  /\ file \in Seq(Int)
        /\ Len(file) = entry_point + Len(code)
        /\ \A k \in 1 .. n : file[k] = Signature[k]
        /\ file[n + 1] = version
        /\ file[n + 2] = GetHigh(entry_point) /\ file[n + 3] = GetLow(entry_point)
        /\ \A k \in 1 .. Len(extra) : file[n + 3 + k] = extra[k]
        /\ \A k \in 1 .. Len(code) : file[entry_point + k] = code[k]

\* A file has the parts of the executable one behind the other.
LEMMA FileLayout ==
  ASSUME NEW version \in Bytes, NEW code \in Seq(Int), NEW extra \in Seq(Bytes),
         FixedLength + Len(extra) \in Words
  PROVE  LaidOut(File(Executable(version, code, extra)), version, code, extra)
<1> DEFINE n == Len(Signature)
           entry_point == n + 3 + Len(extra)
           exe == Executable(version, code, extra)
           word == <<GetHigh(entry_point), GetLow(entry_point)>>
           s1 == Signature \o <<version>>
           s2 == s1 \o word
           s3 == s2 \o extra
           s4 == s3 \o code
<1>0. Bytes \subseteq Nat /\ Signature \in Seq(Int) /\ code \in Seq(Int) /\ extra \in Seq(Int)
  BY SizesType, BootAssumption DEF Bytes
<1>1. n \in Nat /\ Len(extra) \in Nat /\ Len(code) \in Nat /\ entry_point \in Words
  BY <1>0 DEF FixedLength
<1>2. ToBinary(entry_point, 2) = word /\ word \in Seq(Int) /\ Len(word) = 2
  <2> HIDE DEF entry_point
  <2>1. ToBinary(entry_point, 2) = word /\ GetHigh(entry_point) \in Nat /\ GetLow(entry_point) \in Nat
    BY <1>0, <1>1, WordRoundTrip
  <2> QED BY <2>1
<1>3. File(exe) = s4
  BY <1>2 DEF File, Header, Executable, FixedLength
<1>4. <<version>> \in Seq(Int) /\ Len(<<version>>) = 1
  BY <1>0
<1>5. /\ s1 \in Seq(Int) /\ Len(s1) = n + 1
      /\ \A k \in 1 .. n : s1[k] = Signature[k]
      /\ s1[n + 1] = version
  <2>1. /\ s1 \in Seq(Int) /\ Len(s1) = n + 1
        /\ \A k \in 1 .. n : s1[k] = Signature[k]
        /\ \A k \in 1 .. 1 : s1[n + k] = <<version>>[k]
    BY <1>0, <1>4, Concatenated, Zenon
  <2> QED BY <2>1
<1> HIDE DEF s1, n, entry_point, exe
<1>6. /\ s2 \in Seq(Int) /\ Len(s2) = n + 3
      /\ \A k \in 1 .. n + 1 : s2[k] = s1[k]
      /\ s2[n + 2] = GetHigh(entry_point) /\ s2[n + 3] = GetLow(entry_point)
  <2>1. /\ s2 \in Seq(Int) /\ Len(s2) = n + 1 + 2
        /\ \A k \in 1 .. n + 1 : s2[k] = s1[k]
        /\ \A k \in 1 .. 2 : s2[n + 1 + k] = word[k]
    <3> HIDE DEF word
    <3>1. /\ s2 \in Seq(Int) /\ Len(s2) = Len(s1) + Len(word)
          /\ \A k \in 1 .. Len(s1) : s2[k] = s1[k]
          /\ \A k \in 1 .. Len(word) : s2[Len(s1) + k] = word[k]
      BY <1>2, <1>5, Concatenated, Zenon
    <3> QED BY <1>2, <1>5, <3>1, Zenon
  <2>2. s2[n + 1 + 1] = word[1] /\ s2[n + 1 + 2] = word[2]
    <3>1. 1 \in 1 .. 2 /\ 2 \in 1 .. 2
      OBVIOUS
    <3> QED BY <2>1, <3>1, Zenon
  <2>3. n + 1 + 1 = n + 2 /\ n + 1 + 2 = n + 3
    BY <1>1
  <2>4. word[1] = GetHigh(entry_point) /\ word[2] = GetLow(entry_point)
    OBVIOUS
  <2> QED BY <2>1, <2>2, <2>3, <2>4
<1> HIDE DEF s2
<1>7. /\ s3 \in Seq(Int) /\ Len(s3) = n + 3 + Len(extra)
      /\ \A k \in 1 .. n + 3 : s3[k] = s2[k]
      /\ \A k \in 1 .. Len(extra) : s3[n + 3 + k] = extra[k]
  <2>1. /\ s3 \in Seq(Int) /\ Len(s3) = Len(s2) + Len(extra)
        /\ \A k \in 1 .. Len(s2) : s3[k] = s2[k]
        /\ \A k \in 1 .. Len(extra) : s3[Len(s2) + k] = extra[k]
    BY <1>0, <1>6, Concatenated, Zenon
  <2> HIDE DEF s3
  <2> QED BY <2>1, <1>6, Zenon
<1> HIDE DEF s3
<1>8. /\ s4 \in Seq(Int) /\ Len(s4) = n + 3 + Len(extra) + Len(code)
      /\ \A k \in 1 .. n + 3 + Len(extra) : s4[k] = s3[k]
      /\ \A k \in 1 .. Len(code) : s4[n + 3 + Len(extra) + k] = code[k]
  <2>1. /\ s4 \in Seq(Int) /\ Len(s4) = Len(s3) + Len(code)
        /\ \A k \in 1 .. Len(s3) : s4[k] = s3[k]
        /\ \A k \in 1 .. Len(code) : s4[Len(s3) + k] = code[k]
    BY <1>0, <1>7, Concatenated, Zenon
  <2> HIDE DEF s4
  <2> QED BY <2>1, <1>7, Zenon
<1> HIDE DEF s4
<1>9. \A k \in 1 .. n + 3 : s4[k] = s2[k]
  <2>1. TAKE k \in 1 .. n + 3
  <2>2. k \in 1 .. n + 3 + Len(extra)
    BY <1>1
  <2> QED BY <1>7, <1>8, <2>2
<1>10. (\A k \in 1 .. n : s4[k] = Signature[k]) /\ s4[n + 1] = version
  <2>1. \A k \in 1 .. n + 1 : s4[k] = s1[k]
    BY <1>1, <1>6, <1>9, SMTT(20)
  <2>2. s4[n + 1] = version
    BY <1>1, <1>5, <2>1
  <2>3. ASSUME NEW k \in 1 .. n PROVE s4[k] = Signature[k]
    <3>1. k \in 1 .. n + 1
      BY <1>1
    <3> QED BY <1>5, <2>1, <3>1
  <2> QED BY <2>2, <2>3
<1>11. s4[n + 2] = GetHigh(entry_point) /\ s4[n + 3] = GetLow(entry_point)
  BY <1>1, <1>6, <1>9
<1>12. \A k \in 1 .. Len(extra) : s4[n + 3 + k] = extra[k]
  <2>1. TAKE k \in 1 .. Len(extra)
  <2>2. n + 3 + k \in 1 .. n + 3 + Len(extra)
    BY <1>1
  <2> QED BY <1>7, <1>8, <2>2
<1> QED BY <1>1, <1>3, <1>8, <1>10, <1>11, <1>12 DEF n, entry_point, exe, LaidOut

\* save_to_file and load_from_file: any executable with a version and an extra header
\* made of bytes, whose entry point is a word, is loaded as it was saved, and no
\* CorruptFileError is raised over it.
THEOREM ExecutableRoundTrip ==
  ASSUME NEW version \in Bytes, NEW code \in Seq(Int), NEW extra \in Seq(Bytes),
         FixedLength + Len(extra) \in Words
  PROVE  LET exe == Executable(version, code, extra)
         IN  Loadable(File(exe)) /\ Loaded(File(exe)) = exe
<1> DEFINE exe == Executable(version, code, extra)
           file == File(exe)
           n == Len(Signature)
           entry_point == n + 3 + Len(extra)
           word == <<GetHigh(entry_point), GetLow(entry_point)>>
           rest == extra \o code
<1>0. Bytes \subseteq Nat /\ Signature \in Seq(Int) /\ code \in Seq(Int) /\ extra \in Seq(Int)
  BY SizesType, BootAssumption DEF Bytes
<1>1. /\ n \in Nat /\ Len(extra) \in Nat /\ Len(code) \in Nat
      /\ entry_point \in Words /\ entry_point \in Nat /\ FixedLength = n + 3
  BY <1>0 DEF FixedLength
<1>2. /\ file \in Seq(Int)
      /\ Len(file) = entry_point + Len(code)
      /\ \A k \in 1 .. n : file[k] = Signature[k]
      /\ file[n + 1] = version
      /\ file[n + 2] = GetHigh(entry_point) /\ file[n + 3] = GetLow(entry_point)
      /\ \A k \in 1 .. Len(extra) : file[n + 3 + k] = extra[k]
      /\ \A k \in 1 .. Len(code) : file[entry_point + k] = code[k]
  <2>1. LaidOut(file, version, code, extra)
    BY FileLayout
  <2> QED BY <2>1 DEF LaidOut
<1>3. Len(file) = n + 3 + Len(extra) + Len(code)
  BY <1>2
<1>4. /\ GetHigh(entry_point) \in Nat /\ GetLow(entry_point) \in Nat
      /\ GetHigh(entry_point) * ByteSize + GetLow(entry_point) = entry_point
  <2> HIDE DEF entry_point
  <2> QED BY <1>0, <1>1, WordRoundTrip
<1> HIDE DEF file
<1>5. Part(file, 0, n) = Signature
  <2>1. \A k \in 1 .. Len(Signature) : file[0 + k] = Signature[k]
    BY <1>2
  <2>2. 0 \in Nat /\ 0 + Len(Signature) <= Len(file)
    BY <1>1, <1>3
  <2> QED BY <1>0, <1>1, <1>2, <2>1, <2>2, PartIs
<1>6. Part(file, n + 1, 2) = word
  <2>1. word \in Seq(Int) /\ Len(word) = 2
    <3> HIDE DEF entry_point
    <3> QED BY <1>4
  <2>2. \A k \in 1 .. 2 : file[n + 1 + k] = word[k]
    <3>1. word[1] = GetHigh(entry_point) /\ word[2] = GetLow(entry_point)
      OBVIOUS
    <3>2. n + 1 + 1 = n + 2 /\ n + 1 + 2 = n + 3
      BY <1>1
    <3> HIDE DEF word, entry_point
    <3>3. file[n + 1 + 1] = word[1] /\ file[n + 1 + 2] = word[2]
      BY <1>2, <3>1, <3>2
    <3>4. ASSUME NEW k \in 1 .. 2 PROVE k = 1 \/ k = 2
      OBVIOUS
    <3> QED BY <3>3, <3>4
  <2>3. n + 1 \in Nat /\ 2 \in Nat /\ n + 1 + 2 <= Len(file)
    BY <1>1, <1>3
  <2> HIDE DEF word
  <2>4. n + 1 + Len(word) <= Len(file) /\ 2 = Len(word)
    BY <2>1, <2>3
  <2>5. \A k \in 1 .. Len(word) : file[n + 1 + k] = word[k]
    BY <2>1, <2>2
  <2> QED BY <1>2, <2>1, <2>3, <2>4, <2>5, PartIs
<1>7. EntryPointIn(file) = entry_point
  <2>1. word # <<>> /\ ToNumber(word) = GetHigh(entry_point) * ByteSize + GetLow(entry_point)
    <3> HIDE DEF entry_point
    <3> QED BY DEF ToNumber
  <2> HIDE DEF word, entry_point
  <2> QED BY <1>4, <1>6, <2>1 DEF EntryPointIn, n
<1>8. ExtraHeaderLength(file) = Len(extra)
  BY <1>1, <1>7 DEF ExtraHeaderLength
<1>9. /\ rest \in Seq(Int) /\ Len(rest) = Len(extra) + Len(code)
      /\ \A k \in 1 .. Len(extra) : rest[k] = extra[k]
      /\ \A k \in 1 .. Len(code) : rest[Len(extra) + k] = code[k]
  BY <1>0, Concatenated
<1> HIDE DEF rest
<1>10. Part(file, FixedLength, Len(file)) = rest
  <2>1. ASSUME NEW k \in 1 .. Len(rest) PROVE file[FixedLength + k] = rest[k]
    <3>1. CASE k <= Len(extra)
      <4>1. k \in 1 .. Len(extra) /\ FixedLength + k = n + 3 + k
        BY <1>1, <1>9, <3>1
      <4> QED BY <1>2, <1>9, <4>1
    <3>2. CASE k > Len(extra)
      <4>1. k - Len(extra) \in 1 .. Len(code)
        BY <1>1, <1>9, <3>2
      <4>2. /\ file[entry_point + (k - Len(extra))] = code[k - Len(extra)]
            /\ rest[Len(extra) + (k - Len(extra))] = code[k - Len(extra)]
        <5> HIDE DEF entry_point
        <5> QED BY <1>2, <1>9, <4>1
      <4>3. entry_point + (k - Len(extra)) = FixedLength + k /\ Len(extra) + (k - Len(extra)) = k
        BY <1>1, <1>9
      <4> QED BY <4>2, <4>3
    <3>3. k <= Len(extra) \/ k > Len(extra)
      BY <1>1, <1>9
    <3> QED BY <3>1, <3>2, <3>3
  <2>2. /\ FixedLength \in Nat /\ Len(file) \in Nat
        /\ FixedLength + Len(rest) = Len(file) /\ Len(file) >= Len(rest)
        /\ FixedLength + Len(rest) <= Len(file)
    BY <1>1, <1>3, <1>9
  <2> QED BY <1>2, <1>9, <2>1, <2>2, PartIs
<1>11. Part(rest, 0, Len(extra)) = extra
  <2>1. \A k \in 1 .. Len(extra) : rest[0 + k] = extra[k]
    BY <1>9
  <2>2. 0 \in Nat /\ 0 + Len(extra) <= Len(rest)
    BY <1>1, <1>9
  <2> QED BY <1>0, <1>1, <1>9, <2>1, <2>2, PartIs
<1>12. Part(rest, Len(extra), Len(rest)) = code
  <2>1. /\ Len(extra) + Len(code) = Len(rest) /\ Len(rest) \in Nat /\ Len(rest) >= Len(code)
        /\ Len(extra) + Len(code) <= Len(rest)
    BY <1>1, <1>9
  <2> QED BY <1>0, <1>1, <1>9, <2>1, PartIs
<1>13. Loadable(file)
  BY <1>1, <1>3, <1>5, <1>8 DEF Loadable
<1>14. Loaded(file) = exe
  <2>1. ~(ExtraHeaderLength(file) = -1)
    BY <1>1, <1>8
  <2>2. file[Len(Signature) + 1] = version
    BY <1>2
  <2>3. exe = [version |-> version, entry_point |-> entry_point, extra_header |-> extra,
               opcode |-> code]
    BY <1>1 DEF Executable
  <2> HIDE DEF exe, entry_point, n
  <2> QED BY <1>7, <1>8, <1>10, <1>11, <1>12, <2>1, <2>2, <2>3 DEF Loaded
<1> QED BY <1>13, <1>14 DEF file

-----------------------------------------------------------------------------
(* The RAM that the machine starts with *)

\* create_boot_image and the boot loader: an executable that ends below the default
\* interrupt handler is in the RAM byte by byte from the entry point on, and every
\* interrupt that the program has not set yet leads to an IRET. (A longer one that still
\* fits into the RAM overwrites handler and table, without an error.)
THEOREM InterruptsReturnAfterBoot ==
  ASSUME NEW file, Bootable(file), Loaded(file).opcode \in Seq(Nat),
         EntryPoint + Len(Loaded(file).opcode) <= DefaultInterruptHandler
  PROVE  /\ \A k \in 1 .. Len(Loaded(file).opcode) :
                BootedRam(file)[EntryPoint + k - 1] = Loaded(file).opcode[k]
         /\ \A number \in 0 .. NumberOfInterrupts - 1 :
                Read(BootedRam(file), IVT + 2 * number, 2) = DefaultInterruptHandler
         /\ BootedRam(file)[DefaultInterruptHandler] = InstructionMapping("IRET").opcode
<1> DEFINE code == Loaded(file).opcode
           iret == InstructionMapping("IRET").opcode
<1>1. /\ RamSize \in Nat /\ NumberOfInterrupts \in Nat /\ Len(code) \in Nat
      /\ 2 * NumberOfInterrupts < RamSize /\ RamSize <= WordSize /\ EntryPoint = 0
      /\ IVT = RamSize - 2 * NumberOfInterrupts /\ DefaultInterruptHandler = IVT - 1
      /\ Len(code) <= DefaultInterruptHandler /\ DOMAIN code = 1 .. Len(code)
  BY MemoryAssumption, BootAssumption DEF EntryPoint, IVT, DefaultInterruptHandler
<1>2. \A address \in 0 .. RamSize - 1 :
          BootedRam(file)[address] =
              IF address + 1 \in 1 .. Len(code) THEN code[address + 1] ELSE BootImage[address]
  <2> HIDE DEF code
  <2>1. TAKE address \in 0 .. RamSize - 1
  <2>2. address - EntryPoint + 1 = address + 1
    BY <1>1
  <2> QED BY <1>1, <2>2 DEF BootedRam, LoadExecutable, RamAddresses, code
<1> HIDE DEF code, iret
<1>3. \A address \in DefaultInterruptHandler .. RamSize - 1 :
          BootedRam(file)[address] = BootImage[address]
  <2>1. TAKE address \in DefaultInterruptHandler .. RamSize - 1
  <2>2. address \in 0 .. RamSize - 1 /\ address + 1 \notin 1 .. Len(code)
    BY <1>1
  <2> QED BY <1>2, <2>2
<1>4. ASSUME NEW k \in 1 .. Len(code)
      PROVE  BootedRam(file)[EntryPoint + k - 1] = code[k]
  <2>1. k - 1 \in 0 .. RamSize - 1 /\ k - 1 + 1 = k /\ EntryPoint + k - 1 = k - 1
    BY <1>1
  <2> QED BY <1>2, <2>1
<1>5. ASSUME NEW number \in 0 .. NumberOfInterrupts - 1
      PROVE  Read(BootedRam(file), IVT + 2 * number, 2) = DefaultInterruptHandler
  <2> DEFINE first == IVT + 2 * number
  <2>1. /\ first \in DefaultInterruptHandler .. RamSize - 1
        /\ first + 1 \in DefaultInterruptHandler .. RamSize - 1
        /\ (first - IVT) % 2 = 0 /\ (first + 1 - IVT) % 2 = 1
        /\ first >= IVT /\ first + 1 >= IVT
        /\ first < RamSize /\ first + 1 < RamSize
        /\ first # DefaultInterruptHandler /\ first + 1 # DefaultInterruptHandler
        /\ first \in 0 .. RamSize - 1 /\ first + 1 \in 0 .. RamSize - 1
        /\ first \in Int /\ IVT \in Int
    BY <1>1
  <2> HIDE DEF first
  <2>2. /\ BootImage[first] = GetHigh(DefaultInterruptHandler)
        /\ BootImage[first + 1] = GetLow(DefaultInterruptHandler)
    BY <2>1 DEF BootImage, RamAddresses
  <2>3. /\ BootedRam(file)[first] = GetHigh(DefaultInterruptHandler)
        /\ BootedRam(file)[first + 1] = GetLow(DefaultInterruptHandler)
    BY <1>3, <2>1, <2>2
  <2>4. Read(BootedRam(file), first, 2)
            = GetHigh(DefaultInterruptHandler) * ByteSize + GetLow(DefaultInterruptHandler)
    BY <2>1, <2>3 DEF Read, ReadByte
  <2>5. DefaultInterruptHandler \in Words
    BY <1>1, SizesType DEF Words
  <2> QED BY <2>4, <2>5, WordRoundTrip DEF first
<1>6. BootedRam(file)[DefaultInterruptHandler] = iret
  <2>1. DefaultInterruptHandler \in DefaultInterruptHandler .. RamSize - 1
        /\ DefaultInterruptHandler \in 0 .. RamSize - 1
    BY <1>1
  <2>2. BootImage[DefaultInterruptHandler] = iret
    BY <2>1 DEF BootImage, RamAddresses, iret
  <2> QED BY <1>3, <2>1, <2>2
<1> QED BY <1>4, <1>5, <1>6 DEF code, iret

-----------------------------------------------------------------------------
(* Sequences of bytes, one behind the other *)

\* What FlattenSeq computes, step by step.
LEMMA Flattened ==
  ASSUME NEW seqs \in Seq(Seq(Int))
  PROVE  \E F \in [0 .. Len(seqs) -> Seq(Int)] :
            /\ F[0] = <<>>
            /\ \A i \in 1 .. Len(seqs) : F[i] = F[i - 1] \o seqs[i]
            /\ FlattenSeq(seqs) = F[Len(seqs)]
<1>1. PICK n \in Nat : n = Len(seqs) /\ DOMAIN seqs = 1 .. n
  OBVIOUS
<1>2. \A i \in 1 .. n : seqs[i] \in Seq(Int)
  BY <1>1
<1>3. CASE n = 0
  <2>1. seqs = <<>> /\ FlattenSeq(seqs) = <<>>
    BY <1>1, <1>3 DEF FlattenSeq
  <2>2. PICK F : F = [i \in 0 .. 0 |-> <<>>]
    OBVIOUS
  <2> QED BY <1>1, <1>3, <2>1, <2>2
<1>4. CASE n # 0
  <2> DEFINE Step(g, i) == IF i = 1 THEN seqs[i] ELSE g[i - 1] \o seqs[i]
             Built(g, m) == g \in [1 .. m -> Seq(Int)] /\ \A i \in 1 .. m : g[i] = Step(g, i)
             S == {m \in Nat : m <= n => \E g : Built(g, m)}
  <2>1. 0 \in S
    <3>1. PICK g : g = [i \in 1 .. 0 |-> <<>>]
      OBVIOUS
    <3>2. Built(g, 0)
      BY <3>1
    <3> QED BY <3>2
  <2>2. ASSUME NEW m \in Nat, m \in S PROVE m + 1 \in S
    <3>1. CASE m + 1 <= n
      <4>0. m <= n
        BY <1>1, <3>1
      <4>1. PICK g : Built(g, m)
        <5> HIDE DEF Built
        <5> QED BY <2>2, <4>0
      <4>2. PICK h : h = [i \in 1 .. m + 1 |-> IF i = m + 1 THEN Step(g, i) ELSE g[i]]
        OBVIOUS
      <4>3. Step(g, m + 1) \in Seq(Int)
        <5>1. seqs[m + 1] \in Seq(Int)
          BY <1>2, <3>1
        <5>2. CASE m = 0
          BY <5>1, <5>2
        <5>3. CASE m # 0
          <6>1. g[m] \in Seq(Int) /\ m + 1 - 1 = m /\ m + 1 # 1
            BY <4>1, <5>3
          <6>2. g[m] \o seqs[m + 1] \in Seq(Int)
            BY <5>1, <6>1
          <6> QED BY <6>1, <6>2
        <5> QED BY <5>2, <5>3
      <4>4. h \in [1 .. m + 1 -> Seq(Int)]
        BY <4>1, <4>2, <4>3
      <4>5. ASSUME NEW i \in 1 .. m + 1 PROVE h[i] = Step(h, i)
        <5>1. Step(h, i) = Step(g, i)
          <6>1. CASE i = 1
            BY <6>1
          <6>2. CASE i # 1
            <7>1. h[i - 1] = g[i - 1]
              BY <4>2, <6>2
            <7> QED BY <6>2, <7>1
          <6> QED BY <6>1, <6>2
        <5>2. h[i] = Step(g, i)
          <6> HIDE DEF Step
          <6>1. i # m + 1 => i \in 1 .. m
            OBVIOUS
          <6> QED BY <4>1, <4>2, <6>1
        <5> QED BY <5>1, <5>2
      <4> HIDE DEF Step
      <4>6. Built(h, m + 1)
        BY <4>4, <4>5
      <4> QED BY <4>6
    <3> QED BY <3>1, <2>2
  <2> HIDE DEF S
  <2>3. n \in S
    BY <1>1, <2>1, <2>2, Induction
  <2>4. PICK g : Built(g, n)
    <3>1. n <= n
      BY <1>1
    <3> HIDE DEF Built
    <3> QED BY <2>3, <3>1 DEF S
  <2> DEFINE f == CHOOSE flatten : flatten = [i \in 1 .. n |-> Step(flatten, i)]
  <2>5. g = [i \in 1 .. n |-> Step(g, i)]
    <3> HIDE DEF Step
    <3> QED BY <2>4
  <2>6. f = [i \in 1 .. n |-> Step(f, i)]
    <3> HIDE DEF Step
    <3> QED BY <2>5, Zenon
  <2>7. FlattenSeq(seqs) = f[n]
    BY <1>1, <1>4 DEF FlattenSeq
  <2> HIDE DEF f
  <2> DEFINE T == {m \in Nat : m <= n /\ m > 0 => f[m] = g[m]}
  <2>8. 0 \in T
    OBVIOUS
  <2>9. ASSUME NEW m \in Nat, m \in T PROVE m + 1 \in T
    <3>1. CASE m + 1 <= n
      <4>1. m + 1 \in 1 .. n /\ m + 1 - 1 = m
        BY <1>1, <3>1
      <4>2. f[m + 1] = Step(f, m + 1) /\ g[m + 1] = Step(g, m + 1)
        <5> HIDE DEF Step
        <5> QED BY <2>5, <2>6, <4>1
      <4>3. m # 0 => f[m] = g[m]
        BY <2>9, <3>1, <1>1
      <4>4. Step(f, m + 1) = Step(g, m + 1)
        BY <4>1, <4>3
      <4> QED BY <4>2, <4>4
    <3> QED BY <3>1
  <2> HIDE DEF T
  <2>10. n \in T
    BY <1>1, <2>8, <2>9, Induction
  <2>11. f[n] = g[n]
    BY <1>1, <1>4, <2>10 DEF T
  <2>12. PICK F : F = [i \in 0 .. n |-> IF i = 0 THEN <<>> ELSE g[i]]
    OBVIOUS
  <2>13. F \in [0 .. n -> Seq(Int)] /\ F[0] = <<>> /\ F[n] = g[n]
    BY <1>1, <1>4, <2>4, <2>12
  <2>14. ASSUME NEW i \in 1 .. n PROVE F[i] = F[i - 1] \o seqs[i]
    <3>1. CASE i = 1
      <4>1. F[i] = seqs[i] /\ F[i - 1] = <<>>
        <5>1. i - 1 = 0 /\ i \in 0 .. n /\ 0 \in 0 .. n /\ i # 0
          BY <1>1, <3>1
        <5>2. g[i] = seqs[i]
          BY <2>4, <3>1
        <5> QED BY <2>12, <5>1, <5>2
      <4>2. seqs[i] \in Seq(Int)
        BY <1>2
      <4> QED BY <4>1, <4>2
    <3>2. CASE i # 1
      <4>1. F[i] = g[i] /\ F[i - 1] = g[i - 1] /\ g[i] = g[i - 1] \o seqs[i]
        <5>1. i - 1 \in 0 .. n /\ i \in 0 .. n /\ i # 0 /\ i - 1 # 0
          BY <1>1, <3>2
        <5>2. g[i] = g[i - 1] \o seqs[i]
          BY <2>4, <3>2, Zenon
        <5> QED BY <2>12, <5>1, <5>2
      <4> QED BY <4>1
    <3> QED BY <3>1, <3>2
  <2> QED BY <1>1, <2>7, <2>11, <2>13, <2>14
<1> QED BY <1>3, <1>4

\* Sequences of the same lengths make one of the same length.
LEMMA SameLengths ==
  ASSUME NEW a \in Seq(Seq(Int)), NEW b \in Seq(Seq(Int)), Len(a) = Len(b),
         \A i \in 1 .. Len(a) : Len(a[i]) = Len(b[i])
  PROVE  /\ FlattenSeq(a) \in Seq(Int) /\ FlattenSeq(b) \in Seq(Int)
         /\ Len(FlattenSeq(a)) = Len(FlattenSeq(b))
<1>1. PICK n \in Nat : n = Len(a)
  OBVIOUS
<1>2. PICK F \in [0 .. n -> Seq(Int)] :
            /\ F[0] = <<>>
            /\ \A i \in 1 .. n : F[i] = F[i - 1] \o a[i]
            /\ FlattenSeq(a) = F[n]
  BY <1>1, Flattened
<1>3. PICK G \in [0 .. n -> Seq(Int)] :
            /\ G[0] = <<>>
            /\ \A i \in 1 .. n : G[i] = G[i - 1] \o b[i]
            /\ FlattenSeq(b) = G[n]
  <2>1. n = Len(b)
    BY <1>1
  <2> QED BY <2>1, Flattened
<1> DEFINE S == {m \in Nat : m <= n => Len(F[m]) = Len(G[m])}
<1>4. 0 \in S
  BY <1>2, <1>3
<1>5. ASSUME NEW m \in Nat, m \in S PROVE m + 1 \in S
  <2>1. CASE m + 1 <= n
    <3>1. m + 1 \in 1 .. n /\ m + 1 - 1 = m /\ m \in 0 .. n
      BY <1>1, <2>1
    <3>2. F[m] \in Seq(Int) /\ G[m] \in Seq(Int) /\ Len(F[m]) = Len(G[m])
      BY <1>2, <1>3, <1>5, <3>1
    <3>3. a[m + 1] \in Seq(Int) /\ b[m + 1] \in Seq(Int) /\ Len(a[m + 1]) = Len(b[m + 1])
      BY <1>1, <3>1
    <3>4. F[m + 1] = F[m] \o a[m + 1] /\ G[m + 1] = G[m] \o b[m + 1]
      <4>1. PICK k \in 1 .. n : k = m + 1 /\ k - 1 = m
        BY <3>1
      <4>2. F[k] = F[k - 1] \o a[k] /\ G[k] = G[k - 1] \o b[k]
        BY <1>2, <1>3
      <4> QED BY <4>1, <4>2
    <3>5. Len(F[m] \o a[m + 1]) = Len(F[m]) + Len(a[m + 1])
          /\ Len(G[m] \o b[m + 1]) = Len(G[m]) + Len(b[m + 1])
      <4>1. ASSUME NEW s \in Seq(Int), NEW t \in Seq(Int) PROVE Len(s \o t) = Len(s) + Len(t)
        BY ConcatProperties
      <4> QED BY <3>2, <3>3, <4>1
    <3>6. Len(F[m + 1]) = Len(G[m + 1])
      BY <3>2, <3>3, <3>4, <3>5, Zenon
    <3> QED BY <3>6
  <2> QED BY <2>1
<1> HIDE DEF S
<1>6. n \in S
  BY <1>1, <1>4, <1>5, Induction
<1>7. Len(F[n]) = Len(G[n]) /\ F[n] \in Seq(Int) /\ G[n] \in Seq(Int)
  <2>1. n <= n /\ n \in 0 .. n
    BY <1>1
  <2> QED BY <1>2, <1>3, <1>6, <2>1 DEF S
<1> QED BY <1>2, <1>3, <1>7

\* Concatenation is associative.
LEMMA Associative ==
  ASSUME NEW s \in Seq(Int), NEW t \in Seq(Int), NEW u \in Seq(Int)
  PROVE  (s \o t) \o u = s \o (t \o u)
BY ConcatAssociative

\* Two sequences and what is in front of them.
LEMMA TwoFlattened ==
  ASSUME NEW a \in Seq(Int), NEW seqs \in Seq(Seq(Int)), Len(seqs) = 2
  PROVE  a \o FlattenSeq(seqs) = a \o seqs[1] \o seqs[2]
<1>1. PICK b \in Seq(Int), c \in Seq(Int) : b = seqs[1] /\ c = seqs[2]
  <2>1. \A i \in 1 .. 2 : seqs[i] \in Seq(Int)
    BY ElementOfSeq
  <2> QED BY <2>1
<1>2. PICK F \in [0 .. 2 -> Seq(Int)] :
        /\ F[0] = <<>> /\ \A i \in 1 .. 2 : F[i] = F[i - 1] \o seqs[i]
        /\ FlattenSeq(seqs) = F[2]
  BY Flattened
<1>3. F[1] = <<>> \o b /\ F[2] = F[1] \o c
  <2>1. ASSUME NEW i \in 1 .. 2, NEW j, j = i - 1
        PROVE  F[i] = F[j] \o seqs[i]
    BY <1>2, <2>1
  <2>2. F[1] = F[0] \o seqs[1]
    BY <2>1
  <2>3. F[2] = F[1] \o seqs[2]
    <3>1. 2 \in 1 .. 2 /\ 1 = 2 - 1
      OBVIOUS
    <3> QED BY <2>1, <3>1
  <2> QED BY <1>1, <1>2, <2>2, <2>3
<1>4. <<>> \o b = b
  BY ConcatEmptySeq
<1>5. FlattenSeq(seqs) = b \o c
  BY <1>2, <1>3, <1>4
<1>6. (a \o b) \o c = a \o (b \o c)
  BY Associative
<1> QED BY <1>1, <1>5, <1>6

\* What lies in a sequence also lies in one that goes on.
LEMMA PartOfJoined ==
  ASSUME NEW part \in Seq(Int), NEW s \in Seq(Int), NEW t \in Seq(Int), NEW before \in Nat,
         PartOf(part, s, before)
  PROVE  PartOf(part, s \o t, before)
<1>1. /\ Len(s \o t) = Len(s) + Len(t) /\ \A k \in 1 .. Len(s) : (s \o t)[k] = s[k]
  BY Concatenated
<1>2. PICK n \in Nat, m \in Nat, size \in Nat : n = Len(s) /\ m = Len(t) /\ size = Len(part)
  OBVIOUS
<1>3. before + size <= n /\ \A k \in 1 .. size : s[before + k] = part[k]
  BY <1>2 DEF PartOf
<1>4. before + size <= n + m
  BY <1>3
<1>5. ASSUME NEW k \in 1 .. size PROVE (s \o t)[before + k] = part[k]
  <2>1. before + k \in 1 .. n
    BY <1>3
  <2> QED BY <1>1, <1>2, <1>3, <2>1
<1> QED BY <1>1, <1>2, <1>4, <1>5 DEF PartOf

\* The sequences lie in the one that FlattenSeq makes of them, one behind the other.
LEMMA PartsOfFlattened ==
  ASSUME NEW seqs \in Seq(Seq(Int))
  PROVE  \E F \in [0 .. Len(seqs) -> Seq(Int)] :
            /\ F[0] = <<>> /\ FlattenSeq(seqs) = F[Len(seqs)]
            /\ \A i \in 1 .. Len(seqs) :
                  /\ Len(F[i]) = Len(F[i - 1]) + Len(seqs[i])
                  /\ PartOf(seqs[i], FlattenSeq(seqs), Len(F[i - 1]))
<1>1. PICK n \in Nat : n = Len(seqs)
  OBVIOUS
<1>2. \A i \in 1 .. n : seqs[i] \in Seq(Int)
  BY <1>1
<1>3. PICK F \in [0 .. n -> Seq(Int)] :
            /\ F[0] = <<>>
            /\ \A i \in 1 .. n : F[i] = F[i - 1] \o seqs[i]
            /\ FlattenSeq(seqs) = F[n]
  BY <1>1, Flattened
<1>4. ASSUME NEW i \in 1 .. n
      PROVE  /\ Len(F[i]) = Len(F[i - 1]) + Len(seqs[i])
             /\ PartOf(seqs[i], F[n], Len(F[i - 1]))
  <2>1. PICK part \in Seq(Int), s \in Seq(Int) : part = seqs[i] /\ s = F[i - 1]
    <3>1. i - 1 \in 0 .. n
      BY <1>1
    <3> QED BY <1>2, <1>3, <3>1
  <2>2. PICK before \in Nat : before = Len(s)
    OBVIOUS
  <2>3. F[i] = s \o part
    BY <1>3, <2>1
  <2>4. /\ Len(s \o part) = Len(s) + Len(part)
        /\ \A k \in 1 .. Len(part) : (s \o part)[Len(s) + k] = part[k]
    BY Concatenated
  <2>5. PartOf(part, F[i], before)
    <3>1. Len(F[i]) = before + Len(part) /\ \A k \in 1 .. Len(part) : F[i][before + k] = part[k]
      BY <2>2, <2>3, <2>4
    <3>2. before + Len(part) <= Len(F[i])
      BY <3>1
    <3> QED BY <3>1, <3>2 DEF PartOf
  <2> DEFINE S == {j \in Nat : i + j <= n => PartOf(part, F[i + j], before)}
  <2>6. 0 \in S
    BY <2>5
  <2>7. ASSUME NEW j \in Nat, j \in S PROVE j + 1 \in S
    <3>1. CASE i + (j + 1) <= n
      <4>1. PICK k \in Nat : k = i + j
        OBVIOUS
      <4>2. k <= n /\ k \in 0 .. n /\ k + 1 \in 1 .. n /\ k + 1 - 1 = k /\ i + (j + 1) = k + 1
        BY <1>1, <3>1, <4>1
      <4>3. PartOf(part, F[k], before)
        BY <2>7, <4>1, <4>2
      <4>4. F[k] \in Seq(Int) /\ seqs[k + 1] \in Seq(Int)
        BY <1>2, <1>3, <4>2
      <4>5. F[k + 1] = F[k] \o seqs[k + 1]
        <5>1. PICK l \in 1 .. n : l = k + 1 /\ l - 1 = k
          BY <4>2
        <5>2. F[l] = F[l - 1] \o seqs[l]
          BY <1>3
        <5> QED BY <5>1, <5>2
      <4>6. PartOf(part, F[k + 1], before)
        <5>1. PICK s1 \in Seq(Int), s2 \in Seq(Int) : s1 = F[k] /\ s2 = seqs[k + 1]
          BY <4>4
        <5>2. PartOf(part, s1, before)
          BY <4>3, <5>1
        <5>3. PartOf(part, s1 \o s2, before)
          BY ONLY <5>2, part \in Seq(Int), s1 \in Seq(Int), s2 \in Seq(Int), before \in Nat,
                  PartOfJoined
        <5> QED BY <4>5, <5>1, <5>3
      <4>7. PartOf(part, F[i + (j + 1)], before)
        BY <4>2, <4>6
      <4> QED BY <4>7
    <3> QED BY <3>1
  <2> HIDE DEF S
  <2>8. PICK j \in Nat : i + j = n
    <3>1. n - i \in Nat /\ i + (n - i) = n
      BY <1>1
    <3> QED BY <3>1
  <2>9. j \in S
    BY <2>6, <2>7, Induction
  <2>10. PartOf(part, F[n], before)
    <3>1. n <= n
      BY <1>1
    <3> QED BY <2>8, <2>9, <3>1 DEF S
  <2> QED BY <2>1, <2>2, <2>3, <2>4, <2>10
<1> QED BY <1>1, <1>3, <1>4

-----------------------------------------------------------------------------
(* Tokens and lines *)

\* What the assembler relies on for every token.
GoodToken(t) ==
    /\ t = [type |-> t.type, length |-> t.length, name |-> t.name, reg |-> t.reg,
            value |-> t.value, offset |-> t.offset, bytes |-> t.bytes]
    /\ t.value \in Nat /\ t.bytes \in Seq(Bytes)
    /\ t.type = "BYTE_LITERAL" => t.length = 1 /\ t.value \in Bytes
    /\ t.type = "WORD_LITERAL" => t.length = 2 /\ t.value \in Words
    /\ t.type \in DOMAIN OperandTypes => IsOperand(AsOperand(t))
    /\ t.type \in DOMAIN LABEL_REFERENCE_TYPES =>
          /\ t.name \in STRING
          /\ IsOperand(Operand(t.length, OperandTypes[LABEL_REFERENCE_TYPES[t.type]],
                               t.reg, 0, t.offset))
    /\ t.type = "INSTRUCTION" => t.name \in InstructionNames
    /\ t.type = "MACRO" => t.name \in MacroNames

\* Tokens are good, and labels are what they were.
LEMMA TokenGood ==
  ASSUME NEW word \in SourceWords, CanTokenize(word)
  PROVE  /\ GoodToken(Tokenized(word))
         /\ Tokenized(word).type = "LABEL" <=> word.type = "LABEL"
         /\ word.type = "LABEL" => Tokenized(word) = word
<1>1. /\ word.type \in WordTypes /\ word.value \in Nat /\ word.bytes \in Seq(Bytes)
      /\ word.name \in STRING /\ IsWord(word)
      /\ word = [type |-> word.type, length |-> word.length, name |-> word.name,
                 reg |-> word.reg, value |-> word.value, offset |-> word.offset,
                 bytes |-> word.bytes]
  BY DEF SourceWords
<1>2. <<>> \in Seq(Bytes)
  OBVIOUS
<1>3. CASE word.type = "MACRO"
  <2>1. Tokenized(word) = Token("MACRO", 0, Upper(word.name), "none", 0, 0)
    BY <1>3 DEF Tokenized
  <2>2. Upper(word.name) \in MacroNames
    BY <1>3 DEF CanTokenize
  <2> QED BY <1>2, <1>3, <2>1, <2>2 DEF Token, GoodToken, OperandTypes, LABEL_REFERENCE_TYPES
<1>4. CASE word.type # "MACRO" /\ Tokenized(word) = word
  <2>1. word.type # "INSTRUCTION"
    BY <1>1 DEF WordTypes, OperandTypes, LABEL_REFERENCE_TYPES
  <2> QED BY <1>1, <1>4, <2>1 DEF GoodToken, IsWord, AsOperand
<1>5. CASE word.type = "IDENTIFIER" /\ Upper(word.name) \in InstructionNames
  <2>1. Tokenized(word) = Token("INSTRUCTION", 0, Upper(word.name), "none", 0, 0)
    BY <1>5 DEF Tokenized
  <2> QED BY <1>2, <1>5, <2>1 DEF Token, GoodToken, OperandTypes, LABEL_REFERENCE_TYPES
<1>6. CASE /\ word.type = "IDENTIFIER" /\ Upper(word.name) \notin InstructionNames
           /\ Upper(word.name) \in Names(WordRegisters)
  <2> DEFINE r == Upper(word.name)
  <2>1. Tokenized(word) = Token("WORD_REGISTER", 2, r, r, 0, 0)
    BY <1>6 DEF Tokenized
  <2>2. r \in ElementsOf(WordRegisters)
    BY <1>6 DEF Names, ElementsOf
  <2>3. r \in ElementsOf(RegisterNames)
    BY <2>2, RegisterCodes
  <2> HIDE DEF r
  <2>4. IsOperand(Operand(2, "REGISTER", r, 0, 0))
    BY <2>2, <2>3, OperandTypeList DEF IsOperand, Operand, WithRegister
  <2> QED BY <1>2, <1>6, <2>1, <2>4
          DEF Token, GoodToken, OperandTypes, LABEL_REFERENCE_TYPES, AsOperand
<1>7. CASE /\ word.type = "IDENTIFIER" /\ Upper(word.name) \notin InstructionNames
           /\ Upper(word.name) \notin Names(WordRegisters)
           /\ Upper(word.name) \in Names(ByteRegisters)
  <2> DEFINE r == Upper(word.name)
  <2>1. Tokenized(word) = Token("BYTE_REGISTER", 1, r, r, 0, 0)
    BY <1>7 DEF Tokenized
  <2>2. r \in ElementsOf(ByteRegisters)
    BY <1>7 DEF Names, ElementsOf
  <2>3. r \in ElementsOf(RegisterNames)
    BY <2>2, RegisterCodes
  <2> HIDE DEF r
  <2>4. IsOperand(Operand(1, "REGISTER", r, 0, 0))
    BY <2>2, <2>3, OperandTypeList DEF IsOperand, Operand, WithRegister
  <2> QED BY <1>2, <1>7, <2>1, <2>4
          DEF Token, GoodToken, OperandTypes, LABEL_REFERENCE_TYPES, AsOperand
<1>8. \/ word.type = "MACRO"
      \/ word.type # "MACRO" /\ Tokenized(word) = word
      \/ /\ word.type = "IDENTIFIER"
         /\ \/ Upper(word.name) \in InstructionNames \/ Upper(word.name) \in Names(WordRegisters)
            \/ Upper(word.name) \in Names(ByteRegisters)
  <2>1. CASE word.type # "MACRO" /\ word.type # "IDENTIFIER"
    BY <2>1 DEF Tokenized
  <2>2. CASE /\ word.type = "IDENTIFIER" /\ Upper(word.name) \notin InstructionNames
             /\ Upper(word.name) \notin Names(WordRegisters)
             /\ Upper(word.name) \notin Names(ByteRegisters)
    BY <2>2 DEF Tokenized
  <2>3. CASE word.type = "MACRO"
    BY <2>3
  <2> QED BY <2>1, <2>2, <2>3
<1> QED BY <1>3, <1>4, <1>5, <1>6, <1>7, <1>8

\* The labels of a line are the tokens up to the first that is none.
LEMMA LabelsFirst ==
  ASSUME NEW tokens, NEW n \in Nat, DOMAIN tokens = 1 .. n
  PROVE  LET m == Cardinality(LabelsOf(tokens))
         IN  /\ m \in 0 .. n /\ LabelsOf(tokens) = 1 .. m
             /\ m < n => tokens[m + 1].type # "LABEL"
<1> DEFINE S == {k \in 1 .. n : tokens[k].type # "LABEL"}
<1>1. PICK m \in 0 .. n : /\ \A k \in 1 .. m : tokens[k].type = "LABEL"
                          /\ m < n => tokens[m + 1].type # "LABEL"
  <2>1. CASE S = {}
    <3>1. n \in 0 .. n /\ ~(n < n) /\ \A k \in 1 .. n : tokens[k].type = "LABEL"
      BY <2>1
    <3> QED BY <3>1
  <2>2. CASE S # {}
    <3>1. PICK k \in S : \A j \in S : k <= j
      <4>1. S \subseteq Nat
        OBVIOUS
      <4> HIDE DEF S
      <4> QED BY <2>2, <4>1, Least
    <3>2. k - 1 \in 0 .. n /\ k - 1 + 1 = k /\ tokens[k].type # "LABEL"
      BY <3>1
    <3>3. \A j \in 1 .. k - 1 : tokens[j].type = "LABEL"
      BY <3>1
    <3> QED BY <3>2, <3>3
  <2> QED BY <2>1, <2>2
<1>2. LabelsOf(tokens) = 1 .. m
  <2>1. ASSUME NEW k \in 1 .. m PROVE k \in LabelsOf(tokens)
    BY <1>1, <2>1 DEF LabelsOf
  <2>2. ASSUME NEW k \in LabelsOf(tokens) PROVE k \in 1 .. m
    <3>1. k \in 1 .. n /\ \A j \in 1 .. k : tokens[j].type = "LABEL"
      BY <2>2 DEF LabelsOf
    <3>2. ASSUME k > m PROVE FALSE
      <4>1. m < n /\ m + 1 \in 1 .. k
        BY <3>1, <3>2
      <4> QED BY <1>1, <3>1, <4>1
    <3> QED BY <1>1, <3>1, <3>2
  <2> QED BY <2>1, <2>2
<1>3. Cardinality(1 .. m) = m
  <2>1. 1 \in Int /\ m \in Int /\ m >= 0
    BY <1>1
  <2>2. Cardinality(1 .. m) = IF 1 > m THEN 0 ELSE m - 1 + 1
    BY ONLY <2>1, FS_Interval
  <2> QED BY <2>1, <2>2
<1> QED BY <1>1, <1>2, <1>3

\* Every word of the source can be tokenized.
AllTokenize == \A i \in DOMAIN source : \A k \in DOMAIN source[i] : CanTokenize(source[i][k])

\* The tokens of a line: first its labels, then its statement.
LEMMA LineTokens ==
  ASSUME source \in Sources, AllTokenize, NEW i \in DOMAIN source
  PROVE  \E n \in Nat, m \in Nat :
            /\ m <= n /\ DOMAIN source[i] = 1 .. n /\ LabelsOf(Tokens(i)) = 1 .. m
            /\ \A k \in 1 .. n : /\ Tokens(i)[k] = Tokenized(source[i][k])
                                 /\ GoodToken(Tokens(i)[k])
                                 /\ Tokens(i)[k].type = "LABEL" <=> source[i][k].type = "LABEL"
                                 /\ source[i][k].type = "LABEL" => Tokens(i)[k] = source[i][k]
            /\ \E S : Said(i) \in Seq(S)
            /\ Len(Said(i)) = n - m /\ DOMAIN Said(i) = 1 .. n - m
            /\ \A k \in 1 .. n - m : Said(i)[k] = Tokens(i)[m + k]
<1> DEFINE tokens == Tokens(i)
<1>1. source[i] \in Seq(SourceWords)
  BY DEF Sources
<1>2. PICK n \in Nat : n = Len(source[i]) /\ DOMAIN source[i] = 1 .. n
  BY <1>1
<1>3. \A k \in 1 .. n : source[i][k] \in SourceWords /\ CanTokenize(source[i][k])
  BY <1>1, <1>2 DEF AllTokenize
<1>4. tokens = [k \in 1 .. n |-> Tokenized(source[i][k])]
  BY <1>2 DEF Tokens
<1> DEFINE S == {tokens[k] : k \in 1 .. n}
<1>5. /\ DOMAIN tokens = 1 .. n /\ Len(tokens) = n /\ tokens \in Seq(S)
      /\ \A k \in 1 .. n : tokens[k] = Tokenized(source[i][k])
  <2> HIDE DEF tokens
  <2> QED BY <1>4
<1> HIDE DEF tokens
<1>6. ASSUME NEW k \in 1 .. n
      PROVE  /\ GoodToken(tokens[k])
             /\ tokens[k].type = "LABEL" <=> source[i][k].type = "LABEL"
             /\ source[i][k].type = "LABEL" => tokens[k] = source[i][k]
  BY <1>3, <1>5, TokenGood
<1>7. PICK m \in 0 .. n : m = Cardinality(LabelsOf(tokens)) /\ LabelsOf(tokens) = 1 .. m
  BY <1>5, LabelsFirst
<1>8. Said(i) = SubSeq(tokens, m + 1, n)
  BY <1>5, <1>7 DEF Said, Statement, tokens
<1>9. /\ Said(i) \in Seq(S) /\ Len(Said(i)) = n - m
      /\ \A k \in 1 .. n - m : Said(i)[k] = tokens[m + k]
  <2>1. /\ m + 1 \in Int /\ n \in Int /\ m + 1 <= n + 1
        /\ \A k \in m + 1 .. n : tokens[k] \in S
    BY <1>2, <1>7
  <2> HIDE DEF S
  <2>2. /\ Said(i) \in Seq(S)
        /\ Len(Said(i)) = IF m + 1 <= n THEN n - (m + 1) + 1 ELSE 0
        /\ \A k \in 1 .. n - (m + 1) + 1 : Said(i)[k] = tokens[m + 1 + k - 1]
    BY <1>8, <2>1, SubSeqProperties
  <2>3. \A k \in 1 .. n - m : m + 1 + k - 1 = m + k /\ k \in 1 .. n - (m + 1) + 1
    BY <1>2, <1>7
  <2>4. Len(Said(i)) = n - m
    <3>1. CASE m + 1 <= n
      <4>1. Len(Said(i)) = n - (m + 1) + 1
        BY <2>2, <3>1, Zenon
      <4>2. n - (m + 1) + 1 = n - m
        BY <1>2, <1>7
      <4> QED BY <4>1, <4>2
    <3>2. CASE ~(m + 1 <= n)
      <4>1. Len(Said(i)) = 0
        BY <2>2, <3>2, Zenon
      <4> QED BY <1>2, <1>7, <3>2, <4>1
    <3> QED BY <3>1, <3>2
  <2>5. ASSUME NEW k \in 1 .. n - m PROVE Said(i)[k] = tokens[m + k]
    <3>1. Said(i)[k] = tokens[m + 1 + k - 1] /\ m + 1 + k - 1 = m + k
      BY <2>2, <2>3
    <3> QED BY <3>1
  <2> QED BY <2>2, <2>4, <2>5
<1>10. DOMAIN Said(i) = 1 .. n - m
  <2> HIDE DEF S
  <2> QED BY <1>9
<1>11. m \in Nat /\ m <= n
  BY <1>7
<1> QED BY <1>2, <1>5, <1>6, <1>7, <1>9, <1>10, <1>11 DEF tokens

\* What a line says is a sequence of good tokens: its first and the arguments.
LEMMA SaidTokens ==
  ASSUME source \in Sources, AllTokenize, NEW i \in DOMAIN source
  PROVE  /\ Len(Said(i)) \in Nat /\ DOMAIN Said(i) = 1 .. Len(Said(i))
         /\ \A k \in 1 .. Len(Said(i)) : GoodToken(Said(i)[k])
         /\ Said(i) = <<>> <=> Len(Said(i)) = 0
         /\ Said(i) # <<>> =>
               /\ Head(Said(i)) = Said(i)[1] /\ GoodToken(Head(Said(i)))
               /\ Len(Tail(Said(i))) = Len(Said(i)) - 1
               /\ DOMAIN Tail(Said(i)) = 1 .. Len(Said(i)) - 1
               /\ \A k \in 1 .. Len(Said(i)) - 1 :
                     Tail(Said(i))[k] = Said(i)[k + 1] /\ GoodToken(Tail(Said(i))[k])
<1>1. PICK n \in Nat, m \in Nat :
            /\ m <= n /\ \A k \in 1 .. n : GoodToken(Tokens(i)[k])
            /\ Len(Said(i)) = n - m /\ DOMAIN Said(i) = 1 .. n - m
            /\ \A k \in 1 .. n - m : Said(i)[k] = Tokens(i)[m + k]
  BY LineTokens
<1>2. PICK l \in Nat : l = n - m /\ l = Len(Said(i)) /\ DOMAIN Said(i) = 1 .. l
  BY <1>1
<1>3. ASSUME NEW k \in 1 .. l PROVE GoodToken(Said(i)[k])
  <2>1. k \in 1 .. n - m /\ m + k \in 1 .. n
    BY <1>1, <1>2
  <2> QED BY <1>1, <2>1
<1>4. PICK S : Said(i) \in Seq(S)
  BY LineTokens
<1>5. Said(i) = <<>> <=> l = 0
  BY <1>2, <1>4
<1>6. ASSUME Said(i) # <<>>
      PROVE  /\ Head(Said(i)) = Said(i)[1]
             /\ Len(Tail(Said(i))) = l - 1 /\ DOMAIN Tail(Said(i)) = 1 .. l - 1
             /\ \A k \in 1 .. l - 1 : Tail(Said(i))[k] = Said(i)[k + 1]
  <2>1. /\ Head(Said(i)) = Said(i)[1] /\ Tail(Said(i)) \in Seq(S)
        /\ Len(Tail(Said(i))) = Len(Said(i)) - 1
        /\ \A k \in 1 .. Len(Tail(Said(i))) : Tail(Said(i))[k] = Said(i)[k + 1]
    BY <1>4, <1>6, HeadTailProperties
  <2>2. DOMAIN Tail(Said(i)) = 1 .. Len(Tail(Said(i)))
    BY <2>1
  <2> QED BY <1>2, <2>1, <2>2
<1>7. ASSUME Said(i) # <<>>
      PROVE  /\ GoodToken(Said(i)[1])
             /\ \A k \in 1 .. l - 1 : GoodToken(Said(i)[k + 1])
  <2>1. 1 \in 1 .. l /\ \A k \in 1 .. l - 1 : k + 1 \in 1 .. l
    BY <1>2, <1>5, <1>7
  <2> QED BY <1>3, <2>1
<1> QED BY <1>2, <1>3, <1>5, <1>6, <1>7

\* Every instruction has an opcode and a number of operands, MOV two; no name of a macro
\* is one of an instruction.
LEMMA InstructionFacts ==
  ASSUME NEW inst \in Instructions
  PROVE  /\ inst.opcode \in Int /\ inst.operand_count \in Nat
         /\ inst.name \notin MacroNames
         /\ inst.name = "MOV" => inst.operand_count = 2
<1>1. CASE inst \in From(1, 0, <<"NOP", "HLT", "SHUTDOWN">>)
  BY <1>1 DEF From, MacroNames
<1>2. CASE inst \in From(4, 1, <<"PRINT", "PRINTCHAR">>)
  BY <1>2 DEF From, MacroNames
<1>3. CASE inst \in From(6, 5, <<"SETTMR">>)
  BY <1>3 DEF From, MacroNames
<1>4. CASE inst \in From(16, 3, <<"ADD", "SUB", "MUL", "DIV", "MOD">>)
  BY <1>4 DEF From, MacroNames
<1>5. CASE inst \in From(21, 2, <<"INC", "DEC">>)
  BY <1>5 DEF From, MacroNames
<1>6. CASE inst \in From(32, 3, <<"IADD", "ISUB", "IMUL", "IDIV", "IMOD">>)
  BY <1>6 DEF From, MacroNames
<1>7. CASE inst \in From(37, 2, <<"IINC", "IDEC", "NEG">>)
  BY <1>7 DEF From, MacroNames
<1>8. CASE inst \in From(80, 2, <<"MOV">>)
  BY <1>8 DEF From, MacroNames
<1>9. CASE inst \in From(82, 1, <<"PUSH", "POP">>)
  BY <1>9 DEF From, MacroNames
<1>10. CASE inst \in From(84, 0, <<"PUSHF", "POPF">>)
  BY <1>10 DEF From, MacroNames
<1>11. CASE inst \in From(88, 2, <<"IN", "OUT">>)
  BY <1>11 DEF From, MacroNames
<1>12. CASE inst \in From(128, 1, <<"CALL">>)
  BY <1>12 DEF From, MacroNames
<1>13. CASE inst \in From(129, 0, <<"RET">>)
  BY <1>13 DEF From, MacroNames
<1>14. CASE inst \in From(130, 2, <<"ENTER">>)
  BY <1>14 DEF From, MacroNames
<1>15. CASE inst \in From(131, 0, <<"LVRET">>)
  BY <1>15 DEF From, MacroNames
<1>16. CASE inst \in From(132, 1, <<"INT">>)
  BY <1>16 DEF From, MacroNames
<1>17. CASE inst \in From(133, 0, <<"IRET">>)
  BY <1>17 DEF From, MacroNames
<1>18. CASE inst \in From(134, 2, <<"SETINT">>)
  BY <1>18 DEF From, MacroNames
<1>19. CASE inst \in From(135, 0, <<"STI", "CLI">>)
  BY <1>19 DEF From, MacroNames
<1>20. CASE inst \in From(144, 1, <<"JMP">>)
  BY <1>20 DEF From, MacroNames
<1>21. CASE inst \in From(145, 3, <<"JE", "JNE", "JG", "JGE", "JL", "JLE", "JA", "JAE", "JB", "JBE">>)
  BY <1>21 DEF From, MacroNames
<1> QED BY <1>1, <1>2, <1>3, <1>4, <1>5, <1>6, <1>7, <1>8, <1>9, <1>10, <1>11, <1>12, <1>13, <1>14, <1>15, <1>16, <1>17, <1>18, <1>19, <1>20, <1>21 DEF Instructions

-----------------------------------------------------------------------------
(* The names that are defined in front of a line *)

\* The names that are defined in front of line n, and where: constants, and the
\* parameters and variables of the scope that is open.
ConstLines(n) == {d \in 1 .. n - 1 : Says(d, {"CONST"})}
Declared(n, names) == {d \in 1 .. n - 1 : Says(d, names) /\ \E e \in EntersOf(n) : e < d}
DefinitionLines(n) == ConstLines(n) \union Declared(n, DOMAIN Declarations)
NameOf(d) == Said(d)[2].name
KindOf(d) == IF Says(d, Parameters) THEN "parameter" ELSE "variable"
NamesOfKind(kind) == IF kind = "parameter" THEN Parameters ELSE {"VAR", "VARB"}

\* The bytes that are declared up to line j.
DeclaredBytes(n, j, names) ==
    UNION {{k} \X (1 .. SizeOf(k)) : k \in {k \in Declared(n, names) : k <= j}}

\* What a line adds to them.
LEMMA LineAdds ==
  ASSUME NEW n \in Nat \ {0}
  PROVE  /\ ConstLines(n + 1) = ConstLines(n) \union (IF Says(n, {"CONST"}) THEN {n} ELSE {})
         /\ Says(n, {"ENTER"}) => EntersOf(n + 1) = {n}
         /\ Says(n, {"LVRET"}) => EntersOf(n + 1) = {}
         /\ ~Says(n, {"ENTER", "LVRET"}) => EntersOf(n + 1) = EntersOf(n)
<1>1. n + 1 - 1 = n /\ 1 .. n = (1 .. n - 1) \union {n}
  OBVIOUS
<1>2. ConstLines(n + 1) = ConstLines(n) \union (IF Says(n, {"CONST"}) THEN {n} ELSE {})
  BY <1>1 DEF ConstLines
<1>3. /\ Says(n, {"ENTER", "LVRET"}) <=> Says(n, {"ENTER"}) \/ Says(n, {"LVRET"})
      /\ ~(Says(n, {"ENTER"}) /\ Says(n, {"LVRET"}))
  BY DEF Says
<1>4. EntersOf(n + 1) = {e \in 1 .. n : /\ Says(e, {"ENTER"})
                                        /\ \A j \in e + 1 .. n : ~Says(j, {"ENTER", "LVRET"})}
  BY <1>1 DEF EntersOf
<1>5. n \in 1 .. n /\ n + 1 .. n = {}
  OBVIOUS
<1>6. CASE Says(n, {"ENTER"})
  <2>1. ASSUME NEW e \in EntersOf(n + 1) PROVE e = n
    BY <1>3, <1>4, <1>6
  <2>2. n \in EntersOf(n + 1)
    BY <1>4, <1>5, <1>6
  <2> QED BY <1>2, <1>3, <1>6, <2>1, <2>2
<1>7. CASE Says(n, {"LVRET"})
  <2>1. ASSUME NEW e \in EntersOf(n + 1) PROVE FALSE
    <3>1. e \in 1 .. n /\ Says(e, {"ENTER"})
          /\ \A j \in e + 1 .. n : ~Says(j, {"ENTER", "LVRET"})
      BY <1>4
    <3>2. e # n
      BY <1>3, <1>7, <3>1
    <3>3. n \in e + 1 .. n
      BY <3>1, <3>2
    <3> QED BY <1>3, <1>7, <3>1, <3>3
  <2> QED BY <1>2, <1>3, <1>7, <2>1
<1>8. CASE ~Says(n, {"ENTER", "LVRET"})
  <2>1. ASSUME NEW e PROVE e \in EntersOf(n + 1) <=> e \in EntersOf(n)
    <3>1. CASE e \in 1 .. n - 1
      <4>1. e + 1 .. n = (e + 1 .. n - 1) \union {n} /\ e \in 1 .. n
        BY <3>1
      <4> QED BY <1>4, <1>8, <3>1, <4>1 DEF EntersOf
    <3>2. CASE e = n
      BY <1>3, <1>4, <1>8, <3>2 DEF EntersOf
    <3>3. CASE e \notin 1 .. n
      BY <1>4, <3>3 DEF EntersOf
    <3> QED BY <3>1, <3>2, <3>3
  <2> QED BY <1>2, <1>3, <1>8, <2>1
<1> QED BY <1>3, <1>6, <1>7, <1>8

\* What a line adds to the declarations of the open scope.
LEMMA LineDeclares ==
  ASSUME NEW n \in Nat \ {0}, NEW names
  PROVE  /\ Says(n, {"ENTER", "LVRET"}) => Declared(n + 1, names) = {}
         /\ ~Says(n, {"ENTER", "LVRET"}) =>
               Declared(n + 1, names) = Declared(n, names)
                   \union (IF Says(n, names) /\ EntersOf(n) # {} THEN {n} ELSE {})
<1>1. n + 1 - 1 = n /\ 1 .. n = (1 .. n - 1) \union {n} /\ n \notin 1 .. n - 1
  OBVIOUS
<1>2. Says(n, {"ENTER", "LVRET"}) <=> Says(n, {"ENTER"}) \/ Says(n, {"LVRET"})
  BY DEF Says
<1>3. CASE Says(n, {"ENTER", "LVRET"})
  <2>1. \A e \in EntersOf(n + 1) : e = n
    BY <1>2, <1>3, LineAdds
  <2>2. ASSUME NEW d \in Declared(n + 1, names) PROVE FALSE
    <3>1. d \in 1 .. n /\ \E e \in EntersOf(n + 1) : e < d
      BY <1>1 DEF Declared
    <3> QED BY <2>1, <3>1
  <2> QED BY <1>3, <2>2
<1>4. CASE ~Says(n, {"ENTER", "LVRET"})
  <2>1. EntersOf(n + 1) = EntersOf(n)
    BY <1>4, LineAdds
  <2>2. (\E e \in EntersOf(n) : e < n) <=> EntersOf(n) # {}
    <3>1. \A e \in EntersOf(n) : e < n
      BY DEF EntersOf
    <3> QED BY <3>1
  <2>3. Declared(n + 1, names) = {d \in 1 .. n : Says(d, names) /\ \E e \in EntersOf(n) : e < d}
    BY <1>1, <2>1 DEF Declared
  <2> QED BY <1>1, <1>4, <2>2, <2>3 DEF Declared
<1> QED BY <1>3, <1>4

\* How many bytes those are.
LEMMA DeclaredCount ==
  ASSUME NEW n \in Nat \ {0}, NEW names, NEW j \in Nat
  PROVE  /\ IsFiniteSet(DeclaredBytes(n, j, names))
         /\ Cardinality(DeclaredBytes(n, j, names)) \in Nat
<1>1. DeclaredBytes(n, j, names) \subseteq (1 .. n) \X (1 .. 2)
  <2>1. ASSUME NEW k \in Declared(n, names) PROVE k \in 1 .. n
    BY DEF Declared
  <2>2. ASSUME NEW k PROVE SizeOf(k) \in {1, 2}
    BY DEF SizeOf
  <2>3. ASSUME NEW k \in 1 .. n PROVE {k} \X (1 .. SizeOf(k)) \subseteq (1 .. n) \X (1 .. 2)
    <3>1. 1 .. SizeOf(k) \subseteq 1 .. 2
      BY <2>2
    <3> QED BY <3>1
  <2> QED BY <2>1, <2>3 DEF DeclaredBytes
<1>2. IsFiniteSet((1 .. n) \X (1 .. 2))
  <2>1. IsFiniteSet(1 .. n) /\ IsFiniteSet(1 .. 2)
    <3>1. 1 \in Int /\ 2 \in Int /\ n \in Int
      OBVIOUS
    <3> QED BY ONLY <3>1, FS_Interval
  <2> QED BY <2>1, FS_Product
<1> QED BY <1>1, <1>2, FS_Subset, FS_CardinalityType

\* Two sets of bytes that are added to each other.
LEMMA BytesAdded ==
  ASSUME NEW S, IsFiniteSet(S), NEW n, NEW size \in {1, 2}, \A b \in S : b[1] # n
  PROVE  Cardinality(S \union ({n} \X (1 .. size))) = Cardinality(S) + size
<1>1. Cardinality(S) \in Nat
  BY FS_CardinalityType
<1>2. PICK x, y : x = <<n, 1>> /\ y = <<n, 2>>
  OBVIOUS
<1>3. x \notin S /\ y \notin S /\ x # y
  BY <1>2
<1>4. IsFiniteSet(S \union {x}) /\ Cardinality(S \union {x}) = Cardinality(S) + 1
  BY <1>3, FS_AddElement
<1>5. CASE size = 1
  <2>1. {n} \X (1 .. size) = {x}
    BY <1>2, <1>5
  <2> QED BY <1>4, <1>5, <2>1
<1>6. CASE size = 2
  <2>1. S \union ({n} \X (1 .. size)) = (S \union {x}) \union {y}
    <3>1. 1 .. size = {1, 2}
      BY <1>6
    <3> QED BY <1>2, <3>1
  <2>2. Cardinality((S \union {x}) \union {y}) = Cardinality(S \union {x}) + 1
    <3>1. y \notin S \union {x}
      BY <1>3
    <3> QED BY <1>4, <3>1, FS_AddElement
  <2>3. Cardinality(S \union ({n} \X (1 .. size))) = Cardinality(S) + 1 + 1
    BY <1>4, <2>1, <2>2, Zenon
  <2> QED BY <1>1, <1>6, <2>3
<1> QED BY <1>5, <1>6

\* What a line adds to the bytes of the declarations.
LEMMA LineAddsBytes ==
  ASSUME NEW n \in Nat \ {0}, NEW names
  PROVE  /\ Says(n, {"ENTER", "LVRET"}) =>
               \A j \in Nat : DeclaredBytes(n + 1, j, names) = {}
         /\ ~Says(n, {"ENTER", "LVRET"}) =>
               /\ \A j \in 0 .. n - 1 : DeclaredBytes(n + 1, j, names) = DeclaredBytes(n, j, names)
               /\ \A j \in {n, n + 1} :
                     DeclaredBytes(n + 1, j, names) = DeclaredBytes(n, n, names)
                         \union (IF Says(n, names) /\ EntersOf(n) # {}
                                 THEN {n} \X (1 .. SizeOf(n)) ELSE {})
               /\ \A b \in DeclaredBytes(n, n, names) : b[1] # n
<1>1. CASE Says(n, {"ENTER", "LVRET"})
  <2>1. Declared(n + 1, names) = {}
    BY <1>1, LineDeclares
  <2> QED BY <1>1, <2>1 DEF DeclaredBytes
<1>2. CASE ~Says(n, {"ENTER", "LVRET"})
  <2> DEFINE new == IF Says(n, names) /\ EntersOf(n) # {} THEN {n} ELSE {}
  <2>1. Declared(n + 1, names) = Declared(n, names) \union new /\ new \subseteq {n}
    BY <1>2, LineDeclares
  <2>2. Declared(n, names) \subseteq 1 .. n - 1
    BY DEF Declared
  <2>3. ASSUME NEW j \in 0 .. n - 1
        PROVE  {k \in Declared(n + 1, names) : k <= j} = {k \in Declared(n, names) : k <= j}
    <3> HIDE DEF new
    <3>1. ~(n <= j)
      OBVIOUS
    <3> QED BY <2>1, <3>1
  <2>4. ASSUME NEW j \in {n, n + 1}
        PROVE  {k \in Declared(n + 1, names) : k <= j}
                   = {k \in Declared(n, names) : k <= n} \union new
    <3> HIDE DEF new
    <3>1. n <= j
      OBVIOUS
    <3>2. \A k \in Declared(n, names) : k <= j /\ k <= n
      <4>1. \A k \in 1 .. n - 1 : k <= j /\ k <= n
        OBVIOUS
      <4> QED BY <2>2, <4>1
    <3> QED BY <2>1, <3>1, <3>2
  <2>5. \A j \in 0 .. n - 1 : DeclaredBytes(n + 1, j, names) = DeclaredBytes(n, j, names)
    BY <2>3 DEF DeclaredBytes
  <2>6. ASSUME NEW j \in {n, n + 1}
        PROVE  DeclaredBytes(n + 1, j, names)
                   = DeclaredBytes(n, n, names) \union UNION {{k} \X (1 .. SizeOf(k)) : k \in new}
    <3> HIDE DEF new
    <3> QED BY <2>4 DEF DeclaredBytes
  <2>7. UNION {{k} \X (1 .. SizeOf(k)) : k \in new}
            = IF Says(n, names) /\ EntersOf(n) # {} THEN {n} \X (1 .. SizeOf(n)) ELSE {}
    OBVIOUS
  <2>8. \A b \in DeclaredBytes(n, n, names) : b[1] # n
    <3>1. TAKE b \in DeclaredBytes(n, n, names)
    <3>2. PICK k \in Declared(n, names) : b \in {k} \X (1 .. SizeOf(k))
      BY DEF DeclaredBytes
    <3>3. b[1] = k /\ k # n
      BY <2>2, <3>2
    <3> QED BY <3>3
  <2> HIDE DEF new
  <2>9. \A j \in {n, n + 1} :
            DeclaredBytes(n + 1, j, names) = DeclaredBytes(n, n, names)
                \union (IF Says(n, names) /\ EntersOf(n) # {}
                        THEN {n} \X (1 .. SizeOf(n)) ELSE {})
    BY <2>6, <2>7
  <2> QED BY <1>2, <2>5, <2>8, <2>9
<1> QED BY <1>1, <1>2

-----------------------------------------------------------------------------
(* The literals of constants *)

\* LiteralOf is what its definition says: a .CONST is copied from an earlier one.
LEMMA Literals ==
  ASSUME source \in Sources, NEW k \in DOMAIN source
  PROVE  LiteralOf[k] = IF CopiedFrom(k) = {} THEN Said(k)[3]
                        ELSE LiteralOf[CHOOSE d \in CopiedFrom(k) : TRUE]
<1>1. PICK n \in Nat : DOMAIN source = 1 .. n
  BY DEF Sources
<1> DEFINE Step(f, i) == IF CopiedFrom(i) = {} THEN Said(i)[3]
                         ELSE f[CHOOSE d \in CopiedFrom(i) : TRUE]
           Built(g, m) == g = [i \in 1 .. m |-> g[i]] /\ \A i \in 1 .. m : g[i] = Step(g, i)
           S == {m \in Nat : m <= n => \E g : Built(g, m)}
<1>2. ASSUME NEW i \in 1 .. n, CopiedFrom(i) # {}
      PROVE  (CHOOSE d \in CopiedFrom(i) : TRUE) \in 1 .. i - 1
  BY <1>2 DEF CopiedFrom
<1>3. 0 \in S
  <2>1. PICK g : g = [i \in 1 .. 0 |-> <<>>]
    OBVIOUS
  <2>2. Built(g, 0)
    BY <2>1
  <2> QED BY <2>2
<1>4. ASSUME NEW m \in Nat, m \in S PROVE m + 1 \in S
  <2>1. CASE m + 1 <= n
    <3>1. m <= n /\ m + 1 \in 1 .. n
      BY <1>1, <2>1
    <3>2. PICK g : Built(g, m)
      <4> HIDE DEF Built
      <4> QED BY <1>4, <3>1
    <3>3. PICK h : h = [i \in 1 .. m + 1 |-> IF i = m + 1 THEN Step(g, i) ELSE g[i]]
      OBVIOUS
    <3>4. ASSUME NEW i \in 1 .. m + 1 PROVE h[i] = Step(h, i)
      <4>1. Step(h, i) = Step(g, i)
        <5>1. CASE CopiedFrom(i) = {}
          BY <5>1
        <5>2. CASE CopiedFrom(i) # {}
          <6>1. PICK d : d = CHOOSE x \in CopiedFrom(i) : TRUE
            OBVIOUS
          <6>2. d \in 1 .. i - 1
            BY <1>2, <3>1, <5>2, <6>1
          <6>3. h[d] = g[d]
            BY <3>3, <6>2
          <6> QED BY <5>2, <6>1, <6>3
        <5> QED BY <5>1, <5>2
      <4>2. h[i] = Step(g, i)
        <5> HIDE DEF Step
        <5>1. i # m + 1 => i \in 1 .. m
          OBVIOUS
        <5> QED BY <3>2, <3>3, <5>1
      <4> QED BY <4>1, <4>2
    <3> HIDE DEF Step
    <3>5. Built(h, m + 1)
      BY <3>3, <3>4
    <3> HIDE DEF Built
    <3> QED BY <3>5
  <2> HIDE DEF Built
  <2> QED BY <2>1
<1>5. n \in S
  <2> HIDE DEF S
  <2> QED BY <1>1, <1>3, <1>4, Induction
<1>6. PICK g : Built(g, n)
  <2>1. n <= n
    BY <1>1
  <2> HIDE DEF Built
  <2> QED BY <1>5, <2>1
<1>7. g = [i \in 1 .. n |-> Step(g, i)]
  <2> HIDE DEF Step
  <2> QED BY <1>6
<1> DEFINE f == CHOOSE value : value = [i \in 1 .. n |-> Step(value, i)]
<1>8. f = [i \in 1 .. n |-> Step(f, i)]
  <2> HIDE DEF Step
  <2> QED BY <1>7, Zenon
<1>9. LiteralOf = f
  BY <1>1 DEF LiteralOf
<1> HIDE DEF f
<1>10. f[k] = Step(f, k)
  <2> HIDE DEF Step
  <2> QED BY <1>1, <1>8
<1> QED BY <1>9, <1>10

\* What the open scope is made of.
ScopeOf(n, s) ==
    /\ s # NoScope /\ GoodScope(s)
    /\ DOMAIN s.slots = {NameOf(d) : d \in Declared(n, DOMAIN Declarations)}
    /\ \A e \in EntersOf(n) :
          s.max.parameter = Said(e)[2].value /\ s.max.variable = Said(e)[3].value
    /\ \A kind \in Kinds :
          s.byte_count[kind] = Cardinality(DeclaredBytes(n, n, NamesOfKind(kind)))
    /\ \A d \in Declared(n, DOMAIN Declarations) :
          /\ s.slots[NameOf(d)].kind = KindOf(d) /\ s.slots[NameOf(d)].size = SizeOf(d)
          /\ s.slots[NameOf(d)].before + SizeOf(d)
                 = Cardinality(DeclaredBytes(n, d, NamesOfKind(KindOf(d))))

\* In front of line n every name is defined once, the constants are what the source says,
\* and the scope is the one of the last ENTER.
Env(n, c, s) ==
    /\ \A d, e \in DefinitionLines(n) : NameOf(d) = NameOf(e) => d = e
    /\ DOMAIN c = {NameOf(d) : d \in ConstLines(n)}
    /\ \A d \in ConstLines(n) :
          /\ c[NameOf(d)] = LiteralOf[d]
          /\ LiteralOf[d].type \in LiteralTypes /\ GoodToken(LiteralOf[d])
    /\ IF EntersOf(n) = {} THEN s = NoScope ELSE ScopeOf(n, s)

\* The kind and the size that a declaration has.
LEMMA DeclarationIs ==
  ASSUME NEW d, Says(d, DOMAIN Declarations)
  PROVE  /\ Declarations[Head(Said(d)).name][1] = KindOf(d)
         /\ Declarations[Head(Said(d)).name][2] = SizeOf(d)
         /\ KindOf(d) \in Kinds /\ SizeOf(d) \in Sizes
         /\ \A kind \in Kinds : Says(d, NamesOfKind(kind)) <=> kind = KindOf(d)
         /\ ~Says(d, {"CONST"}) /\ ~Says(d, {"ENTER", "LVRET"})
<1>1. Said(d) # <<>> /\ Head(Said(d)).name \in {"PARAM", "PARAMB", "VAR", "VARB"}
  BY DEF Says, Declarations
<1> QED
  BY <1>1 DEF Says, Declarations, KindOf, SizeOf, Kinds, Sizes, NamesOfKind, Parameters

\* A line without a declaration adds nothing.
LEMMA LineWithout ==
  ASSUME NEW n \in Nat \ {0}, NEW names, ~Says(n, names), ~Says(n, {"ENTER", "LVRET"})
  PROVE  /\ Declared(n + 1, names) = Declared(n, names)
         /\ DeclaredBytes(n + 1, n + 1, names) = DeclaredBytes(n, n, names)
<1>1. Declared(n + 1, names) = Declared(n, names)
          \union (IF Says(n, names) /\ EntersOf(n) # {} THEN {n} ELSE {})
  BY LineDeclares, Zenon
<1>2. DeclaredBytes(n + 1, n + 1, names) = DeclaredBytes(n, n, names)
          \union (IF Says(n, names) /\ EntersOf(n) # {} THEN {n} \X (1 .. SizeOf(n)) ELSE {})
  BY LineAddsBytes
<1> QED BY <1>1, <1>2

\* In front of the first line there is nothing.
LEMMA EnvFirst == Env(1, NoNames, NoScope)
<1>1. 1 .. 1 - 1 = {}
  OBVIOUS
<1>2. ConstLines(1) = {} /\ EntersOf(1) = {} /\ DefinitionLines(1) = {}
  BY <1>1 DEF ConstLines, EntersOf, DefinitionLines, Declared
<1> QED BY <1>2 DEF Env, NoNames

\* A line that defines no name, and begins or ends no scope.
LEMMA EnvSame ==
  ASSUME NEW n \in Nat \ {0}, NEW c, NEW s, Env(n, c, s),
         ~Says(n, {"CONST"}), ~Says(n, {"ENTER", "LVRET"}), ~Says(n, DOMAIN Declarations)
  PROVE  Env(n + 1, c, s)
<1>1. ConstLines(n + 1) = ConstLines(n) /\ EntersOf(n + 1) = EntersOf(n)
  BY LineAdds
<1>2. Declared(n + 1, DOMAIN Declarations) = Declared(n, DOMAIN Declarations)
  BY LineWithout
<1>3. DefinitionLines(n + 1) = DefinitionLines(n)
  BY <1>1, <1>2 DEF DefinitionLines
<1>4. ASSUME NEW kind \in Kinds PROVE ~Says(n, NamesOfKind(kind))
  BY DEF Says, NamesOfKind, Declarations, Parameters
<1>5. ASSUME NEW kind \in Kinds
      PROVE  DeclaredBytes(n + 1, n + 1, NamesOfKind(kind)) = DeclaredBytes(n, n, NamesOfKind(kind))
  BY <1>4, LineWithout
<1>6. ASSUME NEW kind \in Kinds, NEW d \in Declared(n, DOMAIN Declarations)
      PROVE  DeclaredBytes(n + 1, d, NamesOfKind(kind)) = DeclaredBytes(n, d, NamesOfKind(kind))
  <2>1. d \in 0 .. n - 1
    BY DEF Declared
  <2> QED BY <2>1, LineAddsBytes
<1>7. \A d \in Declared(n, DOMAIN Declarations) : KindOf(d) \in Kinds
  BY DEF KindOf, Kinds
<1>8. ScopeOf(n, s) => ScopeOf(n + 1, s)
  BY <1>1, <1>2, <1>5, <1>6, <1>7 DEF ScopeOf
<1> QED BY <1>1, <1>3, <1>8 DEF Env

\* ENTER
LEMMA EnvEnter ==
  ASSUME NEW n \in Nat \ {0}, NEW c, NEW s, Env(n, c, s), Says(n, {"ENTER"}),
         Said(n)[2].value \in Nat, Said(n)[3].value \in Nat
  PROVE  Env(n + 1, c, NewScope(Said(n)[2].value, Said(n)[3].value))
<1> DEFINE t == NewScope(Said(n)[2].value, Said(n)[3].value)
<1>1. Says(n, {"ENTER", "LVRET"}) /\ ~Says(n, {"CONST"})
  BY DEF Says
<1>2. ConstLines(n + 1) = ConstLines(n) /\ EntersOf(n + 1) = {n}
  BY <1>1, LineAdds
<1>3. Declared(n + 1, DOMAIN Declarations) = {}
  BY <1>1, LineDeclares
<1>4. \A names : DeclaredBytes(n + 1, n + 1, names) = {}
  BY <1>1, LineAddsBytes
<1>5. DefinitionLines(n + 1) \subseteq DefinitionLines(n)
  BY <1>2, <1>3 DEF DefinitionLines
<1>6. GoodScope(t)
  BY NewScopeGood
<1>7. t # NoScope
  <2>1. "none" \in DOMAIN NoScope /\ "none" \notin DOMAIN t
    BY DEF NoScope, NewScope
  <2> QED BY <2>1
<1>8. Cardinality({}) = 0
  BY FS_EmptySet
<1>9. /\ t.max.parameter = Said(n)[2].value /\ t.max.variable = Said(n)[3].value
      /\ \A kind \in Kinds : t.byte_count[kind] = 0
      /\ DOMAIN t.slots = {}
  BY DEF NewScope, Kinds
<1> HIDE DEF t
<1>10. ScopeOf(n + 1, t)
  BY <1>2, <1>3, <1>4, <1>6, <1>7, <1>8, <1>9 DEF ScopeOf
<1>11. Env(n + 1, c, t)
  BY <1>2, <1>5, <1>10 DEF Env
<1> QED BY <1>11 DEF t

\* LVRET
LEMMA EnvLeave ==
  ASSUME NEW n \in Nat \ {0}, NEW c, NEW s, Env(n, c, s), Says(n, {"LVRET"})
  PROVE  Env(n + 1, c, NoScope)
<1>1. Says(n, {"ENTER", "LVRET"}) /\ ~Says(n, {"CONST"})
  BY DEF Says
<1>2. ConstLines(n + 1) = ConstLines(n) /\ EntersOf(n + 1) = {}
  BY <1>1, LineAdds
<1>3. Declared(n + 1, DOMAIN Declarations) = {}
  BY <1>1, LineDeclares
<1>4. DefinitionLines(n + 1) \subseteq DefinitionLines(n)
  BY <1>2, <1>3 DEF DefinitionLines
<1> QED BY <1>2, <1>4 DEF Env

\* .CONST of a new name
LEMMA EnvConst ==
  ASSUME NEW n \in Nat \ {0}, NEW c, NEW s, Env(n, c, s), Says(n, {"CONST"}),
         NEW name, name = NameOf(n), \A d \in DefinitionLines(n) : NameOf(d) # name,
         LiteralOf[n].type \in LiteralTypes, GoodToken(LiteralOf[n])
  PROVE  Env(n + 1, [m \in DOMAIN c \union {name} |-> IF m = name THEN LiteralOf[n] ELSE c[m]], s)
<1> DEFINE b == [m \in DOMAIN c \union {name} |-> IF m = name THEN LiteralOf[n] ELSE c[m]]
<1>1. ~Says(n, {"ENTER", "LVRET"}) /\ ~Says(n, DOMAIN Declarations)
  BY DEF Says, Declarations
<1>2. ConstLines(n + 1) = ConstLines(n) \union {n} /\ EntersOf(n + 1) = EntersOf(n)
  BY <1>1, LineAdds
<1>3. Declared(n + 1, DOMAIN Declarations) = Declared(n, DOMAIN Declarations)
  BY <1>1, LineWithout
<1>4. DefinitionLines(n + 1) = DefinitionLines(n) \union {n}
  BY <1>2, <1>3 DEF DefinitionLines
<1>5. ASSUME NEW kind \in Kinds PROVE ~Says(n, NamesOfKind(kind))
  BY <1>1 DEF Says, NamesOfKind, Declarations, Parameters
<1>6. ASSUME NEW kind \in Kinds
      PROVE  DeclaredBytes(n + 1, n + 1, NamesOfKind(kind)) = DeclaredBytes(n, n, NamesOfKind(kind))
  BY <1>1, <1>5, LineWithout
<1>7. ASSUME NEW kind \in Kinds, NEW d \in Declared(n, DOMAIN Declarations)
      PROVE  DeclaredBytes(n + 1, d, NamesOfKind(kind)) = DeclaredBytes(n, d, NamesOfKind(kind))
  <2>1. d \in 0 .. n - 1
    BY DEF Declared
  <2> QED BY <1>1, <2>1, LineAddsBytes
<1>8. \A d \in Declared(n, DOMAIN Declarations) : KindOf(d) \in Kinds
  BY DEF KindOf, Kinds
<1>9. ScopeOf(n, s) => ScopeOf(n + 1, s)
  BY <1>2, <1>3, <1>6, <1>7, <1>8 DEF ScopeOf
<1>10. ASSUME NEW d \in ConstLines(n + 1)
       PROVE  /\ b[NameOf(d)] = LiteralOf[d]
              /\ LiteralOf[d].type \in LiteralTypes /\ GoodToken(LiteralOf[d])
  <2>1. CASE d = n
    BY <2>1
  <2>2. CASE d # n
    <3>1. d \in ConstLines(n) /\ d \in DefinitionLines(n)
      BY <1>2, <2>2 DEF DefinitionLines
    <3>2. NameOf(d) # name /\ NameOf(d) \in DOMAIN c
      BY <3>1 DEF Env
    <3> QED BY <3>1, <3>2 DEF Env
  <2> QED BY <2>1, <2>2
<1>11. DOMAIN b = {NameOf(d) : d \in ConstLines(n + 1)}
  BY <1>2 DEF Env
<1>12. \A d, e \in DefinitionLines(n + 1) : NameOf(d) = NameOf(e) => d = e
  BY <1>4 DEF Env
<1>13. IF EntersOf(n + 1) = {} THEN s = NoScope ELSE ScopeOf(n + 1, s)
  BY <1>2, <1>9 DEF Env
<1> HIDE DEF b
<1>14. Env(n + 1, b, s)
  BY <1>10, <1>11, <1>12, <1>13 DEF Env
<1> QED BY <1>14 DEF b

\* A declaration of a new name, when there is room.
LEMMA EnvDeclare ==
  ASSUME NEW n \in Nat \ {0}, NEW c, NEW s, Env(n, c, s), Says(n, DOMAIN Declarations),
         s # NoScope, HasRoom(s, KindOf(n), SizeOf(n)),
         NEW name, name = NameOf(n), \A d \in DefinitionLines(n) : NameOf(d) # name
  PROVE  Env(n + 1, c, AddSlot(s, KindOf(n), name, SizeOf(n)))
<1> DEFINE t == AddSlot(s, KindOf(n), name, SizeOf(n))
<1>1. /\ ~Says(n, {"ENTER", "LVRET"}) /\ ~Says(n, {"CONST"})
      /\ KindOf(n) \in Kinds /\ SizeOf(n) \in Sizes /\ SizeOf(n) \in {1, 2}
      /\ \A kind \in Kinds : Says(n, NamesOfKind(kind)) <=> kind = KindOf(n)
  BY DeclarationIs DEF Sizes
<1>2. EntersOf(n) # {} /\ ScopeOf(n, s)
  BY DEF Env
<1>3. ConstLines(n + 1) = ConstLines(n) /\ EntersOf(n + 1) = EntersOf(n)
  BY <1>1, LineAdds
<1>4. Declared(n + 1, DOMAIN Declarations) = Declared(n, DOMAIN Declarations) \union {n}
  BY <1>1, <1>2, LineDeclares
<1>5. DefinitionLines(n + 1) = DefinitionLines(n) \union {n}
  BY <1>3, <1>4 DEF DefinitionLines
<1>6. ~IsDeclared(s, name)
  BY <1>2 DEF ScopeOf, IsDeclared, DefinitionLines
<1>7. GoodScope(t)
  BY <1>1, <1>2, <1>6, AddSlotGood DEF ScopeOf
<1>8. /\ t.max = s.max /\ t.byte_count = [s.byte_count EXCEPT ![KindOf(n)] = @ + SizeOf(n)]
      /\ DOMAIN t.slots = DOMAIN s.slots \union {name}
      /\ t.slots[name] = [kind |-> KindOf(n), size |-> SizeOf(n),
                          before |-> s.byte_count[KindOf(n)]]
      /\ \A m \in DOMAIN s.slots : t.slots[m] = s.slots[m]
  BY <1>6 DEF AddSlot, IsDeclared
<1>9. t # NoScope
  <2>1. "none" \in DOMAIN NoScope /\ "none" \notin DOMAIN t
    BY DEF NoScope, AddSlot
  <2> QED BY <2>1
<1> HIDE DEF t
<1>10. s.byte_count \in [Kinds -> Nat]
  BY <1>2 DEF ScopeOf, GoodScope
<1>11. ASSUME NEW kind \in Kinds
       PROVE  t.byte_count[kind] = Cardinality(DeclaredBytes(n + 1, n + 1, NamesOfKind(kind)))
  <2>1. s.byte_count[kind] = Cardinality(DeclaredBytes(n, n, NamesOfKind(kind)))
    BY <1>2 DEF ScopeOf
  <2>2. CASE kind = KindOf(n)
    <3>1. DeclaredBytes(n + 1, n + 1, NamesOfKind(kind))
              = DeclaredBytes(n, n, NamesOfKind(kind)) \union ({n} \X (1 .. SizeOf(n)))
      BY <1>1, <1>2, <2>2, LineAddsBytes
    <3>2. /\ IsFiniteSet(DeclaredBytes(n, n, NamesOfKind(kind)))
          /\ \A b \in DeclaredBytes(n, n, NamesOfKind(kind)) : b[1] # n
      BY <1>1, LineAddsBytes, DeclaredCount
    <3>3. Cardinality(DeclaredBytes(n + 1, n + 1, NamesOfKind(kind)))
              = Cardinality(DeclaredBytes(n, n, NamesOfKind(kind))) + SizeOf(n)
      <4>1. PICK S : S = DeclaredBytes(n, n, NamesOfKind(kind))
        OBVIOUS
      <4>2. Cardinality(S \union ({n} \X (1 .. SizeOf(n)))) = Cardinality(S) + SizeOf(n)
        BY <1>1, <3>2, <4>1, BytesAdded
      <4> QED BY <3>1, <4>1, <4>2
    <3> QED BY <1>8, <1>10, <2>1, <2>2, <3>3
  <2>3. CASE kind # KindOf(n)
    <3>1. DeclaredBytes(n + 1, n + 1, NamesOfKind(kind)) = DeclaredBytes(n, n, NamesOfKind(kind))
      BY <1>1, <2>3, LineWithout
    <3> QED BY <1>8, <1>10, <2>1, <2>3, <3>1
  <2> QED BY <2>2, <2>3
<1>12. ASSUME NEW d \in Declared(n + 1, DOMAIN Declarations)
       PROVE  /\ t.slots[NameOf(d)].kind = KindOf(d) /\ t.slots[NameOf(d)].size = SizeOf(d)
              /\ t.slots[NameOf(d)].before + SizeOf(d)
                     = Cardinality(DeclaredBytes(n + 1, d, NamesOfKind(KindOf(d))))
  <2>1. CASE d = n
    <3>1. t.byte_count[KindOf(n)] = s.byte_count[KindOf(n)] + SizeOf(n)
      BY <1>1, <1>8, <1>10
    <3>2. ASSUME NEW names
          PROVE  DeclaredBytes(n + 1, n, names) = DeclaredBytes(n + 1, n + 1, names)
      <4> DEFINE new == IF Says(n, names) /\ EntersOf(n) # {} THEN {n} \X (1 .. SizeOf(n)) ELSE {}
      <4>1. DeclaredBytes(n + 1, n, names) = DeclaredBytes(n, n, names) \union new
        BY <1>1, LineAddsBytes
      <4>2. DeclaredBytes(n + 1, n + 1, names) = DeclaredBytes(n, n, names) \union new
        BY <1>1, LineAddsBytes
      <4> HIDE DEF new
      <4> QED BY <4>1, <4>2
    <3>3. t.slots[NameOf(d)] = [kind |-> KindOf(d), size |-> SizeOf(d),
                                before |-> s.byte_count[KindOf(n)]]
      BY <1>8, <2>1
    <3>4. t.byte_count[KindOf(n)]
              = Cardinality(DeclaredBytes(n + 1, n, NamesOfKind(KindOf(n))))
      BY <1>1, <1>11, <3>2
    <3> QED BY <2>1, <3>1, <3>3, <3>4
  <2>2. CASE d # n
    <3>1. d \in Declared(n, DOMAIN Declarations) /\ d \in 0 .. n - 1
      BY <1>4, <2>2 DEF Declared
    <3>2. NameOf(d) \in DOMAIN s.slots
      BY <1>2, <3>1 DEF ScopeOf
    <3>3. t.slots[NameOf(d)] = s.slots[NameOf(d)]
      BY <1>8, <3>2
    <3>4. DeclaredBytes(n + 1, d, NamesOfKind(KindOf(d))) = DeclaredBytes(n, d, NamesOfKind(KindOf(d)))
      BY <1>1, <3>1, LineAddsBytes
    <3> QED BY <1>2, <3>1, <3>3, <3>4 DEF ScopeOf
  <2> QED BY <2>1, <2>2
<1>13. DOMAIN t.slots = {NameOf(d) : d \in Declared(n + 1, DOMAIN Declarations)}
  BY <1>2, <1>4, <1>8 DEF ScopeOf
<1>14. \A e \in EntersOf(n + 1) :
          t.max.parameter = Said(e)[2].value /\ t.max.variable = Said(e)[3].value
  BY <1>2, <1>3, <1>8 DEF ScopeOf
<1>15. ScopeOf(n + 1, t)
  BY <1>7, <1>9, <1>11, <1>12, <1>13, <1>14 DEF ScopeOf
<1>16. \A d, e \in DefinitionLines(n + 1) : NameOf(d) = NameOf(e) => d = e
  BY <1>5 DEF Env
<1>17. Env(n + 1, c, t)
  BY <1>2, <1>3, <1>15, <1>16 DEF Env
<1> QED BY <1>17 DEF t

\* Where a parameter or a variable is in the frame, and what a name stands for.
SlotPlace(n, d) ==
    LET enter == CHOOSE e \in EntersOf(n) : TRUE
    IN  IF Says(d, Parameters)
        THEN 7 + Said(enter)[2].value - Cardinality(DeclaredBytes(n, d, Parameters))
        ELSE 1 - Cardinality(DeclaredBytes(n, d, {"VAR", "VARB"}))
Variable(n, name) ==
    LET d == CHOOSE d \in DefinitionLines(n) : NameOf(d) = name
    IN  IF d \in ConstLines(n) THEN LiteralOf[d]
        ELSE Token("ABS_REF_REG", SizeOf(d), name, "BP", 0, SlotPlace(n, d))

\* A name of the environment has one definition, and stands for what is said there.
LEMMA DefinedOnce ==
  ASSUME NEW n \in Nat \ {0}, NEW c, NEW s, Env(n, c, s), NEW d \in DefinitionLines(n),
         NEW name, name = NameOf(d)
  PROVE  /\ {x \in DefinitionLines(n) : NameOf(x) = name} = {d}
         /\ Says(d, {"CONST"}) <=> d \in ConstLines(n)
         /\ Variable(n, name) =
               IF d \in ConstLines(n) THEN LiteralOf[d]
               ELSE Token("ABS_REF_REG", SizeOf(d), name, "BP", 0, SlotPlace(n, d))
<1>1. {x \in DefinitionLines(n) : NameOf(x) = name} = {d}
  BY DEF Env
<1>2. Says(d, {"CONST"}) <=> d \in ConstLines(n)
  <2>1. d \in Declared(n, DOMAIN Declarations) => ~Says(d, {"CONST"})
    BY DEF Declared, Says, Declarations
  <2>2. d \in ConstLines(n) => Says(d, {"CONST"})
    BY DEF ConstLines
  <2> QED BY <2>1, <2>2 DEF DefinitionLines
<1>3. (CHOOSE x \in DefinitionLines(n) : NameOf(x) = name) = d
  BY <1>1
<1> QED BY <1>1, <1>2, <1>3 DEF Variable

\* The constants and the slots of the environment.
LEMMA VariableIs ==
  ASSUME NEW n \in Nat \ {0}, NEW c, NEW s, Env(n, c, s), NEW name
  PROVE  /\ name \in DOMAIN c =>
               /\ c[name] = Variable(n, name) /\ GoodToken(c[name])
               /\ c[name].type \in LiteralTypes
               /\ \E d \in ConstLines(n) : NameOf(d) = name
         /\ s # NoScope /\ IsDeclared(s, name) =>
               /\ Slot(s, name) = Variable(n, name) /\ GoodToken(Slot(s, name))
               /\ Slot(s, name).type = "ABS_REF_REG" /\ name \notin DOMAIN c
               /\ \E d \in Declared(n, DOMAIN Declarations) : NameOf(d) = name
<1>1. ASSUME name \in DOMAIN c
      PROVE  /\ c[name] = Variable(n, name) /\ GoodToken(c[name])
             /\ c[name].type \in LiteralTypes
             /\ \E d \in ConstLines(n) : NameOf(d) = name
  <2>1. PICK d \in ConstLines(n) : NameOf(d) = name
    BY <1>1 DEF Env
  <2>2. d \in DefinitionLines(n)
    BY <2>1 DEF DefinitionLines
  <2>3. c[name] = LiteralOf[d] /\ LiteralOf[d].type \in LiteralTypes /\ GoodToken(LiteralOf[d])
    BY <2>1 DEF Env
  <2>4. Variable(n, name) = LiteralOf[d]
    BY <2>1, <2>2, DefinedOnce
  <2> QED BY <2>1, <2>3, <2>4
<1>2. ASSUME s # NoScope, IsDeclared(s, name)
      PROVE  /\ Slot(s, name) = Variable(n, name) /\ GoodToken(Slot(s, name))
             /\ Slot(s, name).type = "ABS_REF_REG" /\ name \notin DOMAIN c
             /\ \E d \in Declared(n, DOMAIN Declarations) : NameOf(d) = name
  <2>1. EntersOf(n) # {} /\ ScopeOf(n, s)
    BY <1>2 DEF Env
  <2>2. PICK d \in Declared(n, DOMAIN Declarations) : NameOf(d) = name
    BY <1>2, <2>1 DEF ScopeOf, IsDeclared
  <2>3. d \in DefinitionLines(n) /\ Says(d, DOMAIN Declarations) /\ d \in Nat
    BY <2>2 DEF DefinitionLines, Declared
  <2>4. d \notin ConstLines(n)
    BY <2>3, DeclarationIs DEF ConstLines
  <2>5. name \notin DOMAIN c
    <3>1. ASSUME NEW e \in ConstLines(n), NameOf(e) = name PROVE FALSE
      <4>1. e \in DefinitionLines(n)
        BY DEF DefinitionLines
      <4>2. e = d
        BY <2>2, <2>3, <3>1, <4>1 DEF Env
      <4> QED BY <2>4, <4>2
    <3> QED BY <3>1 DEF Env
  <2>6. Variable(n, name) = Token("ABS_REF_REG", SizeOf(d), name, "BP", 0, SlotPlace(n, d))
    BY <2>2, <2>3, <2>4, DefinedOnce
  <2>7. PICK slot : slot = s.slots[name]
    OBVIOUS
  <2>8. /\ slot.kind = KindOf(d) /\ slot.size = SizeOf(d) /\ slot.before \in Nat
        /\ slot.before + SizeOf(d) = Cardinality(DeclaredBytes(n, d, NamesOfKind(KindOf(d))))
        /\ KindOf(d) \in Kinds /\ SizeOf(d) \in {1, 2}
        /\ s.max.parameter \in Nat
    <3>1. /\ s.max \in [Kinds -> Nat]
          /\ \A m \in DOMAIN s.slots : s.slots[m].before \in Nat
      BY <2>1 DEF ScopeOf, GoodScope
    <3>2. s.max["parameter"] \in Nat
      BY <3>1 DEF Kinds
    <3> QED BY <1>2, <2>1, <2>2, <2>3, <2>7, <3>1, <3>2, DeclarationIs
            DEF ScopeOf, IsDeclared, Sizes
  <2>9. PICK count \in Nat : count = Cardinality(DeclaredBytes(n, d, NamesOfKind(KindOf(d))))
    BY <2>3, DeclaredCount
  <2>10. Offset(s, name) = SlotPlace(n, d) /\ Offset(s, name) \in Int
    <3>1. CASE Says(d, Parameters)
      <4>1. KindOf(d) = "parameter" /\ NamesOfKind(KindOf(d)) = Parameters
        BY <3>1 DEF KindOf, NamesOfKind
      <4>2. PICK enter \in EntersOf(n) : enter = CHOOSE e \in EntersOf(n) : TRUE
        BY <2>1
      <4>3. Said(enter)[2].value = s.max.parameter
        BY <2>1 DEF ScopeOf
      <4>4. SlotPlace(n, d) = 7 + s.max.parameter - count
        BY <2>9, <3>1, <4>1, <4>2, <4>3 DEF SlotPlace
      <4>5. Offset(s, name) = 6 + s.max.parameter - slot.before - (slot.size - 1)
        BY <2>7, <2>8, <4>1 DEF Offset
      <4> QED BY <2>8, <2>9, <4>4, <4>5
    <3>2. CASE ~Says(d, Parameters)
      <4>1. KindOf(d) = "variable" /\ NamesOfKind(KindOf(d)) = {"VAR", "VARB"}
        BY <3>2 DEF KindOf, NamesOfKind
      <4>2. SlotPlace(n, d) = 1 - count
        BY <2>9, <3>2, <4>1 DEF SlotPlace
      <4>3. Offset(s, name) = 1 - (slot.before + slot.size)
        BY <2>7, <2>8, <4>1 DEF Offset
      <4> QED BY <2>8, <2>9, <4>2, <4>3
    <3> QED BY <3>1, <3>2
  <2>11. Slot(s, name) = Token("ABS_REF_REG", SizeOf(d), name, "BP", 0, SlotPlace(n, d))
    BY <2>7, <2>8, <2>10 DEF Slot
  <2>12. GoodToken(Slot(s, name)) /\ Slot(s, name).type = "ABS_REF_REG"
    <3>1. PICK place \in Int : place = SlotPlace(n, d)
      BY <2>10
    <3>2. "BP" \in ElementsOf(WordRegisters) /\ "BP" \in ElementsOf(RegisterNames)
      <4>1. "BP" \in ElementsOf(WordRegisters)
        BY Lists
      <4> QED BY <4>1, RegisterCodes
    <3>3. PICK size \in {1, 2} : size = SizeOf(d)
      BY <2>8
    <3>4. IsOperand(Operand(size, "ABS_REF_REG", "BP", 0, place))
      BY <3>2, OperandTypeList DEF IsOperand, Operand, WithRegister
    <3>5. <<>> \in Seq(Bytes)
      OBVIOUS
    <3>6. Slot(s, name) = Token("ABS_REF_REG", size, name, "BP", 0, place)
      BY <2>11, <3>1, <3>3
    <3> QED BY <3>4, <3>5, <3>6
            DEF Token, GoodToken, OperandTypes, LABEL_REFERENCE_TYPES, AsOperand
  <2> QED BY <2>2, <2>5, <2>6, <2>11, <2>12
<1> QED BY <1>1, <1>2

\* What line i sees: what is defined in front of it, its own declaration included.
LEMMA SeenFrom ==
  ASSUME NEW i \in Nat \ {0}, NEW n,
         \/ n = i /\ ~Says(i, {"CONST"}) /\ ~Says(i, DOMAIN Declarations)
         \/ n = i + 1 /\ ~Says(i, {"ENTER", "LVRET"})
  PROVE  /\ \A name : Definitions(i, name) = {d \in DefinitionLines(n) : NameOf(d) = name}
         /\ \A d : SlotOffset(i, d) = SlotPlace(n, d)
<1>1. EntersOf(n) = EntersOf(i)
  BY LineAdds
<1>2. /\ {j \in 1 .. i : Says(j, {"CONST"})} = ConstLines(n)
      /\ \A names \in {DOMAIN Declarations, Parameters, {"VAR", "VARB"}} :
            Scoped(i, names) = Declared(n, names)
  <2>1. CASE n = i + 1
    <3>1. n - 1 = i
      BY <2>1
    <3> QED BY <1>1, <3>1 DEF ConstLines, Declared, Scoped
  <2>2. CASE n = i /\ ~Says(i, {"CONST"}) /\ ~Says(i, DOMAIN Declarations)
    <3>1. 1 .. i = (1 .. i - 1) \union {i}
      OBVIOUS
    <3>2. \A names \in {DOMAIN Declarations, Parameters, {"VAR", "VARB"}} : ~Says(i, names)
      BY <2>2 DEF Says, Parameters, Declarations
    <3> QED BY <1>1, <2>2, <3>1, <3>2 DEF ConstLines, Declared, Scoped
  <2> QED BY <2>1, <2>2
<1>3. \A name : Definitions(i, name) = {d \in DefinitionLines(n) : NameOf(d) = name}
  BY <1>2 DEF Definitions, DefinitionLines, NameOf
<1>4. \A d : \A names \in {Parameters, {"VAR", "VARB"}} :
          BytesUpTo(i, d, names) = DeclaredBytes(n, d, names)
  BY <1>2 DEF BytesUpTo, DeclaredBytes
<1>5. \A d : SlotOffset(i, d) = SlotPlace(n, d)
  BY <1>1, <1>4 DEF SlotOffset, SlotPlace
<1> QED BY <1>3, <1>5

-----------------------------------------------------------------------------
(* Operands and the opcode of a line *)

\* What an argument stands for, and what it is encoded as when the labels have
\* these distances.
Sub(arg, n) == IF arg.type # "VARIABLE" THEN arg ELSE Variable(n, arg.name)
LinkedOperand(t, dist) ==
    IF t.type \notin DOMAIN LABEL_REFERENCE_TYPES THEN AsOperand(t)
    ELSE Operand(t.length, OperandTypes[LABEL_REFERENCE_TYPES[t.type]], t.reg, dist[t.name],
                 t.offset)

\* The distances of the labels from the line that is parsed.
Distances == [name \in DOMAIN labels |-> labels_here[name] - opcode_pos]

\* substitute_variable finds what the source says.
LEMMA SubIs ==
  ASSUME line \in Nat \ {0}, Env(line, consts, current_scope),
         NEW arg, GoodToken(arg), Substitutable(arg)
  PROVE  /\ SubstituteVariable(arg) = Sub(arg, line) /\ GoodToken(Sub(arg, line))
         /\ arg.type = "VARIABLE" => Sub(arg, line).type \in LiteralTypes \union {"ABS_REF_REG"}
<1>1. CASE arg.type # "VARIABLE"
  BY <1>1 DEF SubstituteVariable, Sub
<1>2. CASE arg.type = "VARIABLE" /\ arg.name \in DOMAIN consts
  BY <1>2, VariableIs DEF SubstituteVariable, Sub
<1>3. CASE arg.type = "VARIABLE" /\ arg.name \notin DOMAIN consts
  <2>1. current_scope # NoScope /\ IsDeclared(current_scope, arg.name)
    BY <1>3 DEF Substitutable, IsVariableDefined
  <2> QED BY <1>3, <2>1, VariableIs DEF SubstituteVariable, Sub
<1> QED BY <1>1, <1>2, <1>3

\* A token with a distance is an operand, whatever the distance.
LEMMA LinkedIsOperand ==
  ASSUME NEW t, GoodToken(t), NEW dist,
         t.type \in DOMAIN LABEL_REFERENCE_TYPES \union DOMAIN OperandTypes,
         t.type \in DOMAIN LABEL_REFERENCE_TYPES => dist[t.name] \in Int
  PROVE  /\ IsOperand(LinkedOperand(t, dist))
         /\ LinkedOperand(t, dist).oplen = t.length
         /\ LinkedOperand(t, dist).optype = IF t.type \in DOMAIN LABEL_REFERENCE_TYPES
                                            THEN OperandTypes[LABEL_REFERENCE_TYPES[t.type]]
                                            ELSE OperandTypes[t.type]
<1>1. CASE t.type \in DOMAIN LABEL_REFERENCE_TYPES
  <2> DEFINE optype == OperandTypes[LABEL_REFERENCE_TYPES[t.type]]
  <2>1. LinkedOperand(t, dist) = Operand(t.length, optype, t.reg, dist[t.name], t.offset)
    BY <1>1 DEF LinkedOperand
  <2>2. IsOperand(Operand(t.length, optype, t.reg, 0, t.offset)) /\ dist[t.name] \in Int
    BY <1>1 DEF GoodToken
  <2>3. optype \notin {"REGISTER", "ABS_REF_REG"}
    BY <1>1 DEF LABEL_REFERENCE_TYPES, OperandTypes
  <2>4. PICK v \in Int : v = dist[t.name]
    BY <2>2
  <2> HIDE DEF optype
  <2>5. IsOperand(Operand(t.length, optype, t.reg, v, t.offset))
    BY <2>2, <2>3 DEF IsOperand, Operand
  <2>6. /\ Operand(t.length, optype, t.reg, v, t.offset).oplen = t.length
        /\ Operand(t.length, optype, t.reg, v, t.offset).optype = optype
    BY DEF Operand
  <2> QED BY <1>1, <2>1, <2>4, <2>5, <2>6 DEF optype
<1>2. CASE t.type \notin DOMAIN LABEL_REFERENCE_TYPES
  <2>1. LinkedOperand(t, dist) = AsOperand(t) /\ t.type \in DOMAIN OperandTypes
    BY <1>2 DEF LinkedOperand
  <2>2. IsOperand(AsOperand(t))
    BY <2>1 DEF GoodToken
  <2>3. AsOperand(t).oplen = t.length /\ AsOperand(t).optype = OperandTypes[t.type]
    BY DEF AsOperand, Operand
  <2> QED BY <1>2, <2>1, <2>2, <2>3
<1> QED BY <1>1, <1>2

\* The opcode of an operand depends on its length and type in length only.
LEMMA OpcodeLength ==
  ASSUME NEW a, IsOperand(a), NEW b, IsOperand(b), a.oplen = b.oplen, a.optype = b.optype
  PROVE  /\ OperandOpcode(a) \in Seq(Int)
         /\ Len(OperandOpcode(a)) = Len(OperandOpcode(b))
<1>1. PICK fields : fields = Fields(a.oplen, a.optype)
  OBVIOUS
<1>2. /\ OperandOpcode(a) \in Seq(Int)
      /\ Len(OperandOpcode(a)) = 1 + Width(fields, 1) + Width(fields, 2)
  BY <1>1, OpcodeOfOperand
<1>3. Len(OperandOpcode(b)) = 1 + Width(fields, 1) + Width(fields, 2)
  <2>1. fields = Fields(b.oplen, b.optype)
    BY <1>1
  <2> QED BY <2>1, OpcodeOfOperand
<1> QED BY <1>2, <1>3

\* What _parse_operands has accepted.
LEMMA ParsedOperand ==
  ASSUME line \in Nat \ {0}, Env(line, consts, current_scope),
         labels \in [DOMAIN labels -> Int], opcode \in Seq(Int),
         NEW arg, GoodToken(arg), ParsesOperand(arg),
         NEW op, op = LinkedOperand(Sub(arg, line), Distances)
  PROVE  /\ EncodeOperand(arg) = OperandOpcode(op)
         /\ IsOperand(op) /\ Encodable(op)
         /\ Sub(arg, line).type \in DOMAIN LABEL_REFERENCE_TYPES \union DOMAIN OperandTypes
         /\ Sub(arg, line).type \in DOMAIN LABEL_REFERENCE_TYPES =>
               Sub(arg, line).name \in DOMAIN labels
<1>1. PICK t : t = Sub(arg, line)
  OBVIOUS
<1>2. t = SubstituteVariable(arg) /\ GoodToken(t)
  BY <1>1, SubIs DEF ParsesOperand
<1>3. /\ t.type \in DOMAIN LABEL_REFERENCE_TYPES => t.name \in DOMAIN labels
      /\ SubstituteLabel(t).type \in DOMAIN OperandTypes
      /\ Encodable(AsOperand(SubstituteLabel(t)))
      /\ EncodeOperand(arg) = OperandOpcode(AsOperand(SubstituteLabel(t)))
  BY <1>2 DEF ParsesOperand, EncodeOperand
<1>4. opcode_pos \in Int /\ \A name \in DOMAIN labels : labels_here[name] \in Int
  BY DEF opcode_pos, labels_here
<1>5. \A name \in DOMAIN labels : /\ Distances[name] = labels_here[name] - opcode_pos
                                  /\ Distances[name] \in Int
  BY <1>4 DEF Distances
<1>6. AsOperand(SubstituteLabel(t)) = LinkedOperand(t, Distances)
  <2>1. CASE t.type \notin DOMAIN LABEL_REFERENCE_TYPES
    BY <2>1 DEF SubstituteLabel, LinkedOperand
  <2>2. CASE t.type \in DOMAIN LABEL_REFERENCE_TYPES
    <3>1. PICK type, value : /\ type = LABEL_REFERENCE_TYPES[t.type]
                             /\ value = labels_here[t.name] - opcode_pos
      OBVIOUS
    <3>2. SubstituteLabel(t) = [t EXCEPT !.type = type, !.value = value]
      BY <2>2, <3>1 DEF SubstituteLabel
    <3>3. PICK a, b, c, d, e, f, g : t = [type |-> a, length |-> b, name |-> c, reg |-> d,
                                          value |-> e, offset |-> f, bytes |-> g]
      BY <1>2 DEF GoodToken
    <3>4. SubstituteLabel(t) = [type |-> type, length |-> b, name |-> c, reg |-> d,
                                value |-> value, offset |-> f, bytes |-> g]
      BY <3>2, <3>3
    <3>5. AsOperand(SubstituteLabel(t)) = Operand(t.length, OperandTypes[type], t.reg, value, t.offset)
      BY <3>3, <3>4 DEF AsOperand
    <3>6. value = Distances[t.name]
      BY <1>3, <1>5, <2>2, <3>1
    <3> QED BY <2>2, <3>1, <3>5, <3>6 DEF LinkedOperand
  <2> QED BY <2>1, <2>2
<1>7. t.type \in DOMAIN LABEL_REFERENCE_TYPES \union DOMAIN OperandTypes
  BY <1>3 DEF SubstituteLabel
<1>8. IsOperand(LinkedOperand(t, Distances))
  BY <1>2, <1>3, <1>5, <1>7, LinkedIsOperand
<1> QED BY <1>1, <1>3, <1>6, <1>7, <1>8

\* The k-th operand of an instruction, or of the MOV of a default value.
CodeOperand(n, k, dist) ==
    IF Head(Said(n)).type # "INSTRUCTION" /\ k = 1 THEN AsOperand(Variable(n + 1, Said(n)[2].name))
    ELSE LinkedOperand(Sub(Said(n)[k + 1], n), dist)

\* The opcode of a line, and its length. Only instructions have labels in them.
CodeBytes(n, dist) ==
    <<InstructionMapping(CodeName(n)).opcode>>
        \o FlattenSeq([k \in 1 .. Len(Said(n)) - 1 |-> OperandOpcode(CodeOperand(n, k, dist))])
DataBytes(n) ==
    IF Says(n, {"DAT"})
    THEN FlattenSeq([k \in 1 .. Len(Said(n)) - 1 |-> Data(Sub(Said(n)[k + 1], n))])
    ELSE IF Says(n, {"DATN"})
    THEN FlattenSeq([k \in 1 .. Sub(Said(n)[2], n).value |-> Data(Sub(Said(n)[3], n))])
    ELSE <<>>
LineBytes(n, dist) == IF IsCode(n) THEN CodeBytes(n, dist) ELSE DataBytes(n)
LineLength(n) ==
    LET length == Len(LineBytes(n, [name \in STRING |-> 0]))
    IN  IF length \in Nat THEN length ELSE 0

\* What is known of a line that has been parsed.
VariableMeant(operand, name, n) ==
    /\ Cardinality(Definitions(n, name)) = 1
    /\ \A d \in Definitions(n, name) :
          operand = IF Says(d, {"CONST"}) THEN AsOperand(LiteralOf[d])
                    ELSE Operand(SizeOf(d), "ABS_REF_REG", "BP", 0, SlotOffset(n, d))
ArgumentMeant(operand, arg, n, dist) ==
    IF arg.type \in DOMAIN LABEL_REFERENCE_TYPES
    THEN /\ arg.name \in DOMAIN labels
         /\ operand = Operand(arg.length, OperandTypes[LABEL_REFERENCE_TYPES[arg.type]],
                              arg.reg, dist[arg.name], arg.offset)
    ELSE IF arg.type # "VARIABLE" THEN operand = AsOperand(arg)
    ELSE VariableMeant(operand, arg.name, n)
GoodCode(n, dist) ==
    /\ CodeName(n) \in InstructionNames
    /\ InstructionMapping(CodeName(n)).operand_count = Len(Said(n)) - 1
    /\ \A k \in 1 .. Len(Said(n)) - 1 :
          /\ IsOperand(CodeOperand(n, k, dist)) /\ Encodable(CodeOperand(n, k, dist))
          /\ ArgumentMeant(CodeOperand(n, k, dist), Said(n)[k + 1], n, dist)

\* A parsed line with these bytes.
GoodLine(n, bytes, dist) ==
    /\ bytes = LineBytes(n, dist) /\ bytes \in Seq(Int) /\ Len(bytes) = LineLength(n)
    /\ IsCode(n) => GoodCode(n, dist)

\* An instruction is found by its name.
LEMMA InstructionNamed ==
  ASSUME NEW name \in InstructionNames
  PROVE  /\ InstructionMapping(name) \in Instructions /\ InstructionMapping(name).name = name
         /\ InstructionMapping(name).opcode \in Int /\ name \notin MacroNames
         /\ InstructionMapping(name).operand_count \in Nat
         /\ name = "MOV" => InstructionMapping(name).operand_count = 2
<1>1. PICK inst \in Instructions : inst.name = name
  BY DEF InstructionNames
<1>2. InstructionMapping(name) \in Instructions /\ InstructionMapping(name).name = name
  BY <1>1 DEF InstructionMapping
<1> QED BY <1>2, InstructionFacts

\* A variable that is defined in one place means what is said there.
LEMMA VariableMeans ==
  ASSUME NEW i \in Nat \ {0}, NEW n \in Nat \ {0}, NEW c, NEW s, Env(n, c, s),
         \/ n = i /\ ~Says(i, {"CONST"}) /\ ~Says(i, DOMAIN Declarations)
         \/ n = i + 1 /\ ~Says(i, {"ENTER", "LVRET"}),
         NEW d \in DefinitionLines(n), NEW name, name = NameOf(d)
  PROVE  VariableMeant(AsOperand(Variable(n, name)), name, i)
<1>1. /\ {x \in DefinitionLines(n) : NameOf(x) = name} = {d}
      /\ Says(d, {"CONST"}) <=> d \in ConstLines(n)
      /\ Variable(n, name) = IF d \in ConstLines(n) THEN LiteralOf[d]
                             ELSE Token("ABS_REF_REG", SizeOf(d), name, "BP", 0, SlotPlace(n, d))
  BY DefinedOnce
<1>2. Definitions(i, name) = {d} /\ SlotOffset(i, d) = SlotPlace(n, d)
  BY <1>1, SeenFrom
<1>3. Cardinality({d}) = 1
  BY FS_Singleton
<1>4. AsOperand(Token("ABS_REF_REG", SizeOf(d), name, "BP", 0, SlotPlace(n, d)))
          = Operand(SizeOf(d), "ABS_REF_REG", "BP", 0, SlotPlace(n, d))
  BY DEF AsOperand, Token, OperandTypes
<1>5. CASE Says(d, {"CONST"})
  BY <1>1, <1>2, <1>3, <1>5 DEF VariableMeant
<1>6. CASE ~Says(d, {"CONST"})
  BY <1>1, <1>2, <1>3, <1>4, <1>6 DEF VariableMeant
<1> QED BY <1>5, <1>6

\* The opcode of a line with good operands: its length is the same for all distances.
LEMMA CodeLength ==
  ASSUME NEW n, Len(Said(n)) \in Nat \ {0}, CodeName(n) \in InstructionNames, IsCode(n), NEW dist,
         \A k \in 1 .. Len(Said(n)) - 1 :
            LET a == CodeOperand(n, k, dist)
                b == CodeOperand(n, k, [name \in STRING |-> 0])
            IN  IsOperand(a) /\ IsOperand(b) /\ a.oplen = b.oplen /\ a.optype = b.optype
  PROVE  LineBytes(n, dist) \in Seq(Int) /\ Len(LineBytes(n, dist)) = LineLength(n)
<1> DEFINE zero == [name \in STRING |-> 0]
           A == [k \in 1 .. Len(Said(n)) - 1 |-> OperandOpcode(CodeOperand(n, k, dist))]
           B == [k \in 1 .. Len(Said(n)) - 1 |-> OperandOpcode(CodeOperand(n, k, zero))]
<1>1. PICK m \in Nat : m = Len(Said(n)) - 1
  <2>1. PICK l \in Nat \ {0} : l = Len(Said(n))
    OBVIOUS
  <2>2. l - 1 \in Nat
    OBVIOUS
  <2> QED BY <2>1, <2>2
<1> HIDE DEF zero
<1>2. ASSUME NEW k \in 1 .. m
      PROVE  /\ OperandOpcode(CodeOperand(n, k, dist)) \in Seq(Int)
             /\ OperandOpcode(CodeOperand(n, k, zero)) \in Seq(Int)
             /\ Len(OperandOpcode(CodeOperand(n, k, dist)))
                    = Len(OperandOpcode(CodeOperand(n, k, zero)))
  <2>1. PICK a, b : a = CodeOperand(n, k, dist) /\ b = CodeOperand(n, k, zero)
    OBVIOUS
  <2>2. IsOperand(a) /\ IsOperand(b) /\ a.oplen = b.oplen /\ a.optype = b.optype
    BY <1>1, <2>1 DEF zero
  <2> QED BY <2>1, <2>2, OpcodeLength
<1>3. /\ A \in Seq(Seq(Int)) /\ B \in Seq(Seq(Int)) /\ Len(A) = m /\ Len(B) = m
      /\ \A k \in 1 .. m : Len(A[k]) = Len(B[k])
  BY <1>1, <1>2
<1> HIDE DEF A, B
<1>4. /\ FlattenSeq(A) \in Seq(Int) /\ FlattenSeq(B) \in Seq(Int)
      /\ Len(FlattenSeq(A)) = Len(FlattenSeq(B))
  BY <1>3, SameLengths
<1>5. PICK op \in Int : op = InstructionMapping(CodeName(n)).opcode
  BY InstructionNamed
<1>6. CodeBytes(n, dist) = <<op>> \o FlattenSeq(A) /\ CodeBytes(n, zero) = <<op>> \o FlattenSeq(B)
  BY <1>5 DEF CodeBytes, A, B
<1>7. /\ <<op>> \o FlattenSeq(A) \in Seq(Int) /\ <<op>> \o FlattenSeq(B) \in Seq(Int)
      /\ Len(<<op>> \o FlattenSeq(A)) = 1 + Len(FlattenSeq(A))
      /\ Len(<<op>> \o FlattenSeq(B)) = 1 + Len(FlattenSeq(B))
  BY <1>4
<1>8. /\ LineBytes(n, dist) \in Seq(Int) /\ LineBytes(n, zero) \in Seq(Int)
      /\ Len(LineBytes(n, dist)) = Len(LineBytes(n, zero))
  BY <1>4, <1>6, <1>7 DEF LineBytes
<1>9. LineLength(n) = Len(LineBytes(n, zero))
  <2>1. Len(LineBytes(n, zero)) \in Nat
    BY <1>8
  <2> QED BY <2>1 DEF LineLength, zero
<1> QED BY <1>8, <1>9

-----------------------------------------------------------------------------
(* Instructions, data and declarations *)

\* A line is parsed in its environment.
Parsing ==
    /\ source \in Sources /\ AllTokenize
    /\ line \in DOMAIN source /\ line \in Nat \ {0}
    /\ Env(line, consts, current_scope)
    /\ labels \in [DOMAIN labels -> Int] /\ opcode \in Seq(Int)

\* The arguments of the statement.
LEMMA Arguments ==
  ASSUME Parsing, statement # <<>>
  PROVE  /\ statement = Said(line) /\ Head(statement) = Said(line)[1] /\ GoodToken(Head(statement))
         /\ Len(args) \in Nat /\ Len(args) = Len(Said(line)) - 1 /\ DOMAIN args = 1 .. Len(args)
         /\ Len(Said(line)) \in Nat \ {0}
         /\ \A k \in 1 .. Len(args) : args[k] = Said(line)[k + 1] /\ GoodToken(args[k])
<1>1. statement = Said(line) /\ args = Tail(Said(line))
  BY DEF statement, Said, args
<1>2. PICK l \in Nat :
        /\ l = Len(Said(line)) /\ Head(Said(line)) = Said(line)[1] /\ GoodToken(Head(Said(line)))
        /\ l # 0
        /\ Len(Tail(Said(line))) = l - 1 /\ DOMAIN Tail(Said(line)) = 1 .. l - 1
        /\ \A k \in 1 .. l - 1 : /\ Tail(Said(line))[k] = Said(line)[k + 1]
                                 /\ GoodToken(Tail(Said(line))[k])
  BY <1>1, SaidTokens DEF Parsing
<1>3. l - 1 \in Nat
  BY <1>2
<1> QED BY <1>1, <1>2, <1>3

\* An instruction whose operands are in order.
LEMMA InstructionGood ==
  ASSUME Parsing, statement # <<>>, Head(statement).type = "INSTRUCTION",
         NEW name, name = Head(statement).name, InstructionOk(name)
  PROVE  /\ GoodLine(line, InstructionOpcode(name), Distances)
         /\ Env(line + 1, consts, ScopeAfter(name))
<1> DEFINE zero == [m \in STRING |-> 0]
<1>1. /\ statement = Said(line) /\ Head(Said(line)).type = "INSTRUCTION"
      /\ Head(Said(line)).name = name /\ name \in InstructionNames
      /\ Len(Said(line)) \in Nat \ {0} /\ Said(line) # <<>>
  BY Arguments DEF GoodToken
<1>2. IsCode(line) /\ CodeName(line) = name
  BY <1>1 DEF IsCode, CodeName
<1>3. name \notin MacroNames
  BY <1>1, InstructionNamed
<1>4. ~Says(line, {"CONST"}) /\ ~Says(line, DOMAIN Declarations)
  BY <1>1, <1>3 DEF Says, MacroNames, Declarations
<1>5. PICK m \in Nat : m = Len(args) /\ m = Len(Said(line)) - 1 /\ DOMAIN args = 1 .. m
  BY Arguments
<1>6. ASSUME NEW k \in 1 .. m
      PROVE  /\ IsOperand(CodeOperand(line, k, Distances))
             /\ Encodable(CodeOperand(line, k, Distances))
             /\ EncodeOperand(args[k]) = OperandOpcode(CodeOperand(line, k, Distances))
             /\ IsOperand(CodeOperand(line, k, zero))
             /\ CodeOperand(line, k, Distances).oplen = CodeOperand(line, k, zero).oplen
             /\ CodeOperand(line, k, Distances).optype = CodeOperand(line, k, zero).optype
             /\ ArgumentMeant(CodeOperand(line, k, Distances), Said(line)[k + 1], line, Distances)
  <2>1. args[k] = Said(line)[k + 1] /\ GoodToken(args[k]) /\ ParsesOperand(args[k])
    BY <1>5, Arguments DEF InstructionOk
  <2>2. PICK arg, t, op : /\ arg = args[k] /\ t = Sub(arg, line)
                          /\ op = LinkedOperand(t, Distances)
    OBVIOUS
  <2>3. /\ CodeOperand(line, k, Distances) = op
        /\ CodeOperand(line, k, zero) = LinkedOperand(t, zero)
    BY <1>1, <2>1, <2>2 DEF CodeOperand
  <2>4. /\ EncodeOperand(arg) = OperandOpcode(op) /\ IsOperand(op) /\ Encodable(op)
        /\ t.type \in DOMAIN LABEL_REFERENCE_TYPES \union DOMAIN OperandTypes
        /\ t.type \in DOMAIN LABEL_REFERENCE_TYPES => t.name \in DOMAIN labels
    BY <2>1, <2>2, ParsedOperand DEF Parsing
  <2>5. GoodToken(t) /\ Substitutable(arg)
    BY <2>1, <2>2, SubIs DEF Parsing, ParsesOperand
  <2>6. t.type \in DOMAIN LABEL_REFERENCE_TYPES => zero[t.name] \in Int
    BY <2>5 DEF GoodToken
  <2>7. t.type \in DOMAIN LABEL_REFERENCE_TYPES => Distances[t.name] \in Int
    <3>1. opcode_pos \in Int /\ \A n \in DOMAIN labels : labels_here[n] \in Int
      BY DEF opcode_pos, labels_here, Parsing
    <3> QED BY <2>4, <3>1 DEF Distances
  <2> HIDE DEF zero
  <2>8. /\ IsOperand(LinkedOperand(t, zero))
        /\ LinkedOperand(t, zero).oplen = t.length /\ op.oplen = t.length
        /\ LinkedOperand(t, zero).optype = op.optype
    BY <2>2, <2>4, <2>5, <2>6, <2>7, LinkedIsOperand
  <2>9. ArgumentMeant(op, arg, line, Distances)
    <3>1. CASE arg.type = "VARIABLE"
      <4>1. t = Variable(line, arg.name) /\ arg.type \notin DOMAIN LABEL_REFERENCE_TYPES
        BY <2>2, <3>1 DEF Sub, LABEL_REFERENCE_TYPES
      <4>2. t.type \in LiteralTypes \union {"ABS_REF_REG"}
        BY <2>1, <2>2, <2>5, <3>1, SubIs DEF Parsing
      <4>3. op = AsOperand(t)
        BY <2>2, <4>2 DEF LinkedOperand, LiteralTypes, LABEL_REFERENCE_TYPES
      <4>4. PICK d \in DefinitionLines(line) : NameOf(d) = arg.name
        BY <2>5, <3>1, VariableIs DEF Substitutable, IsVariableDefined, Parsing, DefinitionLines
      <4>5. VariableMeant(AsOperand(Variable(line, arg.name)), arg.name, line)
        BY <1>4, <4>4, VariableMeans DEF Parsing
      <4> QED BY <3>1, <4>1, <4>3, <4>5 DEF ArgumentMeant
    <3>2. CASE arg.type # "VARIABLE"
      <4>1. t = arg
        BY <2>2, <3>2 DEF Sub
      <4> QED BY <2>2, <2>4, <3>2, <4>1 DEF ArgumentMeant, LinkedOperand
    <3> QED BY <3>1, <3>2
  <2> QED BY <2>1, <2>2, <2>3, <2>4, <2>8, <2>9
<1>7. InstructionMapping(name).operand_count = m
  BY <1>5 DEF InstructionOk
<1>8. GoodCode(line, Distances)
  BY <1>1, <1>2, <1>5, <1>6, <1>7 DEF GoodCode
<1>9. /\ LineBytes(line, Distances) \in Seq(Int)
      /\ Len(LineBytes(line, Distances)) = LineLength(line)
  BY <1>1, <1>2, <1>5, <1>6, CodeLength
<1>10. InstructionOpcode(name) = LineBytes(line, Distances)
  <2>1. [k \in DOMAIN args |-> EncodeOperand(args[k])]
            = [k \in 1 .. Len(Said(line)) - 1 |-> OperandOpcode(CodeOperand(line, k, Distances))]
    BY <1>5, <1>6
  <2> QED BY <1>2, <2>1 DEF InstructionOpcode, LineBytes, CodeBytes
<1>11. GoodLine(line, InstructionOpcode(name), Distances)
  BY <1>8, <1>9, <1>10 DEF GoodLine
<1>12. CASE name = "ENTER"
  <2>1. /\ ScopeAfter(name) = NewScope(args[1].value, args[2].value)
        /\ \A k \in {1, 2} : k \in DOMAIN args /\ args[k].type = "BYTE_LITERAL"
    BY <1>12 DEF ScopeAfter, InstructionOk
  <2>2. 1 \in 1 .. m /\ 2 \in 1 .. m
    BY <1>5, <2>1
  <2>3. /\ args[1] = Said(line)[2] /\ args[2] = Said(line)[3]
        /\ args[1].value \in Nat /\ args[2].value \in Nat
    <3>1. args[1] = Said(line)[1 + 1] /\ GoodToken(args[1])
      BY <1>5, <2>2, Arguments
    <3>2. args[2] = Said(line)[2 + 1] /\ GoodToken(args[2])
      BY <1>5, <2>2, Arguments
    <3> QED BY <3>1, <3>2 DEF GoodToken
  <2>4. Says(line, {"ENTER"})
    BY <1>1, <1>12 DEF Says
  <2> QED BY <1>11, <2>1, <2>3, <2>4, EnvEnter DEF Parsing
<1>13. CASE name = "LVRET"
  <2>1. ScopeAfter(name) = NoScope
    BY <1>13 DEF ScopeAfter
  <2>2. Says(line, {"LVRET"})
    BY <1>1, <1>13 DEF Says
  <2> QED BY <1>11, <2>1, <2>2, EnvLeave DEF Parsing
<1>14. CASE name # "ENTER" /\ name # "LVRET"
  <2>1. ScopeAfter(name) = current_scope
    BY <1>14 DEF ScopeAfter
  <2>2. ~Says(line, {"ENTER", "LVRET"})
    BY <1>1, <1>14 DEF Says
  <2> QED BY <1>4, <1>11, <2>1, <2>2, EnvSame DEF Parsing
<1> QED BY <1>12, <1>13, <1>14

\* A line that says nothing.
LEMMA EmptyGood ==
  ASSUME Parsing, statement = <<>>
  PROVE  GoodLine(line, <<>>, Distances) /\ Env(line + 1, consts, current_scope)
<1>1. Said(line) = <<>>
  BY DEF statement, Said
<1>2. ~IsCode(line) /\ \A names : ~Says(line, names)
  BY <1>1 DEF IsCode, Says
<1>3. \A dist : LineBytes(line, dist) = <<>>
  BY <1>2 DEF LineBytes, DataBytes
<1>4. LineLength(line) = 0
  BY <1>3 DEF LineLength
<1>5. GoodLine(line, <<>>, Distances)
  BY <1>2, <1>3, <1>4 DEF GoodLine
<1>6. Env(line + 1, consts, current_scope)
  BY <1>2, EnvSame DEF Parsing
<1> QED BY <1>5, <1>6

\* A line of data.
LEMMA DataGood ==
  ASSUME NEW n, ~IsCode(n), NEW dist, DataBytes(n) \in Seq(Int)
  PROVE  GoodLine(n, DataBytes(n), dist)
<1>1. \A any : LineBytes(n, any) = DataBytes(n)
  BY DEF LineBytes
<1>2. Len(DataBytes(n)) \in Nat
  OBVIOUS
<1>3. LineLength(n) = Len(DataBytes(n))
  BY <1>1, <1>2 DEF LineLength
<1> QED BY <1>1, <1>3 DEF GoodLine

\* The bytes of a literal.
LEMMA LiteralData ==
  ASSUME NEW t, GoodToken(t), t.type \in LiteralTypes
  PROVE  Data(t) \in Seq(Int)
<1>1. CASE t.type = "STRING_LITERAL"
  <2>1. t.bytes \in Seq(Int)
    <3>1. Bytes \subseteq Int
      BY SizesType DEF Bytes
    <3>2. PICK bytes \in Seq(Bytes) : bytes = t.bytes
      BY DEF GoodToken
    <3>3. \A k \in 1 .. Len(bytes) : bytes[k] \in Int
      BY <3>1, ElementOfSeq
    <3>4. bytes \in Seq(Int)
      BY <3>3
    <3> QED BY <3>2, <3>4
  <2> QED BY <1>1, <2>1 DEF Data
<1>2. CASE t.type = "BYTE_LITERAL"
  BY <1>2 DEF Data, GoodToken
<1>3. CASE t.type = "WORD_LITERAL"
  <2>1. t.value \in Int
    BY DEF GoodToken
  <2> QED BY <1>3, <2>1, BinaryBytes DEF Data
<1> QED BY <1>1, <1>2, <1>3 DEF LiteralTypes

\* The names of the macros tell the lines apart.
LEMMA MacroLine ==
  ASSUME Parsing, statement # <<>>, Head(statement).type = "MACRO",
         NEW name, name = Head(statement).name
  PROVE  /\ \A names : Says(line, names) <=> name \in names
         /\ name \notin {"VAR", "VARB"} => ~IsCode(line)
         /\ Head(Said(line)).type = "MACRO"
<1>1. statement = Said(line)
  BY DEF statement, Said
<1>2. \A names : Says(line, names) <=> name \in names
  BY <1>1 DEF Says
<1> QED BY <1>1, <1>2 DEF IsCode

\* .DAT and .DATN
LEMMA InsertDataGood ==
  ASSUME Parsing, statement # <<>>, Head(statement).type = "MACRO",
         NEW bytes,
         \/ Head(statement).name = "DAT" /\ DatOk /\ bytes = DatOpcode
         \/ Head(statement).name = "DATN" /\ DatnOk /\ bytes = DatnOpcode
  PROVE  GoodLine(line, bytes, Distances) /\ Env(line + 1, consts, current_scope)
<1>1. PICK name : name = Head(statement).name
  OBVIOUS
<1>2. name \in {"DAT", "DATN"}
  BY <1>1
<1>3. /\ ~IsCode(line) /\ \A names : Says(line, names) <=> name \in names
  BY <1>1, <1>2, MacroLine
<1>4. Env(line + 1, consts, current_scope)
  <2>1. ~Says(line, {"CONST"}) /\ ~Says(line, {"ENTER", "LVRET"}) /\ ~Says(line, DOMAIN Declarations)
    BY <1>2, <1>3 DEF Declarations
  <2> QED BY <2>1, EnvSame DEF Parsing
<1>5. PICK m \in Nat : /\ m = Len(args) /\ m = Len(Said(line)) - 1 /\ DOMAIN args = 1 .. m
                       /\ \A k \in 1 .. m : args[k] = Said(line)[k + 1] /\ GoodToken(args[k])
  BY Arguments
<1>6. ASSUME NEW k \in 1 .. m, Substitutable(args[k])
      PROVE  /\ SubstituteVariable(args[k]) = Sub(Said(line)[k + 1], line)
             /\ GoodToken(SubstituteVariable(args[k]))
  BY <1>5, <1>6, SubIs DEF Parsing
<1>7. bytes = DataBytes(line) /\ bytes \in Seq(Int)
  <2>1. CASE name = "DAT"
    <3>1. /\ DatOk /\ bytes = DatOpcode
      BY <1>1, <2>1
    <3>2. ASSUME NEW k \in 1 .. m
          PROVE  /\ SubstituteVariable(args[k]) = Sub(Said(line)[k + 1], line)
                 /\ Data(SubstituteVariable(args[k])) \in Seq(Int)
      <4>1. Substitutable(args[k]) /\ SubstituteVariable(args[k]).type \in LiteralTypes
        BY <1>5, <3>1 DEF DatOk, AreLiterals
      <4> QED BY <1>6, <4>1, LiteralData
    <3> DEFINE A == [k \in 1 .. m |-> Data(SubstituteVariable(args[k]))]
    <3>3. A \in Seq(Seq(Int))
      BY <3>2
    <3>4. [k \in DOMAIN args |-> Data(SubstituteVariable(args[k]))] = A
      BY <1>5
    <3>5. [k \in 1 .. Len(Said(line)) - 1 |-> Data(Sub(Said(line)[k + 1], line))] = A
      BY <1>5, <3>2
    <3> HIDE DEF A
    <3>6. FlattenSeq(A) \in Seq(Int)
      BY <3>3, SameLengths
    <3>7. Says(line, {"DAT"})
      BY <1>3, <2>1
    <3>8. bytes = FlattenSeq(A)
      BY <3>1, <3>4 DEF DatOpcode
    <3>9. DataBytes(line) = FlattenSeq(A)
      BY <3>5, <3>7 DEF DataBytes
    <3> QED BY <3>6, <3>8, <3>9
  <2>2. CASE name = "DATN"
    <3>1. DatnOk /\ bytes = DatnOpcode
      BY <1>1, <2>2
    <3>2. m = 2
      BY <1>5, <3>1 DEF DatnOk
    <3>3. /\ Substitutable(args[1]) /\ Substitutable(args[2])
          /\ SubstituteVariable(args[2]).type \in LiteralTypes
      <4>1. 1 \in DOMAIN args /\ 2 \in DOMAIN args
        <5>1. PICK D : D = DOMAIN args
          OBVIOUS
        <5>2. D = 1 .. 2
          BY <1>5, <3>2, <5>1
        <5> QED BY <5>1, <5>2
      <4>2. PICK first, second : /\ first = LiteralTypes \ {"STRING_LITERAL"} /\ second = LiteralTypes
        OBVIOUS
      <4>3. \A k \in DOMAIN args :
                Substitutable(args[k]) /\ SubstituteVariable(args[k]).type \in << first, second >>[k]
        BY <3>1, <4>2 DEF DatnOk, AreLiterals
      <4> QED BY <4>1, <4>2, <4>3
    <3>4. PICK t, u : t = SubstituteVariable(args[1]) /\ u = SubstituteVariable(args[2])
      OBVIOUS
    <3>5. 1 \in 1 .. m /\ 2 \in 1 .. m
      BY <3>2
    <3>6. t = Sub(Said(line)[2], line) /\ GoodToken(t)
      BY <1>6, <3>3, <3>4, <3>5
    <3>7. u = Sub(Said(line)[3], line) /\ GoodToken(u)
      BY <1>6, <3>3, <3>4, <3>5
    <3>8. Data(u) \in Seq(Int) /\ t.value \in Nat
      BY <3>3, <3>4, <3>6, <3>7, LiteralData DEF GoodToken
    <3> DEFINE A == [n \in 1 .. t.value |-> Data(u)]
    <3>9. A \in Seq(Seq(Int))
      <4>1. PICK n \in Nat, d \in Seq(Int) : n = t.value /\ d = Data(u)
        BY <3>8
      <4>2. A = [k \in 1 .. n |-> d]
        BY <4>1
      <4>3. [k \in 1 .. n |-> d] \in Seq(Seq(Int))
        BY ONLY n \in Nat, d \in Seq(Int)
      <4> QED BY <4>2, <4>3
    <3> HIDE DEF A
    <3>10. FlattenSeq(A) \in Seq(Int)
      BY <3>9, SameLengths
    <3>11. Says(line, {"DATN"}) /\ ~Says(line, {"DAT"})
      BY <1>3, <2>2
    <3>12. bytes = FlattenSeq(A)
      BY <3>1, <3>4 DEF DatnOpcode, A
    <3>13. DataBytes(line) = FlattenSeq(A)
      BY <3>6, <3>7, <3>11 DEF DataBytes, A
    <3> QED BY <3>10, <3>12, <3>13
  <2> QED BY <1>2, <2>1, <2>2
<1>8. GoodLine(line, bytes, Distances)
  BY <1>3, <1>7, DataGood
<1> QED BY <1>4, <1>8

\* A name that is not in sight has no definition.
LEMMA NewName ==
  ASSUME NEW n, NEW c, NEW s, Env(n, c, s), NEW name, name \notin DOMAIN c,
         ~(s # NoScope /\ IsDeclared(s, name))
  PROVE  \A d \in DefinitionLines(n) : NameOf(d) # name
<1>1. SUFFICES ASSUME NEW d \in DefinitionLines(n), NameOf(d) = name
               PROVE  FALSE
  OBVIOUS
<1>2. CASE d \in ConstLines(n)
  BY <1>1, <1>2 DEF Env
<1>3. CASE d \in Declared(n, DOMAIN Declarations)
  <2>1. EntersOf(n) # {}
    BY <1>3 DEF Declared
  <2>2. ScopeOf(n, s)
    BY <2>1 DEF Env
  <2> QED BY <1>1, <1>3, <2>2 DEF ScopeOf, IsDeclared
<1> QED BY <1>2, <1>3 DEF DefinitionLines

\* .CONST
LEMMA DefineConstGood ==
  ASSUME Parsing, statement # <<>>, Head(statement).type = "MACRO",
         Head(statement).name = "CONST", ConstOk
  PROVE  /\ GoodLine(line, <<>>, Distances)
         /\ Env(line + 1,
                [name \in DOMAIN consts \union {args[1].name} |->
                    IF name = args[1].name THEN SubstituteVariable(args[2]) ELSE consts[name]],
                current_scope)
<1>1. /\ ~IsCode(line) /\ \A names : Says(line, names) <=> "CONST" \in names
  BY MacroLine
<1>2. GoodLine(line, <<>>, Distances)
  <2>1. DataBytes(line) = <<>>
    BY <1>1 DEF DataBytes
  <2>2. DataBytes(line) \in Seq(Int)
    BY <2>1
  <2>3. GoodLine(line, DataBytes(line), Distances)
    BY <1>1, <2>2, DataGood
  <2> QED BY <2>1, <2>3
<1>3. /\ args[1] = Said(line)[2] /\ args[2] = Said(line)[3] /\ GoodToken(args[2])
  <2>1. PICK m \in Nat : /\ m = Len(args)
                         /\ \A k \in 1 .. m : args[k] = Said(line)[k + 1] /\ GoodToken(args[k])
    BY Arguments
  <2>2. m = 2
    BY <2>1 DEF ConstOk
  <2>3. 1 \in 1 .. m /\ 2 \in 1 .. m
    BY <2>2
  <2>4. args[1] = Said(line)[1 + 1]
    BY <2>1, <2>3
  <2>5. args[2] = Said(line)[2 + 1] /\ GoodToken(args[2])
    BY <2>1, <2>3
  <2> QED BY <2>4, <2>5
<1>4. PICK arg, lit : arg = args[2] /\ lit = SubstituteVariable(args[2])
  OBVIOUS
<1>5. /\ Substitutable(arg) /\ lit.type \in LiteralTypes /\ lit = SubstituteVariable(arg)
      /\ arg = Said(line)[3] /\ GoodToken(arg)
  BY <1>3, <1>4 DEF ConstOk
<1>6. lit = Sub(arg, line) /\ GoodToken(lit)
  BY <1>5, SubIs DEF Parsing
<1>7. LiteralOf[line] = lit
  <2>1. LiteralOf[line] = IF CopiedFrom(line) = {} THEN Said(line)[3]
                          ELSE LiteralOf[CHOOSE d \in CopiedFrom(line) : TRUE]
    BY Literals DEF Parsing
  <2>2. CASE arg.type # "VARIABLE"
    <3>1. CopiedFrom(line) = {}
      BY <1>5, <2>2 DEF CopiedFrom
    <3> QED BY <1>5, <1>6, <2>1, <2>2, <3>1 DEF Sub
  <2>3. CASE arg.type = "VARIABLE"
    <3>1. arg.name \in DOMAIN consts
      <4>1. SUFFICES ASSUME arg.name \notin DOMAIN consts
                     PROVE  FALSE
        OBVIOUS
      <4>2. /\ current_scope # NoScope /\ IsDeclared(current_scope, arg.name)
            /\ lit = Slot(current_scope, arg.name)
        BY <1>5, <2>3, <4>1 DEF Substitutable, IsVariableDefined, SubstituteVariable
      <4>3. lit.type = "ABS_REF_REG"
        BY <4>2, VariableIs DEF Parsing
      <4> QED BY <1>5, <4>3 DEF LiteralTypes
    <3>2. lit = consts[arg.name]
      BY <1>5, <2>3, <3>1 DEF SubstituteVariable
    <3>3. PICK d \in ConstLines(line) : NameOf(d) = arg.name
      BY <3>1 DEF Env, Parsing
    <3>4. lit = LiteralOf[d]
      BY <3>2, <3>3 DEF Env, Parsing
    <3>5. CopiedFrom(line) = {x \in ConstLines(line) : NameOf(x) = arg.name}
      BY <1>5, <2>3 DEF CopiedFrom, ConstLines, NameOf
    <3>6. {x \in ConstLines(line) : NameOf(x) = arg.name} = {d}
      BY <3>3 DEF Env, Parsing, DefinitionLines
    <3>7. (CHOOSE x \in {d} : TRUE) = d
      OBVIOUS
    <3> QED BY <2>1, <3>4, <3>5, <3>6, <3>7
  <2> QED BY <2>2, <2>3
<1>8. PICK name : name = args[1].name
  OBVIOUS
<1>9. name = NameOf(line) /\ \A d \in DefinitionLines(line) : NameOf(d) # name
  <2>1. name = NameOf(line)
    BY <1>3, <1>8 DEF NameOf
  <2>2. name \notin DOMAIN consts /\ ~(current_scope # NoScope /\ IsDeclared(current_scope, name))
    BY <1>8 DEF ConstOk, IsNewName, IsVariableDefined
  <2> QED BY <2>1, <2>2, NewName DEF Parsing
<1>10. Says(line, {"CONST"})
  BY <1>1
<1>11. PICK c : c = [m \in DOMAIN consts \union {name} |->
                        IF m = name THEN LiteralOf[line] ELSE consts[m]]
  OBVIOUS
<1>12. Env(line + 1, c, current_scope)
  <2>1. line \in Nat \ {0} /\ Env(line, consts, current_scope)
    BY DEF Parsing
  <2>2. LiteralOf[line].type \in LiteralTypes /\ GoodToken(LiteralOf[line])
    BY <1>5, <1>6, <1>7
  <2> QED BY <1>9, <1>10, <1>11, <2>1, <2>2, EnvConst
<1>13. c = [m \in DOMAIN consts \union {args[1].name} |->
               IF m = args[1].name THEN SubstituteVariable(args[2]) ELSE consts[m]]
  BY <1>4, <1>7, <1>8, <1>11
<1> QED BY <1>2, <1>12, <1>13

\* The scope that a declaration leaves.
LEMMA DeclareEnv ==
  ASSUME Parsing, statement # <<>>, Head(statement).type = "MACRO",
         NEW name, name = Head(statement).name, name \in DOMAIN Declarations,
         DeclarationOk(name)
  PROVE  /\ Env(line + 1, consts, ScopeWithSlot(name))
         /\ Says(line, DOMAIN Declarations) /\ ~Says(line, {"ENTER", "LVRET"})
         /\ ~Says(line, {"CONST"}) /\ ~Says(line, {"DAT"}) /\ ~Says(line, {"DATN"})
         /\ NameOf(line) = args[1].name
         /\ line \in Declared(line + 1, DOMAIN Declarations)
<1>1. /\ \A names : Says(line, names) <=> name \in names
      /\ Said(line) # <<>> /\ Head(Said(line)).name = name
  BY MacroLine, Arguments
<1>2. Says(line, DOMAIN Declarations)
  BY <1>1
<1>3. /\ Declarations[name][1] = KindOf(line) /\ Declarations[name][2] = SizeOf(line)
      /\ ~Says(line, {"CONST"}) /\ ~Says(line, {"ENTER", "LVRET"})
  BY <1>1, <1>2, DeclarationIs
<1>4. ~Says(line, {"DAT"}) /\ ~Says(line, {"DATN"})
  BY <1>1 DEF Declarations
<1>5. 1 \in 1 .. Len(args) /\ Len(args) \in Nat
  <2>1. PICK kind : kind = Declarations[name][1]
    OBVIOUS
  <2>2. Len(args) \in IF kind = "parameter" THEN {1} ELSE {1, 2}
    BY <2>1 DEF DeclarationOk
  <2>3. PICK l : l = Len(args)
    OBVIOUS
  <2>4. l \in {1, 2}
    BY <2>2, <2>3
  <2> QED BY <2>3, <2>4
<1>6. NameOf(line) = args[1].name
  <2>1. args[1] = Said(line)[1 + 1]
    BY <1>5, Arguments
  <2> QED BY <2>1 DEF NameOf
<1>7. PICK var : var = args[1].name
  OBVIOUS
<1>8. /\ current_scope # NoScope /\ HasRoom(current_scope, KindOf(line), SizeOf(line))
      /\ var \notin DOMAIN consts /\ ~IsDeclared(current_scope, var)
  BY <1>3, <1>7 DEF DeclarationOk, IsNewName, IsVariableDefined
<1>9. \A d \in DefinitionLines(line) : NameOf(d) # var
  BY <1>8, NewName DEF Parsing
<1>10. Env(line + 1, consts, AddSlot(current_scope, KindOf(line), var, SizeOf(line)))
  BY <1>2, <1>6, <1>7, <1>8, <1>9, EnvDeclare DEF Parsing
<1>11. ScopeWithSlot(name) = AddSlot(current_scope, KindOf(line), var, SizeOf(line))
  BY <1>3, <1>7 DEF ScopeWithSlot
<1>12. line \in Declared(line + 1, DOMAIN Declarations)
  <2>1. EntersOf(line) # {}
    BY <1>8 DEF Parsing, Env
  <2> QED BY <1>2, <1>3, <2>1, LineDeclares DEF Parsing
<1> QED BY <1>2, <1>3, <1>4, <1>6, <1>10, <1>11, <1>12

\* A literal of one or two bytes is an operand that fits.
LEMMA LiteralFits ==
  ASSUME NEW t, GoodToken(t), t.type \in {"BYTE_LITERAL", "WORD_LITERAL"}
  PROVE  /\ IsOperand(AsOperand(t)) /\ Encodable(AsOperand(t))
         /\ \A dist : LinkedOperand(t, dist) = AsOperand(t)
<1>1. t.type \in DOMAIN OperandTypes /\ OperandTypes[t.type] = "VALUE"
  BY DEF OperandTypes
<1>2. IsOperand(AsOperand(t))
  BY <1>1 DEF GoodToken
<1>3. PICK l, v, r, o : l = t.length /\ v = t.value /\ r = t.reg /\ o = t.offset
  OBVIOUS
<1>4. AsOperand(t) = Operand(l, "VALUE", r, v, o)
  BY <1>1, <1>3 DEF AsOperand
<1>5. /\ v \in Nat
      /\ \/ l = 1 /\ v \in Bytes
         \/ l = 2 /\ v \in Words
  <2>1. \/ t.type = "BYTE_LITERAL" /\ t.length = 1 /\ t.value \in Bytes
        \/ t.type = "WORD_LITERAL" /\ t.length = 2 /\ t.value \in Words
    BY DEF GoodToken
  <2>2. t.value \in Nat
    BY DEF GoodToken
  <2> QED BY <1>3, <2>1, <2>2
<1>6. Fits(v, l, FALSE)
  BY <1>5, SizesType DEF Fits, Size, Bytes, Words
<1>7. Encodable(Operand(l, "VALUE", r, v, o))
  <2>1. Fields(l, "VALUE") = << << "opvalue", l, FALSE >> >>
    BY DEF Fields
  <2>2. PICK op : op = Operand(l, "VALUE", r, v, o)
    OBVIOUS
  <2>3. op.oplen = l /\ op.optype = "VALUE" /\ op["opvalue"] = v
    BY <2>2 DEF Operand
  <2>5. PICK f : f = << "opvalue", l, FALSE >>
    OBVIOUS
  <2>4. DOMAIN << f >> = {1} /\ << f >>[1] = f
    OBVIOUS
  <2>6. f[1] = "opvalue" /\ f[2] = l /\ f[3] = FALSE
    BY <2>5
  <2>7. \A i \in DOMAIN Fields(op.oplen, op.optype) : Fields(op.oplen, op.optype)[i] = f
    BY <2>1, <2>3, <2>4, <2>5
  <2>8. Fits(op[f[1]], f[2], f[3])
    BY <1>6, <2>3, <2>6
  <2>9. Encodable(op)
    BY <2>7, <2>8 DEF Encodable
  <2> QED BY <2>2, <2>9
<1>8. \A dist : LinkedOperand(t, dist) = AsOperand(t)
  BY DEF LinkedOperand, LABEL_REFERENCE_TYPES
<1> QED BY <1>2, <1>4, <1>7, <1>8

\* A declaration without a default value.
LEMMA DeclareOnlyGood ==
  ASSUME Parsing, statement # <<>>, Head(statement).type = "MACRO",
         NEW name, name = Head(statement).name, name \in DOMAIN Declarations,
         DeclarationOk(name), Len(args) = 1
  PROVE  GoodLine(line, DefaultOpcode(name), Distances)
<1>1. Len(Said(line)) = 2
  BY Arguments
<1>2. ~IsCode(line)
  BY <1>1, MacroLine DEF IsCode
<1>3. DefaultOpcode(name) = <<>>
  BY DEF DefaultOpcode
<1>4. DataBytes(line) = <<>>
  BY DeclareEnv DEF DataBytes
<1>5. DataBytes(line) \in Seq(Int)
  BY <1>4
<1>6. GoodLine(line, DataBytes(line), Distances)
  BY <1>2, <1>5, DataGood
<1> QED BY <1>3, <1>4, <1>6

\* The default value is copied to the new variable: its slot is the first operand.
LEMMA DefaultSlot ==
  ASSUME Parsing, statement # <<>>, Head(statement).type = "MACRO",
         NEW name, name = Head(statement).name, name \in DOMAIN Declarations,
         DeclarationOk(name), Len(args) = 2
  PROVE  LET op == AsOperand(Slot(ScopeWithSlot(name), args[1].name))
         IN  /\ IsOperand(op) /\ Encodable(op)
             /\ \A dist : CodeOperand(line, 1, dist) = op
             /\ \A dist : ArgumentMeant(op, Said(line)[2], line, dist)
<1>1. PICK s, var : s = ScopeWithSlot(name) /\ var = args[1].name
  OBVIOUS
<1>2. /\ Env(line + 1, consts, s) /\ ~Says(line, {"ENTER", "LVRET"})
      /\ NameOf(line) = var /\ line \in Declared(line + 1, DOMAIN Declarations)
  BY <1>1, DeclareEnv
<1>3. s # NoScope /\ IsDeclared(s, var)
  <2>1. EntersOf(line + 1) # {}
    BY <1>2 DEF Declared
  <2>2. ScopeOf(line + 1, s)
    BY <1>2, <2>1 DEF Env
  <2> QED BY <1>2, <2>2 DEF ScopeOf, IsDeclared
<1>4. line + 1 \in Nat \ {0} /\ line \in Nat \ {0}
  BY DEF Parsing
<1>5. /\ Slot(s, var) = Variable(line + 1, var) /\ GoodToken(Slot(s, var))
      /\ Slot(s, var).type = "ABS_REF_REG"
  BY <1>2, <1>3, <1>4, VariableIs
<1>6. PICK op : op = AsOperand(Slot(s, var))
  OBVIOUS
<1>7. IsOperand(op)
  BY <1>5, <1>6 DEF GoodToken, OperandTypes
<1>8. Encodable(op)
  BY <1>1, <1>6 DEF DeclarationOk
<1>9. \A dist : CodeOperand(line, 1, dist) = op
  <2>1. Head(Said(line)).type # "INSTRUCTION"
    BY MacroLine
  <2>2. \A dist : CodeOperand(line, 1, dist) = AsOperand(Variable(line + 1, NameOf(line)))
    BY <2>1 DEF CodeOperand, NameOf
  <2> QED BY <1>2, <1>5, <1>6, <2>2
<1>10. args[1] = Said(line)[2] /\ args[1].type = "VARIABLE"
  <2>1. Len(args) = 2
    OBVIOUS
  <2>2. args[1] = Said(line)[1 + 1]
    BY <2>1, Arguments
  <2> QED BY <2>2 DEF DeclarationOk, IsNewName
<1>11. VariableMeant(op, var, line)
  <2>1. line \in DefinitionLines(line + 1)
    BY <1>2 DEF DefinitionLines
  <2>2. VariableMeant(AsOperand(Variable(line + 1, var)), var, line)
    BY <1>2, <1>4, <2>1, VariableMeans
  <2> QED BY <1>5, <1>6, <2>2
<1>12. \A dist : ArgumentMeant(op, Said(line)[2], line, dist)
  BY <1>1, <1>10, <1>11 DEF ArgumentMeant, LABEL_REFERENCE_TYPES
<1> QED BY <1>1, <1>6, <1>7, <1>8, <1>9, <1>12

\* And the second is the literal.
LEMMA DefaultValue ==
  ASSUME Parsing, statement # <<>>, Head(statement).type = "MACRO",
         NEW name, name = Head(statement).name, name \in DOMAIN Declarations,
         DeclarationOk(name), Len(args) = 2
  PROVE  LET op == AsOperand(SubstituteVariable(args[2]))
         IN  /\ IsOperand(op) /\ Encodable(op)
             /\ \A dist : CodeOperand(line, 2, dist) = op
             /\ \A dist : ArgumentMeant(op, Said(line)[3], line, dist)
<1>1. PICK arg, t : arg = args[2] /\ t = SubstituteVariable(args[2])
  OBVIOUS
<1>2. arg = Said(line)[3] /\ GoodToken(arg)
  <2>1. Len(args) = 2
    OBVIOUS
  <2>2. args[2] = Said(line)[2 + 1] /\ GoodToken(args[2])
    BY <2>1, Arguments
  <2> QED BY <1>1, <2>2
<1>3. Substitutable(arg) /\ t.type \in {"BYTE_LITERAL", "WORD_LITERAL"}
  <2>1. PICK size : size = Declarations[name][2]
    OBVIOUS
  <2>2. t.type = IF size = 1 THEN "BYTE_LITERAL" ELSE "WORD_LITERAL"
    BY <1>1, <2>1 DEF DeclarationOk
  <2>3. t.type \in {"BYTE_LITERAL", "WORD_LITERAL"}
    BY <2>2
  <2>4. Substitutable(arg)
    BY <1>1 DEF DeclarationOk
  <2> QED BY <2>3, <2>4
<1>4. t = Sub(arg, line) /\ GoodToken(t)
  BY <1>1, <1>2, <1>3, SubIs DEF Parsing
<1>5. PICK op : op = AsOperand(t)
  OBVIOUS
<1>6. IsOperand(op) /\ Encodable(op) /\ \A dist : LinkedOperand(t, dist) = op
  BY <1>3, <1>4, <1>5, LiteralFits
<1>7. \A dist : CodeOperand(line, 2, dist) = op
  <2>1. Said(line)[2 + 1] = arg
    BY <1>2
  <2>2. \A dist : CodeOperand(line, 2, dist) = LinkedOperand(Sub(Said(line)[2 + 1], line), dist)
    BY DEF CodeOperand
  <2> QED BY <1>4, <1>6, <2>1, <2>2
<1>8. CASE arg.type # "VARIABLE"
  <2>1. t = arg
    BY <1>4, <1>8 DEF Sub
  <2>2. arg.type \notin DOMAIN LABEL_REFERENCE_TYPES
    BY <1>3, <2>1 DEF LABEL_REFERENCE_TYPES
  <2>3. \A dist : ArgumentMeant(op, arg, line, dist)
    BY <1>5, <1>8, <2>1, <2>2 DEF ArgumentMeant
  <2> QED BY <1>1, <1>2, <1>5, <1>6, <1>7, <2>3
<1>9. CASE arg.type = "VARIABLE"
  <2>1. arg.name \in DOMAIN consts
    <3>1. SUFFICES ASSUME arg.name \notin DOMAIN consts
                   PROVE  FALSE
      OBVIOUS
    <3>2. /\ current_scope # NoScope /\ IsDeclared(current_scope, arg.name)
          /\ t = Slot(current_scope, arg.name)
      BY <1>1, <1>3, <1>9, <3>1 DEF Substitutable, IsVariableDefined, SubstituteVariable
    <3>3. t.type = "ABS_REF_REG"
      BY <3>2, VariableIs DEF Parsing
    <3> QED BY <1>3, <3>3
  <2>2. t = consts[arg.name]
    BY <1>1, <1>9, <2>1 DEF SubstituteVariable
  <2>3. /\ Env(line + 1, consts, ScopeWithSlot(name)) /\ ~Says(line, {"ENTER", "LVRET"})
    BY DeclareEnv
  <2>4. line + 1 \in Nat \ {0} /\ line \in Nat \ {0}
    BY DEF Parsing
  <2>5. /\ t = Variable(line + 1, arg.name)
        /\ \E d \in ConstLines(line + 1) : NameOf(d) = arg.name
    BY <2>1, <2>2, <2>3, <2>4, VariableIs
  <2>6. PICK d \in DefinitionLines(line + 1) : NameOf(d) = arg.name
    BY <2>5 DEF DefinitionLines
  <2>7. VariableMeant(AsOperand(Variable(line + 1, arg.name)), arg.name, line)
    BY <2>3, <2>4, <2>6, VariableMeans
  <2>8. \A dist : ArgumentMeant(op, arg, line, dist)
    BY <1>5, <1>9, <2>5, <2>7 DEF ArgumentMeant, LABEL_REFERENCE_TYPES
  <2> QED BY <1>1, <1>2, <1>5, <1>6, <1>7, <2>8
<1> QED BY <1>8, <1>9

\* .VAR and .VARB with a default value: a MOV.
LEMMA DefaultGood ==
  ASSUME Parsing, statement # <<>>, Head(statement).type = "MACRO",
         NEW name, name = Head(statement).name, name \in DOMAIN Declarations,
         DeclarationOk(name), Len(args) = 2
  PROVE  GoodLine(line, DefaultOpcode(name), Distances)
<1> DEFINE zero == [m \in STRING |-> 0]
<1>1. name \in {"VAR", "VARB"}
  <2>1. PICK kind : kind = Declarations[name][1]
    OBVIOUS
  <2>2. Len(args) \in IF kind = "parameter" THEN {1} ELSE {1, 2}
    BY <2>1 DEF DeclarationOk
  <2>3. kind # "parameter"
    BY <2>2
  <2> QED BY <2>1, <2>3 DEF Declarations
<1>2. Len(Said(line)) = 3
  BY Arguments
<1>3. IsCode(line) /\ CodeName(line) = "MOV"
  <2>1. Says(line, {"VAR", "VARB"}) /\ Head(Said(line)).type = "MACRO"
    BY <1>1, MacroLine
  <2> QED BY <1>2, <2>1 DEF IsCode, CodeName
<1>4. /\ "MOV" \in InstructionNames /\ InstructionMapping("MOV").operand_count = 2
      /\ InstructionMapping("MOV").opcode \in Int
  <2>1. "MOV" \in InstructionNames
    <3>1. PICK inst : inst = [opcode |-> 80, operand_count |-> 2, name |-> "MOV"]
      OBVIOUS
    <3>2. inst \in From(80, 2, <<"MOV">>)
      BY <3>1 DEF From
    <3>3. From(80, 2, <<"MOV">>) \subseteq Instructions
      BY DEF Instructions
    <3> QED BY <3>1, <3>2, <3>3 DEF InstructionNames
  <2> QED BY <2>1, InstructionNamed
<1> HIDE DEF zero
<1>5. PICK o1 : /\ o1 = AsOperand(Slot(ScopeWithSlot(name), args[1].name))
                /\ IsOperand(o1) /\ Encodable(o1)
                /\ \A dist : CodeOperand(line, 1, dist) = o1
                /\ \A dist : ArgumentMeant(o1, Said(line)[2], line, dist)
  BY DefaultSlot
<1>6. PICK o2 : /\ o2 = AsOperand(SubstituteVariable(args[2]))
                /\ IsOperand(o2) /\ Encodable(o2)
                /\ \A dist : CodeOperand(line, 2, dist) = o2
                /\ \A dist : ArgumentMeant(o2, Said(line)[3], line, dist)
  BY DefaultValue
<1>7. ASSUME NEW k \in 1 .. 2
      PROVE  /\ IsOperand(CodeOperand(line, k, Distances))
             /\ Encodable(CodeOperand(line, k, Distances))
             /\ CodeOperand(line, k, zero) = CodeOperand(line, k, Distances)
             /\ ArgumentMeant(CodeOperand(line, k, Distances), Said(line)[k + 1], line, Distances)
  <2>1. CASE k = 1
    BY <1>5, <2>1
  <2>2. CASE k = 2
    BY <1>6, <2>2
  <2> QED BY <2>1, <2>2
<1>8. Len(Said(line)) - 1 = 2
  BY <1>2
<1>9. GoodCode(line, Distances)
  BY <1>3, <1>4, <1>7, <1>8 DEF GoodCode
<1>10. /\ LineBytes(line, Distances) \in Seq(Int)
       /\ Len(LineBytes(line, Distances)) = LineLength(line)
  <2>1. \A k \in 1 .. Len(Said(line)) - 1 :
            /\ IsOperand(CodeOperand(line, k, Distances))
            /\ CodeOperand(line, k, [m \in STRING |-> 0]) = CodeOperand(line, k, Distances)
    BY <1>7, <1>8 DEF zero
  <2>2. Len(Said(line)) \in Nat \ {0} /\ CodeName(line) \in InstructionNames
    BY <1>2, <1>3, <1>4
  <2> QED BY <1>3, <2>1, <2>2, CodeLength
<1>11. DefaultOpcode(name) = LineBytes(line, Distances)
  <2>1. PICK op \in Int : op = InstructionMapping("MOV").opcode
    BY <1>4
  <2>2. PICK b \in Seq(Int), c \in Seq(Int) : b = OperandOpcode(o1) /\ c = OperandOpcode(o2)
    BY <1>5, <1>6, OpcodeLength
  <2>3. DefaultOpcode(name) = <<op>> \o b \o c
    BY <1>5, <1>6, <2>1, <2>2 DEF DefaultOpcode
  <2> DEFINE seqs == [k \in 1 .. 2 |-> OperandOpcode(CodeOperand(line, k, Distances))]
  <2>4. /\ seqs[1] = b /\ seqs[2] = c /\ Len(seqs) = 2 /\ seqs \in Seq(Seq(Int))
    <3>1. \A k \in 1 .. 2 : OperandOpcode(CodeOperand(line, k, Distances)) \in Seq(Int)
      BY <1>7, OpcodeLength
    <3> QED BY <1>5, <1>6, <2>2, <3>1
  <2>5. CodeBytes(line, Distances) = <<op>> \o FlattenSeq(seqs)
    BY <1>3, <1>8, <2>1 DEF CodeBytes
  <2> HIDE DEF seqs
  <2>6. PICK a \in Seq(Int) : a = <<op>>
    <3>1. <<op>> \in Seq(Int)
      BY <2>1
    <3> QED BY <3>1
  <2>7. a \o FlattenSeq(seqs) = a \o seqs[1] \o seqs[2]
    BY <2>4, TwoFlattened
  <2> QED BY <1>3, <2>3, <2>4, <2>5, <2>6, <2>7 DEF LineBytes
<1> QED BY <1>9, <1>10, <1>11 DEF GoodLine

\* .PARAM, .PARAMB, .VAR and .VARB
LEMMA DeclareGood ==
  ASSUME Parsing, statement # <<>>, Head(statement).type = "MACRO",
         NEW name, name = Head(statement).name, name \in DOMAIN Declarations,
         DeclarationOk(name)
  PROVE  /\ GoodLine(line, DefaultOpcode(name), Distances)
         /\ Env(line + 1, consts, ScopeWithSlot(name))
<1>1. Len(args) \in {1, 2}
  <2>1. PICK kind, l : kind = Declarations[name][1] /\ l = Len(args)
    OBVIOUS
  <2>2. l \in IF kind = "parameter" THEN {1} ELSE {1, 2}
    BY <2>1 DEF DeclarationOk
  <2>3. l \in {1, 2}
    BY <2>2
  <2> QED BY <2>1, <2>3
<1> QED BY <1>1, DeclareOnlyGood, DefaultGood, DeclareEnv

-----------------------------------------------------------------------------
(* Where the lines are *)

\* Where the lines are: each begins where the one in front of it ends.
IsLayout(P, n) ==
    /\ P \in [1 .. n + 1 -> Nat] /\ P[1] = 0
    /\ \A i \in 1 .. n : P[i + 1] = P[i] + LineLength(i)
Positions == CHOOSE P : IsLayout(P, Len(source))

\* There is such a layout.
LEMMA LayoutExists ==
  ASSUME source \in Sources
  PROVE  IsLayout(Positions, Len(source))
<1> DEFINE S == {n \in Nat : \E P : IsLayout(P, n)}
<1>1. 0 \in S
  <2>1. PICK P : P = [i \in 1 .. 1 |-> 0]
    OBVIOUS
  <2>2. IsLayout(P, 0)
    BY <2>1 DEF IsLayout
  <2> QED BY <2>2
<1>2. ASSUME NEW n \in Nat, n \in S
      PROVE  n + 1 \in S
  <2>1. PICK P : IsLayout(P, n)
    BY <1>2
  <2>2. PICK l \in Nat : l = LineLength(n + 1)
    BY DEF LineLength
  <2>3. PICK Q : Q = [i \in 1 .. n + 2 |-> IF i = n + 2 THEN P[n + 1] + l ELSE P[i]]
    OBVIOUS
  <2> HIDE DEF S
  <2>4. Q \in [1 .. (n + 1) + 1 -> Nat] /\ Q[1] = 0
    BY <2>1, <2>2, <2>3 DEF IsLayout
  <2>5. ASSUME NEW i \in 1 .. n + 1
        PROVE  Q[i + 1] = Q[i] + LineLength(i)
    <3>1. CASE i = n + 1
      BY <2>1, <2>2, <2>3, <3>1 DEF IsLayout
    <3>2. CASE i # n + 1
      BY <2>1, <2>3, <3>2 DEF IsLayout
    <3> QED BY <3>1, <3>2
  <2>6. IsLayout(Q, n + 1)
    BY <2>4, <2>5 DEF IsLayout
  <2> QED BY <2>6 DEF S
<1>3. Nat \subseteq S
  <2> HIDE DEF S
  <2> QED BY <1>1, <1>2, Induction
<1>4. Len(source) \in Nat
  BY DEF Sources
<1>5. \E P : IsLayout(P, Len(source))
  BY <1>3, <1>4
<1> QED BY <1>5 DEF Positions

\* The words that are labels.
LEMMA LabelTokenIs ==
  /\ \A i, k : << i, k >> \in LabelTokens <=>
        i \in DOMAIN source /\ k \in DOMAIN source[i] /\ source[i][k].type = "LABEL"
  /\ \A t \in LabelTokens : t = << t[1], t[2] >>
BY DEF LabelTokens

\* When a line is parsed its labels, and only they, get their address.
LEMMA LabelsHere ==
  ASSUME source \in Sources, AllTokenize, line \in DOMAIN source, Parses(statement),
         \A t, u \in LabelTokens : LabelName(t) = LabelName(u) => t = u,
         NEW t \in LabelTokens, LabelName(t) \in DOMAIN labels
  PROVE  labels_here[LabelName(t)] = IF t[1] = line THEN opcode_pos ELSE labels[LabelName(t)]
<1>1. PICK n \in Nat, m \in Nat :
        /\ m <= n /\ DOMAIN source[line] = 1 .. n /\ LabelsOf(Tokens(line)) = 1 .. m
        /\ \A k \in 1 .. n : /\ Tokens(line)[k].type = "LABEL" <=> source[line][k].type = "LABEL"
                             /\ source[line][k].type = "LABEL" => Tokens(line)[k] = source[line][k]
        /\ Len(Said(line)) = n - m /\ DOMAIN Said(line) = 1 .. n - m
        /\ \A k \in 1 .. n - m : Said(line)[k] = Tokens(line)[m + k]
  BY LineTokens
<1>2. statement = Said(line)
  BY DEF statement, Said
<1>3. ASSUME NEW k \in 1 .. n, source[line][k].type = "LABEL"
      PROVE  k \in LabelsOf(Tokens(line)) /\ Tokens(line)[k].name = source[line][k].name
  <2>1. k <= m
    <3>1. SUFFICES ASSUME k > m
                   PROVE  FALSE
      BY <1>1
    <3>2. PICK j \in 1 .. n - m : k = m + j
      <4>1. k - m \in 1 .. n - m /\ k = m + (k - m)
        BY <1>1, <3>1
      <4> QED BY <4>1
    <3>3. Said(line)[j].type = "LABEL"
      BY <1>1, <1>3, <3>2
    <3>4. Said(line) # <<>> /\ n - m \in Nat
      BY <1>1, <3>2
    <3>5. /\ Head(Said(line)).type \in {"INSTRUCTION", "MACRO"}
          /\ \A i \in 2 .. Len(Said(line)) : Said(line)[i].type \in ARGUMENT_TYPES
      BY <1>2, <3>4 DEF Parses
    <3>6. Head(Said(line)) = Said(line)[1]
      BY <3>4, SaidTokens
    <3>7. CASE j = 1
      BY <3>3, <3>5, <3>6, <3>7
    <3>8. CASE j # 1
      <4>1. j \in 2 .. Len(Said(line))
        BY <1>1, <3>2, <3>8
      <4>2. Said(line)[j].type \in ARGUMENT_TYPES
        BY <3>5, <4>1
      <4> QED BY <3>3, <4>2 DEF ARGUMENT_TYPES, OperandTypes, LABEL_REFERENCE_TYPES
    <3> QED BY <3>7, <3>8
  <2>2. k \in 1 .. m
    BY <2>1
  <2> QED BY <1>1, <1>3, <2>2
<1>4. PICK name : name = LabelName(t)
  OBVIOUS
<1>5. labels_here[name] = IF \E k \in LabelsOf(Tokens(line)) : Tokens(line)[k].name = name
                          THEN opcode_pos ELSE labels[name]
  BY <1>4 DEF labels_here
<1>6. CASE t[1] = line
  <2>1. t[2] \in 1 .. n /\ source[line][t[2]].type = "LABEL" /\ name = source[line][t[2]].name
    BY <1>1, <1>4, <1>6, LabelTokenIs DEF LabelName
  <2>2. t[2] \in LabelsOf(Tokens(line)) /\ Tokens(line)[t[2]].name = name
    BY <1>3, <2>1
  <2>3. labels_here[name] = opcode_pos
    BY <1>5, <2>2
  <2> QED BY <1>4, <1>6, <2>3
<1>7. CASE t[1] # line
  <2>1. ASSUME NEW k \in LabelsOf(Tokens(line)), Tokens(line)[k].name = name
        PROVE  FALSE
    <3>1. k \in 1 .. n /\ Tokens(line)[k].type = "LABEL"
      BY <1>1, <2>1 DEF LabelsOf
    <3>2. source[line][k].type = "LABEL" /\ source[line][k].name = name
      BY <1>1, <2>1, <3>1
    <3>3. << line, k >> \in LabelTokens
      BY <1>1, <3>1, <3>2, LabelTokenIs
    <3>4. LabelName(<< line, k >>) = name
      BY <3>2 DEF LabelName
    <3>5. << line, k >> = t
      BY <1>4, <3>3, <3>4
    <3> QED BY <1>7, <3>5
  <2>2. labels_here[name] = labels[name]
    BY <1>5, <2>1
  <2> QED BY <1>4, <1>7, <2>2
<1> QED BY <1>6, <1>7

-----------------------------------------------------------------------------
(* Nothing of this changes while a source is assembled *)

\* What the lines say.
LEMMA SameSaid ==
  ASSUME source' = source, NEW n, NEW names
  PROVE  /\ Said(n)' = Said(n)
         /\ Says(n, names)' <=> Says(n, names)
         /\ IsCode(n)' <=> IsCode(n)
         /\ CodeName(n)' = CodeName(n)
  BY DEF Says, IsCode, CodeName, Said, Tokens

\* What names stand for.
LEMMA SameVariable ==
  ASSUME source' = source, NEW n, NEW name
  PROVE  Variable(n, name)' = Variable(n, name)
  BY DEF Variable, NameOf, LiteralOf, CopiedFrom, SlotPlace, DeclaredBytes, SizeOf, DefinitionLines,
         ConstLines, Declared, EntersOf, Says, Said, Tokens

\* What arguments stand for.
LEMMA SameSub ==
  ASSUME source' = source, NEW arg, NEW n
  PROVE  Sub(arg, n)' = Sub(arg, n)
  BY SameVariable DEF Sub

\* The operands.
LEMMA SameOperand ==
  ASSUME source' = source, NEW n, NEW k, NEW dist
  PROVE  CodeOperand(n, k, dist)' = CodeOperand(n, k, dist)
<1>1. \A m, names : Said(m)' = Said(m)
  BY SameSaid
<1> QED BY <1>1, SameVariable, SameSub DEF CodeOperand

\* The bytes of the lines.
LEMMA SameBytes ==
  ASSUME source' = source, NEW n, NEW dist
  PROVE  LineBytes(n, dist)' = LineBytes(n, dist)
<1>1. /\ \A m : Said(m)' = Said(m) /\ CodeName(m)' = CodeName(m)
      /\ \A m : IsCode(m)' <=> IsCode(m)
      /\ \A m, names : Says(m, names)' <=> Says(m, names)
  BY SameSaid
<1>2. CodeBytes(n, dist)' = CodeBytes(n, dist)
  BY <1>1, SameOperand DEF CodeBytes
<1>3. DataBytes(n)' = DataBytes(n)
  BY <1>1, SameSub DEF DataBytes
<1> QED BY <1>1, <1>2, <1>3 DEF LineBytes

\* Where the lines are.
LEMMA SamePositions ==
  ASSUME source' = source
  PROVE  Positions' = Positions /\ \A n : LineLength(n)' = LineLength(n)
<1>1. \A n : LineLength(n)' = LineLength(n)
  BY SameBytes DEF LineLength
<1>2. \A P, n : IsLayout(P, n)' <=> IsLayout(P, n)
  BY <1>1 DEF IsLayout
<1>3. Positions' = Positions
  BY <1>2 DEF Positions
<1> QED BY <1>1, <1>3

\* The words that are labels.
LEMMA SameLabels ==
  ASSUME source' = source
  PROVE  LabelTokens' = LabelTokens /\ \A t : LabelName(t)' = LabelName(t)
  BY DEF LabelTokens, LabelName

\* And whether there are words that cannot be tokenized.
LEMMA SameTokenize ==
  ASSUME source' = source
  PROVE  AllTokenize' <=> AllTokenize
  BY DEF AllTokenize

\* What is defined in front of a line.
LEMMA SameEnv ==
  ASSUME source' = source, NEW n, NEW c, NEW s
  PROVE  Env(n, c, s)' <=> Env(n, c, s)
<1>1. /\ \A m : Said(m)' = Said(m)
      /\ \A m, names : Says(m, names)' <=> Says(m, names)
  BY SameSaid
<1>2. LiteralOf' = LiteralOf
  BY DEF LiteralOf, CopiedFrom, Says, Said, Tokens
<1>3. /\ ConstLines(n)' = ConstLines(n) /\ EntersOf(n)' = EntersOf(n)
      /\ \A names : Declared(n, names)' = Declared(n, names)
  BY DEF ConstLines, Declared, EntersOf, Says, Said, Tokens
<1>4. \A j, names : DeclaredBytes(n, j, names)' = DeclaredBytes(n, j, names)
  BY DEF DeclaredBytes, SizeOf, Declared, EntersOf, Says, Said, Tokens
<1>5. \A d : NameOf(d)' = NameOf(d) /\ KindOf(d)' = KindOf(d) /\ SizeOf(d)' = SizeOf(d)
  BY <1>1 DEF NameOf, KindOf, SizeOf
<1>6. DefinitionLines(n)' = DefinitionLines(n)
  BY <1>3 DEF DefinitionLines
<1>7. ScopeOf(n, s)' <=> ScopeOf(n, s)
  BY <1>1, <1>3, <1>4, <1>5 DEF ScopeOf, GoodScope
<1>8. (\A d, e \in DefinitionLines(n) : NameOf(d) = NameOf(e) => d = e)'
         <=> \A d, e \in DefinitionLines(n) : NameOf(d) = NameOf(e) => d = e
  BY <1>5, <1>6
<1>9. /\ (DOMAIN c = {NameOf(d) : d \in ConstLines(n)})'
             <=> DOMAIN c = {NameOf(d) : d \in ConstLines(n)}
      /\ (\A d \in ConstLines(n) :
            /\ c[NameOf(d)] = LiteralOf[d]
            /\ LiteralOf[d].type \in LiteralTypes /\ GoodToken(LiteralOf[d]))'
             <=> \A d \in ConstLines(n) :
                    /\ c[NameOf(d)] = LiteralOf[d]
                    /\ LiteralOf[d].type \in LiteralTypes /\ GoodToken(LiteralOf[d])
  BY <1>2, <1>3, <1>5 DEF GoodToken
<1>10. (IF EntersOf(n) = {} THEN s = NoScope ELSE ScopeOf(n, s))'
          <=> IF EntersOf(n) = {} THEN s = NoScope ELSE ScopeOf(n, s)
  BY <1>3, <1>7
<1> QED BY <1>8, <1>9, <1>10, Zenon DEF Env

\* What a line in the second pass has become.
LEMMA SameGoodLine ==
  ASSUME source' = source, labels' = labels, NEW n, NEW bytes, NEW dist
  PROVE  GoodLine(n, bytes, dist)' <=> GoodLine(n, bytes, dist)
<1>1. /\ \A m : Said(m)' = Said(m) /\ CodeName(m)' = CodeName(m)
      /\ \A m : IsCode(m)' <=> IsCode(m)
      /\ \A m, names : Says(m, names)' <=> Says(m, names)
  BY SameSaid
<1>2. LiteralOf' = LiteralOf
  BY DEF LiteralOf, CopiedFrom, Says, Said, Tokens
<1>3. /\ \A i, name : Definitions(i, name)' = Definitions(i, name)
      /\ \A i, d : SlotOffset(i, d)' = SlotOffset(i, d)
  BY DEF Definitions, SlotOffset, BytesUpTo, SizeOf, Scoped, EntersOf, Says, Said, Tokens
<1>4. \A d : SizeOf(d)' = SizeOf(d)
  BY <1>1 DEF SizeOf
<1>5. \A op, name, i : VariableMeant(op, name, i)' <=> VariableMeant(op, name, i)
  BY <1>1, <1>2, <1>3, <1>4 DEF VariableMeant
<1>6. \A op, arg, i : ArgumentMeant(op, arg, i, dist)' <=> ArgumentMeant(op, arg, i, dist)
  BY <1>5 DEF ArgumentMeant
<1>7. \A i, k : CodeOperand(i, k, dist)' = CodeOperand(i, k, dist)
  BY SameOperand
<1>8. GoodCode(n, dist)' <=> GoodCode(n, dist)
  BY <1>1, <1>6, <1>7 DEF GoodCode
<1> QED BY <1>1, <1>8, SameBytes, SamePositions DEF GoodLine

-----------------------------------------------------------------------------
(* The two passes *)

\* Every label has the position of its line: in the first pass from this line on.
LabelsPlaced ==
    /\ \A t, u \in LabelTokens : LabelName(t) = LabelName(u) => t = u
    /\ labels \in [{LabelName(t) : t \in LabelTokens} -> Nat]
    /\ \A t \in LabelTokens :
          labels[LabelName(t)] = IF pass = 2 \/ t[1] < line THEN Positions[t[1]] ELSE 0

\* The distances of the labels from line i.
DistancesFrom(i) == [name \in DOMAIN labels |-> labels[name] - Positions[i]]

\* A line that has been parsed in this pass.
Placed(i) ==
    /\ augmented_opcode[i] \in [pos : Int, bytes : Seq(Int)]
    /\ Position(i) = Positions[i] /\ Len(augmented_opcode[i].bytes) = LineLength(i)
    /\ \A k \in 1 .. LineLength(i) : opcode[Positions[i] + k] = augmented_opcode[i].bytes[k]
    /\ pass = 2 => GoodLine(i, augmented_opcode[i].bytes, DistancesFrom(i))

\* What a pass has made of the lines in front of this one.
Generated ==
    /\ AllTokenize /\ LabelsPlaced
    /\ pass \in {1, 2} /\ line \in 1 .. Len(source) + 1
    /\ Env(line, consts, current_scope)
    /\ opcode \in Seq(Int) /\ Len(opcode) = Positions[line]
    /\ augmented_opcode \in Seq([pos : Int, bytes : Seq(Int)])
    /\ Len(augmented_opcode) = line - 1
    /\ \A i \in 1 .. line - 1 : Placed(i)

AssemblerInv ==
    /\ files \in Seq(Sources) /\ source \in Sources
    /\ phase \in {"assembled", "collect", "generate", "error"}
    /\ phase = "collect" => pass = 0 /\ AllTokenize
    /\ phase = "generate" => Generated
    /\ phase = "assembled" =>
          \/ pass = 0 /\ source = <<>> /\ opcode = <<>>
          \/ Generated /\ pass = 2 /\ line = Len(source) + 1

\* The invariant is what the lemmas about lines ask for.
LEMMA GeneratedParsing ==
  ASSUME AssemblerInv, Generating
  PROVE  /\ Parsing /\ Generated /\ source \in Sources
         /\ IsLayout(Positions, Len(source)) /\ Len(source) \in Nat /\ line \in 1 .. Len(source)
<1>1. source \in Sources /\ line \in DOMAIN source /\ Generated
  BY DEF AssemblerInv, Generating
<1>2. Len(source) \in Nat /\ line \in 1 .. Len(source)
  <2>1. PICK S : source \in Seq(S)
    BY <1>1 DEF Sources
  <2> QED BY <1>1, <2>1
<1>3. IsLayout(Positions, Len(source))
  BY <1>1, LayoutExists
<1>4. labels \in [DOMAIN labels -> Int]
  <2>1. PICK N : labels \in [N -> Nat]
    BY <1>1 DEF Generated, LabelsPlaced
  <2> QED BY <2>1
<1> QED BY <1>1, <1>2, <1>3, <1>4 DEF Parsing, Generated

\* What happens to the labels when a line is parsed.
LEMMA LabelsStep ==
  ASSUME AssemblerInv, Generating, Parses(statement)
  PROVE  /\ labels_here \in [{LabelName(t) : t \in LabelTokens} -> Nat]
         /\ \A t \in LabelTokens :
               labels_here[LabelName(t)]
                   = IF pass = 2 \/ t[1] < line + 1 THEN Positions[t[1]] ELSE 0
         /\ pass = 2 => labels_here = labels /\ Distances = DistancesFrom(line)
<1>1. PICK N : /\ N = {LabelName(t) : t \in LabelTokens} /\ labels \in [N -> Nat]
               /\ DOMAIN labels = N
  BY GeneratedParsing DEF Generated, LabelsPlaced
<1>2. opcode_pos \in Nat /\ opcode_pos = Positions[line]
  BY GeneratedParsing DEF Generated, opcode_pos
<1>3. labels_here \in [N -> Nat]
  BY <1>1, <1>2 DEF labels_here
<1>4. ASSUME NEW t \in LabelTokens
      PROVE  /\ labels_here[LabelName(t)] = IF t[1] = line THEN Positions[line]
                                            ELSE labels[LabelName(t)]
             /\ labels[LabelName(t)] = IF pass = 2 \/ t[1] < line THEN Positions[t[1]] ELSE 0
             /\ t[1] \in Nat
  <2>1. LabelName(t) \in DOMAIN labels
    BY <1>1
  <2>2. labels_here[LabelName(t)] = IF t[1] = line THEN opcode_pos ELSE labels[LabelName(t)]
    BY <2>1, GeneratedParsing, LabelsHere DEF Generated, LabelsPlaced, Parsing
  <2>3. labels[LabelName(t)] = IF pass = 2 \/ t[1] < line THEN Positions[t[1]] ELSE 0
    BY GeneratedParsing DEF Generated, LabelsPlaced
  <2>4. t[1] \in DOMAIN source
    BY LabelTokenIs
  <2>5. t[1] \in Nat
    <3>1. PICK S : source \in Seq(S)
      BY GeneratedParsing DEF Sources
    <3> QED BY <2>4, <3>1
  <2> QED BY <1>2, <2>2, <2>3, <2>5
<1>5. line \in Nat
  BY GeneratedParsing
<1>6. ASSUME NEW t \in LabelTokens
      PROVE  labels_here[LabelName(t)]
                   = IF pass = 2 \/ t[1] < line + 1 THEN Positions[t[1]] ELSE 0
  <2>1. CASE t[1] = line
    BY <1>4, <1>5, <2>1
  <2>2. CASE t[1] # line
    BY <1>4, <1>5, <2>2
  <2> QED BY <2>1, <2>2
<1>7. ASSUME pass = 2
      PROVE  labels_here = labels /\ Distances = DistancesFrom(line)
  <2>1. \A t \in LabelTokens : labels_here[LabelName(t)] = labels[LabelName(t)]
    BY <1>4, <1>6, <1>7
  <2>2. \A name \in N : labels_here[name] = labels[name]
    BY <1>1, <2>1
  <2>3. labels_here = labels
    BY <1>1, <1>3, <2>2
  <2> QED BY <1>2, <2>3 DEF Distances, DistancesFrom
<1> QED BY <1>1, <1>3, <1>6, <1>7

\* No line begins before another has ended.
LEMMA LinesApart ==
  ASSUME NEW n \in Nat, NEW P, IsLayout(P, n), NEW i \in 1 .. n, NEW j \in 1 .. n + 1, i < j
  PROVE  P[i] + LineLength(i) <= P[j]
<1>1. \A k \in 1 .. n : LineLength(k) \in Nat /\ P[k + 1] = P[k] + LineLength(k)
  BY DEF LineLength, IsLayout
<1>2. \A k \in 1 .. n + 1 : P[k] \in Nat
  BY DEF IsLayout
<1> DEFINE S == {d \in Nat : i + 1 + d <= n + 1 => P[i + 1] <= P[i + 1 + d]}
<1>3. 0 \in S
  <2>1. i + 1 \in 1 .. n + 1 /\ i + 1 + 0 = i + 1
    OBVIOUS
  <2>2. P[i + 1] \in Nat
    BY <1>2, <2>1
  <2> QED BY <2>1, <2>2
<1>4. ASSUME NEW d \in Nat, d \in S
      PROVE  d + 1 \in S
  <2>1. SUFFICES ASSUME i + 1 + (d + 1) <= n + 1
                 PROVE  P[i + 1] <= P[i + 1 + (d + 1)]
    OBVIOUS
  <2>2. i + 1 + d <= n + 1
    BY <2>1
  <2>3. P[i + 1] <= P[i + 1 + d]
    BY <1>4, <2>2
  <2> HIDE DEF S
  <2>4. PICK m \in 1 .. n : m = i + 1 + d /\ m + 1 = i + 1 + (d + 1)
    BY <2>1
  <2>5. P[m + 1] = P[m] + LineLength(m) /\ LineLength(m) \in Nat
    BY <1>1
  <2>6. P[m] \in Nat /\ P[i + 1] \in Nat
    <3>1. m \in 1 .. n + 1 /\ i + 1 \in 1 .. n + 1
      OBVIOUS
    <3> QED BY <1>2, <3>1
  <2> QED BY <2>3, <2>4, <2>5, <2>6
<1>5. PICK d \in Nat : d = j - i - 1 /\ i + 1 + d = j
  <2>1. j - i - 1 \in Nat /\ i + 1 + (j - i - 1) = j
    OBVIOUS
  <2> QED BY <2>1
<1>6. d \in S
  <2> HIDE DEF S
  <2>1. Nat \subseteq S
    BY <1>3, <1>4, Induction
  <2> QED BY <2>1
<1>7. P[i + 1] <= P[j]
  BY <1>5, <1>6
<1> HIDE DEF S
<1> QED BY <1>1, <1>7

\* The opcode with the bytes of one more line.
LEMMA LinePlaced ==
  ASSUME AssemblerInv, Generating, NEW bytes, GoodLine(line, bytes, Distances),
         Parses(statement), Emit(bytes)
  PROVE  /\ opcode' \in Seq(Int) /\ Len(opcode') = Positions[line + 1]
         /\ augmented_opcode' \in Seq([pos : Int, bytes : Seq(Int)])
         /\ Len(augmented_opcode') = line
         /\ \A i \in 1 .. line : Placed(i)'
<1>1. /\ IsLayout(Positions, Len(source)) /\ Len(source) \in Nat /\ line \in 1 .. Len(source)
      /\ line \in Nat
  BY GeneratedParsing
<1>2. PICK o, a : o = opcode /\ a = augmented_opcode
  OBVIOUS
<1>3. /\ o \in Seq(Int) /\ Len(o) = Positions[line]
      /\ a \in Seq([pos : Int, bytes : Seq(Int)]) /\ Len(a) = line - 1
      /\ \A i \in 1 .. line - 1 : Placed(i)
  BY <1>2, GeneratedParsing DEF Generated
<1>4. PICK l \in Nat : l = LineLength(line) /\ Len(bytes) = l /\ bytes \in Seq(Int)
  BY DEF GoodLine
<1>5. /\ opcode' = o \o bytes /\ augmented_opcode' = Append(a, [pos |-> Len(o), bytes |-> bytes])
      /\ source' = source /\ labels' = labels_here /\ pass' = pass
  BY <1>2 DEF Emit, opcode_pos
<1>6. PICK p \in Nat : p = Positions[line] /\ p = Len(o)
  BY <1>3
<1>7. Positions[line + 1] = p + l
  BY <1>1, <1>4, <1>6 DEF IsLayout
<1>8. /\ o \o bytes \in Seq(Int) /\ Len(o \o bytes) = p + l
      /\ \A k \in 1 .. p : (o \o bytes)[k] = o[k]
      /\ \A k \in 1 .. l : (o \o bytes)[p + k] = bytes[k]
  <2>1. o \in Seq(Int) /\ bytes \in Seq(Int) /\ Len(o) = p /\ Len(bytes) = l
    BY <1>3, <1>4, <1>6
  <2>2. /\ o \o bytes \in Seq(Int) /\ Len(o \o bytes) = Len(o) + Len(bytes)
        /\ \A k \in 1 .. Len(o) : (o \o bytes)[k] = o[k]
        /\ \A k \in 1 .. Len(bytes) : (o \o bytes)[Len(o) + k] = bytes[k]
    BY <2>1, Concatenated
  <2> QED BY <2>1, <2>2
<1>9. PICK part \in [pos : Int, bytes : Seq(Int)] :
        part = [pos |-> Len(o), bytes |-> bytes] /\ part.pos = p /\ part.bytes = bytes
  <2>1. PICK part : part = [pos |-> Len(o), bytes |-> bytes]
    OBVIOUS
  <2>2. part \in [pos : Int, bytes : Seq(Int)] /\ part.pos = p /\ part.bytes = bytes
    BY <1>4, <1>6, <2>1
  <2> QED BY <2>1, <2>2
<1>10. /\ Append(a, part) \in Seq([pos : Int, bytes : Seq(Int)]) /\ Len(Append(a, part)) = line
       /\ \A i \in 1 .. line - 1 : Append(a, part)[i] = a[i]
       /\ Append(a, part)[line] = part
  BY <1>1, <1>3
<1>11. /\ Positions' = Positions /\ \A n : LineLength(n)' = LineLength(n)
  BY <1>5, SamePositions
<1>12. pass = 2 => labels' = labels /\ Distances = DistancesFrom(line)
  BY <1>5, LabelsStep
<1>13. ASSUME pass = 2, NEW i
       PROVE  DistancesFrom(i)' = DistancesFrom(i)
  BY <1>11, <1>12, <1>13 DEF DistancesFrom
<1>14. ASSUME NEW i \in 1 .. line - 1
       PROVE  Placed(i)'
  <2>1. Placed(i)
    BY <1>3
  <2>2. augmented_opcode'[i] = augmented_opcode[i]
    BY <1>2, <1>5, <1>9, <1>10
  <2>3. PICK b, q, n : b = augmented_opcode[i].bytes /\ q = Positions[i] /\ n = LineLength(i)
    OBVIOUS
  <2>4. /\ q \in Nat /\ n \in Nat /\ q + n <= p
    <3>1. i \in 1 .. Len(source) /\ i \in 1 .. Len(source) + 1 /\ line \in 1 .. Len(source) + 1
          /\ i < line
      BY <1>1
    <3>2. Positions[i] \in Nat
      BY <1>1, <3>1 DEF IsLayout
    <3>3. LineLength(i) \in Nat
      BY DEF LineLength
    <3>4. Positions[i] + LineLength(i) <= Positions[line]
      BY <1>1, <3>1, LinesApart
    <3> QED BY <1>6, <2>3, <3>2, <3>3, <3>4
  <2>5. \A k \in 1 .. n : o[q + k] = b[k]
    BY <1>2, <2>1, <2>3 DEF Placed
  <2>6. \A k \in 1 .. n : opcode'[q + k] = b[k]
    <3>1. \A k \in 1 .. n : q + k \in 1 .. p
      BY <2>4
    <3> QED BY <1>5, <1>8, <2>5, <3>1
  <2>7. pass' = 2 => GoodLine(i, b, DistancesFrom(i))'
    <3>1. SUFFICES ASSUME pass = 2
                   PROVE  GoodLine(i, b, DistancesFrom(i))'
      BY <1>5
    <3>2. PICK dist : dist = DistancesFrom(i)
      OBVIOUS
    <3>3. GoodLine(i, b, dist)
      BY <2>1, <2>3, <3>1, <3>2 DEF Placed
    <3>4. GoodLine(i, b, dist)'
      BY <1>5, <1>12, <3>1, <3>3, SameGoodLine
    <3> QED BY <1>13, <3>1, <3>2, <3>4
  <2> QED BY <1>11, <2>1, <2>2, <2>3, <2>6, <2>7 DEF Placed, Position
<1>15. ASSUME NEW i, i = line
       PROVE  Placed(i)'
  <2>1. augmented_opcode'[i] = part
    BY <1>5, <1>9, <1>10, <1>15
  <2>2. \A k \in 1 .. l : opcode'[p + k] = bytes[k]
    BY <1>5, <1>8
  <2>3. pass' = 2 => GoodLine(i, bytes, DistancesFrom(i))'
    <3>1. SUFFICES ASSUME pass = 2
                   PROVE  GoodLine(i, bytes, DistancesFrom(i))'
      BY <1>5
    <3>2. PICK dist : dist = DistancesFrom(i)
      OBVIOUS
    <3>3. GoodLine(i, bytes, dist)
      BY <1>12, <1>15, <3>1, <3>2
    <3>4. GoodLine(i, bytes, dist)'
      BY <1>5, <1>12, <3>1, <3>3, SameGoodLine
    <3> QED BY <1>13, <3>1, <3>2, <3>4
  <2>4. /\ Positions'[i] = p /\ LineLength(i)' = l
    BY <1>4, <1>6, <1>11, <1>15
  <2> QED BY <1>4, <1>9, <2>1, <2>2, <2>3, <2>4 DEF Placed, Position
<1>16. ASSUME NEW i \in 1 .. line
       PROVE  Placed(i)'
  <2>1. CASE i = line
    BY <1>15, <2>1
  <2>2. CASE i # line
    <3>1. i \in 1 .. line - 1
      BY <1>1, <2>2
    <3> QED BY <1>14, <3>1
  <2> QED BY <2>1, <2>2
<1> QED BY <1>5, <1>7, <1>8, <1>9, <1>10, <1>16

\* A line is behind the program.
LEMMA LineStep ==
  ASSUME AssemblerInv, Generating, Parses(statement), NEW bytes,
         GoodLine(line, bytes, Distances), Emit(bytes),
         Env(line + 1, consts', current_scope')
  PROVE  AssemblerInv'
<1>1. /\ source' = source /\ files' = files /\ phase' = phase /\ phase = "generate"
      /\ labels' = labels_here /\ pass' = pass /\ line' = line + 1
  BY DEF Emit, Generating
<1>2. /\ Len(source) \in Nat /\ line \in 1 .. Len(source) /\ Generated /\ source \in Sources
      /\ files \in Seq(Sources)
  BY GeneratedParsing DEF AssemblerInv
<1>3. AllTokenize'
  BY <1>1, <1>2, SameTokenize DEF Generated
<1>4. LabelsPlaced'
  <2>1. /\ LabelTokens' = LabelTokens /\ \A t : LabelName(t)' = LabelName(t)
    <3>1. source' = source
      BY <1>1
    <3> QED BY <3>1, SameLabels
  <2>2. Positions' = Positions
    BY <1>1, SamePositions
  <2>3. /\ \A t, u \in LabelTokens : LabelName(t) = LabelName(u) => t = u
    BY <1>2 DEF Generated, LabelsPlaced
  <2>4. /\ labels_here \in [{LabelName(t) : t \in LabelTokens} -> Nat]
        /\ \A t \in LabelTokens :
               labels_here[LabelName(t)]
                   = IF pass = 2 \/ t[1] < line + 1 THEN Positions[t[1]] ELSE 0
    BY LabelsStep
  <2> QED BY <1>1, <2>1, <2>2, <2>3, <2>4 DEF LabelsPlaced
<1>5. pass' \in {1, 2} /\ line' \in 1 .. Len(source') + 1
  BY <1>1, <1>2 DEF Generated
<1>6. Env(line, consts, current_scope)'
  <2>1. PICK n, c, s : n = line' /\ c = consts' /\ s = current_scope'
    OBVIOUS
  <2>2. Env(n, c, s)'
    BY <1>1, <2>1, SameEnv
  <2> QED BY <2>1, <2>2
<1>7. /\ opcode' \in Seq(Int) /\ Len(opcode') = Positions'[line']
      /\ augmented_opcode' \in Seq([pos : Int, bytes : Seq(Int)])
      /\ Len(augmented_opcode') = line' - 1
      /\ \A i \in 1 .. line' - 1 : Placed(i)'
  <2>1. Positions' = Positions
    BY <1>1, SamePositions
  <2>2. line' - 1 = line
    BY <1>1, <1>2
  <2> QED BY <1>1, <2>1, <2>2, LinePlaced
<1>8. Generated'
  BY <1>3, <1>4, <1>5, <1>6, <1>7 DEF Generated
<1> QED BY <1>1, <1>2, <1>8 DEF AssemblerInv

\* A pass begins.
LEMMA PassBegins ==
  ASSUME source \in Sources, source' = source, AllTokenize, LabelsPlaced', NEW n \in {1, 2},
         BeginPass(n)
  PROVE  Generated'
<1>1. /\ pass' = n /\ line' = 1 /\ opcode' = <<>> /\ augmented_opcode' = <<>>
      /\ consts' = NoNames /\ current_scope' = NoScope
  BY DEF BeginPass
<1>2. Positions'[1] = 0 /\ Len(source') \in Nat
  BY LayoutExists, SamePositions DEF IsLayout, Sources
<1>3. Env(line, consts, current_scope)'
  <2>1. PICK i, c, s : i = line' /\ c = consts' /\ s = current_scope'
    OBVIOUS
  <2>2. i = 1 /\ c = NoNames /\ s = NoScope
    BY <1>1, <2>1
  <2>3. Env(i, c, s)
    BY <2>2, EnvFirst
  <2>4. Env(i, c, s)'
    BY <2>3, SameEnv
  <2> QED BY <2>1, <2>4
<1>4. AllTokenize'
  BY SameTokenize
<1> QED BY <1>1, <1>2, <1>3, <1>4 DEF Generated

\* Nothing happens to what has been generated.
LEMMA SameGenerated ==
  ASSUME Generated,
         UNCHANGED <<source, pass, line, labels, opcode, augmented_opcode, consts, current_scope>>
  PROVE  Generated'
<1>1. /\ source' = source /\ pass' = pass /\ line' = line /\ labels' = labels /\ opcode' = opcode
      /\ augmented_opcode' = augmented_opcode /\ consts' = consts
      /\ current_scope' = current_scope
  OBVIOUS
<1>2. LabelsPlaced' /\ AllTokenize'
  BY <1>1, SameLabels, SameTokenize, SamePositions DEF Generated, LabelsPlaced
<1>3. Env(line, consts, current_scope)'
  <2>1. PICK i, c, s : i = line /\ c = consts /\ s = current_scope
    OBVIOUS
  <2>2. Env(i, c, s)'
    BY <1>1, <2>1, SameEnv DEF Generated
  <2> QED BY <1>1, <2>1, <2>2
<1>4. ASSUME NEW i \in 1 .. line - 1
      PROVE  Placed(i)'
  <2>1. PICK dist, part : dist = DistancesFrom(i) /\ part = augmented_opcode[i]
    OBVIOUS
  <2>2. dist = DistancesFrom(i)'
    BY <1>1, <2>1, SamePositions DEF DistancesFrom
  <2>3. GoodLine(i, part.bytes, dist)' <=> GoodLine(i, part.bytes, dist)
    BY <1>1, SameGoodLine
  <2>4. Positions' = Positions /\ LineLength(i)' = LineLength(i)
    BY <1>1, SamePositions
  <2>5. Placed(i)
    BY DEF Generated
  <2> QED BY <1>1, <2>1, <2>2, <2>3, <2>4, <2>5 DEF Placed, Position
<1>5. Positions' = Positions
  BY <1>1, SamePositions
<1> QED BY <1>1, <1>2, <1>3, <1>4, <1>5 DEF Generated

\* The steps of a pass.
LEMMA LineInv ==
  ASSUME AssemblerInv, EmptyLine \/ Instruction \/ InsertData \/ DefineConst \/ Declare
  PROVE  AssemblerInv'
<1>1. CASE EmptyLine
  <2>1. Generating /\ statement = <<>> /\ Emit(<<>>) /\ UNCHANGED <<consts, current_scope>>
    BY <1>1 DEF EmptyLine
  <2>2. Parsing /\ Parses(statement)
    BY <2>1, GeneratedParsing DEF Parses
  <2>3. GoodLine(line, <<>>, Distances) /\ Env(line + 1, consts, current_scope)
    BY <2>1, <2>2, EmptyGood
  <2>4. Env(line + 1, consts', current_scope')
    BY <2>1, <2>3
  <2> QED BY <2>1, <2>2, <2>3, <2>4, LineStep
<1>2. CASE Instruction
  <2>1. PICK name : name = Head(statement).name
    OBVIOUS
  <2>2. /\ Generating /\ Parses(statement) /\ statement # <<>>
        /\ Head(statement).type = "INSTRUCTION" /\ InstructionOk(name)
        /\ Emit(InstructionOpcode(name)) /\ current_scope' = ScopeAfter(name) /\ consts' = consts
    BY <1>2, <2>1 DEF Instruction, LineIs
  <2>3. Parsing
    BY <2>2, GeneratedParsing
  <2>4. /\ GoodLine(line, InstructionOpcode(name), Distances)
        /\ Env(line + 1, consts, ScopeAfter(name))
    BY <2>1, <2>2, <2>3, InstructionGood
  <2>5. PICK bytes : bytes = InstructionOpcode(name)
    OBVIOUS
  <2>6. Env(line + 1, consts', current_scope')
    BY <2>2, <2>4
  <2> QED BY <2>2, <2>4, <2>5, <2>6, LineStep
<1>3. CASE InsertData
  <2>1. PICK bytes : /\ Emit(bytes)
                     /\ \/ Head(statement).name = "DAT" /\ DatOk /\ bytes = DatOpcode
                        \/ Head(statement).name = "DATN" /\ DatnOk /\ bytes = DatnOpcode
    BY <1>3 DEF InsertData
  <2>2. /\ Generating /\ Parses(statement) /\ statement # <<>>
        /\ Head(statement).type = "MACRO" /\ consts' = consts /\ current_scope' = current_scope
    BY <1>3 DEF InsertData, LineIs
  <2>3. Parsing
    BY <2>2, GeneratedParsing
  <2>4. GoodLine(line, bytes, Distances) /\ Env(line + 1, consts, current_scope)
    BY <2>1, <2>2, <2>3, InsertDataGood
  <2>5. Env(line + 1, consts', current_scope')
    BY <2>2, <2>4
  <2> QED BY <2>1, <2>2, <2>4, <2>5, LineStep
<1>4. CASE DefineConst
  <2>1. /\ Generating /\ Parses(statement) /\ statement # <<>>
        /\ Head(statement).type = "MACRO" /\ Head(statement).name = "CONST" /\ ConstOk
        /\ Emit(<<>>) /\ current_scope' = current_scope
        /\ consts' = [name \in DOMAIN consts \union {args[1].name} |->
                         IF name = args[1].name THEN SubstituteVariable(args[2])
                         ELSE consts[name]]
    BY <1>4 DEF DefineConst, LineIs
  <2>2. Parsing
    BY <2>1, GeneratedParsing
  <2>3. GoodLine(line, <<>>, Distances) /\ Env(line + 1, consts', current_scope')
    BY <2>1, <2>2, DefineConstGood
  <2> QED BY <2>1, <2>3, LineStep
<1>5. CASE Declare
  <2>1. PICK name : name = Head(statement).name
    OBVIOUS
  <2>2. /\ Generating /\ Parses(statement) /\ statement # <<>>
        /\ Head(statement).type = "MACRO" /\ name \in DOMAIN Declarations /\ DeclarationOk(name)
        /\ Emit(DefaultOpcode(name)) /\ current_scope' = ScopeWithSlot(name) /\ consts' = consts
    BY <1>5, <2>1 DEF Declare, LineIs
  <2>3. Parsing
    BY <2>2, GeneratedParsing
  <2>4. /\ GoodLine(line, DefaultOpcode(name), Distances)
        /\ Env(line + 1, consts, ScopeWithSlot(name))
    BY <2>1, <2>2, <2>3, DeclareGood
  <2>5. PICK bytes : bytes = DefaultOpcode(name)
    OBVIOUS
  <2>6. Env(line + 1, consts', current_scope')
    BY <2>2, <2>4
  <2> QED BY <2>2, <2>4, <2>5, <2>6, LineStep
<1> QED BY <1>1, <1>2, <1>3, <1>4, <1>5

\* The invariant holds at first,
LEMMA AssemblerInit == Init => AssemblerInv
<1> SUFFICES ASSUME Init PROVE AssemblerInv
  OBVIOUS
<1>1. <<>> \in Sources
  BY DEF Sources
<1> QED BY <1>1, AssemblerAssumption DEF Init, AssemblerInv

\* and every step keeps it.
LEMMA AssemblerNext == AssemblerInv /\ [Next]_vars => AssemblerInv'
<1> SUFFICES ASSUME AssemblerInv, [Next]_vars
             PROVE  AssemblerInv'
  OBVIOUS
<1>1. CASE AssembleFile
  <2>1. /\ files # <<>> /\ files \in Seq(Sources)
        /\ source' = Head(files) /\ files' = Tail(files) /\ pass' = 0
    BY <1>1 DEF AssembleFile, AssemblerInv
  <2>2. source' \in Sources /\ files' \in Seq(Sources)
    BY <2>1
  <2>3. phase' \in {"collect", "error"} /\ (phase' = "collect" => AllTokenize')
    BY <1>1 DEF AssembleFile, AllTokenize
  <2> QED BY <2>1, <2>2, <2>3 DEF AssemblerInv
<1>2. CASE CollectLabels
  <2>1. /\ phase = "collect" /\ \A t, u \in LabelTokens : LabelName(t) = LabelName(u) => t = u
        /\ labels' = [name \in {LabelName(t) : t \in LabelTokens} |-> 0]
        /\ BeginPass(1) /\ phase' = "generate" /\ files' = files /\ source' = source
    BY <1>2 DEF CollectLabels
  <2>2. source \in Sources /\ AllTokenize /\ files \in Seq(Sources)
    BY <2>1 DEF AssemblerInv
  <2>3. LabelsPlaced'
    <3>1. source' = source /\ pass' = 1 /\ line' = 1
      BY <2>1 DEF BeginPass
    <3>2. /\ LabelTokens' = LabelTokens /\ \A t : LabelName(t)' = LabelName(t)
      BY <3>1, SameLabels
    <3>3. \A t \in LabelTokens : ~(t[1] < 1)
      <4>1. PICK S : source \in Seq(S)
        BY <2>2 DEF Sources
      <4> QED BY <4>1, LabelTokenIs
    <3>4. \A t \in LabelTokens : labels'[LabelName(t)] = 0
      BY <2>1
    <3>5. labels' \in [{LabelName(t) : t \in LabelTokens} -> Nat]
      BY <2>1
    <3> QED BY <2>1, <3>1, <3>2, <3>3, <3>4, <3>5 DEF LabelsPlaced
  <2>4. Generated'
    BY <2>1, <2>2, <2>3, PassBegins
  <2> QED BY <2>1, <2>2, <2>4 DEF AssemblerInv
<1>3. CASE LabelError \/ LineError
  <2>1. phase' = "error" /\ source' = source /\ files' = files
    BY <1>3 DEF LabelError, LineError
  <2> QED BY <2>1 DEF AssemblerInv
<1>4. CASE EmptyLine \/ Instruction \/ InsertData \/ DefineConst \/ Declare
  BY <1>4, LineInv
<1>5. CASE SecondPass
  <2>1. /\ phase = "generate" /\ line > Len(source) /\ pass = 1 /\ BeginPass(2)
        /\ files' = files /\ source' = source /\ phase' = phase /\ labels' = labels
    BY <1>5 DEF SecondPass
  <2>2. source \in Sources /\ files \in Seq(Sources) /\ Generated /\ AllTokenize
    BY <2>1 DEF AssemblerInv, Generated
  <2>3. LabelsPlaced'
    <3>1. source' = source /\ pass' = 2
      BY <2>1 DEF BeginPass
    <3>2. /\ LabelTokens' = LabelTokens /\ \A t : LabelName(t)' = LabelName(t)
      BY <3>1, SameLabels
    <3>3. Positions' = Positions
      BY <3>1, SamePositions
    <3>4. \A t \in LabelTokens : t[1] < line
      <4>1. PICK S : source \in Seq(S)
        BY <2>2 DEF Sources
      <4>2. line \in 1 .. Len(source) + 1
        BY <2>2 DEF Generated
      <4> QED BY <2>1, <4>1, <4>2, LabelTokenIs
    <3>5. LabelsPlaced
      BY <2>2 DEF Generated
    <3>6. \A t \in LabelTokens : labels[LabelName(t)] = Positions[t[1]]
      BY <3>4, <3>5 DEF LabelsPlaced
    <3> QED BY <2>1, <3>1, <3>2, <3>3, <3>5, <3>6 DEF LabelsPlaced
  <2>4. Generated'
    BY <2>1, <2>2, <2>3, PassBegins
  <2> QED BY <2>1, <2>2, <2>4 DEF AssemblerInv
<1>6. CASE Assembled
  <2>1. /\ phase = "generate" /\ line > Len(source) /\ pass = 2 /\ phase' = "assembled"
        /\ files' = files
        /\ UNCHANGED <<source, pass, line, labels, opcode, augmented_opcode, consts, current_scope>>
    BY <1>6 DEF Assembled
  <2>2. source \in Sources /\ files \in Seq(Sources) /\ Generated
    BY <2>1 DEF AssemblerInv
  <2>3. line = Len(source) + 1
    <3>1. PICK S : source \in Seq(S)
      BY <2>2 DEF Sources
    <3>2. line \in 1 .. Len(source) + 1
      BY <2>2 DEF Generated
    <3> QED BY <2>1, <3>1, <3>2
  <2>4. Generated'
    BY <2>1, <2>2, SameGenerated
  <2> QED BY <2>1, <2>2, <2>3, <2>4 DEF AssemblerInv
<1>7. CASE UNCHANGED vars
  <2>1. /\ phase' = phase /\ files' = files
        /\ UNCHANGED <<source, pass, line, labels, opcode, augmented_opcode, consts, current_scope>>
    BY <1>7 DEF vars
  <2>2. AllTokenize' <=> AllTokenize
    BY <2>1, SameTokenize
  <2>3. Generated => Generated'
    BY <2>1, SameGenerated
  <2> QED BY <2>1, <2>2, <2>3 DEF AssemblerInv
<1> QED BY <1>1, <1>2, <1>3, <1>4, <1>5, <1>6, <1>7 DEF Next

\* The labels have their addresses when the first pass ends: no line of the second pass
\* moves one.
THEOREM AssemblerLabelsSettled == Spec => LabelsSettled
<1>1. AssemblerInv /\ [Next]_vars => [pass = 2 /\ pass' = 2 => labels' = labels]_vars
  <2> SUFFICES ASSUME AssemblerInv, Next, pass = 2, pass' = 2
               PROVE  labels' = labels
    OBVIOUS
  <2>1. CASE AssembleFile \/ CollectLabels
    BY <2>1 DEF AssembleFile, CollectLabels, BeginPass
  <2>2. CASE LabelError \/ LineError \/ SecondPass \/ Assembled
    BY <2>2 DEF LabelError, LineError, SecondPass, Assembled
  <2>3. CASE EmptyLine \/ Instruction \/ InsertData \/ DefineConst \/ Declare
    <3>1. Generating /\ Parses(statement) /\ labels' = labels_here
      BY <2>3 DEF EmptyLine, Instruction, InsertData, DefineConst, Declare, Emit, LineIs, Parses
    <3> QED BY <3>1, LabelsStep
  <2> QED BY <2>1, <2>2, <2>3 DEF Next
<1> QED BY <1>1, AssemblerInit, AssemblerNext, PTL DEF Spec, LabelsSettled

-----------------------------------------------------------------------------
(* What the machine decodes *)

\* These operands have been found.
Decodes(parsed, ops, m) == parsed.ok /\ \A k \in 1 .. m : parsed.operands[k] = ops[k]

\* parse_operand_buffer finds any number of operands again, if all their bytes are in
\* the buffer.
LEMMA OperandsDecoded ==
  ASSUME NEW m \in Nat, NEW ops,
         \A k \in 1 .. m : IsOperand(ops[k]) /\ Encodable(ops[k]),
         NEW whole, whole = FlattenSeq([k \in 1 .. m |-> OperandOpcode(ops[k])]),
         NEW buffer \in Seq(Int), BeginsWith(buffer, whole), Len(whole) <= Len(buffer)
  PROVE  Decodes(ParseOperandBuffer(buffer, m), ops, m)
<1>1. PICK A : A = [k \in 1 .. m |-> OperandOpcode(ops[k])]
  OBVIOUS
<1>2. \A k \in 1 .. m : A[k] = OperandOpcode(ops[k]) /\ A[k] \in Seq(Int)
  BY <1>1, OpcodeOfOperand
<1>3. A \in Seq(Seq(Int)) /\ Len(A) = m
  BY <1>1, <1>2
<1>4. PICK F \in [0 .. m -> Seq(Int)] :
            /\ F[0] = <<>> /\ whole = F[m]
            /\ \A i \in 1 .. m : /\ Len(F[i]) = Len(F[i - 1]) + Len(A[i])
                                 /\ PartOf(A[i], whole, Len(F[i - 1]))
  BY <1>1, <1>3, PartsOfFlattened
<1>5. PICK P : /\ P[0] = Beginning
               /\ \A n \in 1 .. m : P[n] = Turn(buffer, P[n - 1])
               /\ ParseOperandBuffer(buffer, m) = P[m]
  BY ONLY m \in Nat, Turns
<1>6. whole \in Seq(Int)
  <2>1. m \in 0 .. m
    OBVIOUS
  <2> QED BY <1>4, <2>1
<1> DEFINE Good(n) == /\ P[n].ok /\ P[n].next = Len(F[n]) + 1
                      /\ P[n].operands \in Seq({ops[k] : k \in 1 .. m}) /\ Len(P[n].operands) = n
                      /\ \A k \in 1 .. n : P[n].operands[k] = ops[k]
           S == {n \in Nat : n <= m => Good(n)}
<1>7. 0 \in S
  <2>1. Good(0)
    <3>1. Len(F[0]) = 0 /\ P[0].ok /\ P[0].next = 1 /\ P[0].operands = <<>>
      BY <1>4, <1>5 DEF Beginning
    <3> QED BY <3>1
  <2> HIDE DEF Good
  <2> QED BY <2>1
<1>8. ASSUME NEW n \in Nat, n \in S PROVE n + 1 \in S
  <2>1. CASE n + 1 <= m
    <3>1. n <= m /\ n \in 0 .. m
      BY <2>1
    <3>2. Good(n)
      <4> HIDE DEF Good
      <4> QED BY <1>8, <3>1
    <3> HIDE DEF S
    <3>24. n \in Nat
      OBVIOUS
    <3>3. PICK j \in 1 .. m : j = n + 1 /\ j - 1 = n
      BY <2>1
    <3>4. PICK part \in Seq(Int) : part = A[j] /\ part = OperandOpcode(ops[j])
      BY <1>2
    <3>5. PICK before \in Nat : before = Len(F[n])
      BY <1>4, <3>1
    <3>6. PartOf(part, whole, before) /\ Len(F[j]) = before + Len(part)
      BY <1>4, <3>3, <3>4, <3>5
    <3>7. PICK idx \in Nat \ {0} : idx = before + 1
      OBVIOUS
    <3>8. Lies(part, buffer, idx)
      BY <1>6, <3>6, <3>7, PartLies
    <3>9. PICK p : p = P[n]
      OBVIOUS
    <3>10. p.ok /\ p.next = idx
      BY <3>2, <3>5, <3>7, <3>9
    <3>11. Behind(part, idx) = Len(F[j]) + 1 /\ Behind(part, idx) <= Len(buffer) + 1
      <4>1. PICK a \in Nat, b \in Nat, c \in Nat : a = Len(part) /\ b = Len(whole) /\ c = Len(buffer)
        BY ONLY part \in Seq(Int), buffer \in Seq(Int), <1>6
      <4>2. before + a <= b
        BY <3>6, <4>1 DEF PartOf
      <4>3. b <= c
        BY <4>1
      <4> QED BY <3>6, <3>7, <4>1, <4>2, <4>3 DEF Behind
    <3>12. PICK op : op = ops[j] /\ IsOperand(op) /\ Encodable(op) /\ part = OperandOpcode(op)
      BY <3>4
    <3>13. /\ Turn(buffer, p).ok
           /\ Turn(buffer, p).operands = Append(p.operands, op)
           /\ Turn(buffer, p).next = Behind(part, p.next)
      <4>1. p.next \in Nat \ {0} /\ Lies(part, buffer, p.next)
        BY <3>8, <3>10
      <4>2. Turn(buffer, p).ok \/ (p.ok /\ Behind(part, p.next) <= Len(buffer) + 1)
        BY <3>10, <3>11
      <4> QED BY <3>12, <4>1, <4>2, TurnOf
    <3>14. P[j] = Turn(buffer, p)
      BY <1>5, <3>3, <3>9
    <3>15. P[j].ok /\ P[j].next = Len(F[j]) + 1 /\ P[j].operands = Append(P[n].operands, ops[j])
      BY <3>9, <3>10, <3>11, <3>12, <3>13, <3>14
    <3>16. PICK V : V = {ops[k] : k \in 1 .. m}
      OBVIOUS
    <3>23. PICK found \in Seq(V) : found = P[n].operands
      BY <3>2, <3>16
    <3>17. Len(found) = n /\ (\A k \in 1 .. n : found[k] = ops[k]) /\ ops[j] \in V
      BY <3>2, <3>16, <3>23
    <3>18. PICK v \in V : v = ops[j]
      BY <3>17
    <3>19. /\ Append(found, v) \in Seq(V) /\ Len(Append(found, v)) = n + 1
           /\ \A k \in 1 .. n : Append(found, v)[k] = found[k]
           /\ Append(found, v)[n + 1] = v
      <4>1. Len(found) = n
        BY <3>17
      <4> QED BY ONLY n \in Nat, found \in Seq(V), v \in V, <4>1, AppendProperties
    <3>20. \A k \in 1 .. n + 1 : Append(found, v)[k] = ops[k]
      <4> TAKE k \in 1 .. n + 1
      <4>1. k = n + 1 \/ k \in 1 .. n
        OBVIOUS
      <4> QED BY <3>3, <3>17, <3>18, <3>19, <4>1
    <3>21. P[j].operands = Append(found, v)
      BY <3>15, <3>18, <3>23
    <3>22. Good(j)
      BY <3>3, <3>15, <3>16, <3>19, <3>20, <3>21
    <3> HIDE DEF Good
    <3> QED BY <3>3, <3>22 DEF S
  <2> HIDE DEF Good
  <2> QED BY <2>1
<1> HIDE DEF S
<1>9. m \in S
  BY <1>7, <1>8, Induction
<1>10. m <= m
  OBVIOUS
<1>11. P[m].ok /\ \A k \in 1 .. m : P[m].operands[k] = ops[k]
  BY <1>9, <1>10 DEF S
<1> QED BY <1>5, <1>11 DEF Decodes

\* A machine boots from the opcode of a source that the RAM has room for, and has it at
\* the beginning of its RAM.
LEMMA BootedCode ==
  ASSUME opcode \in Seq(Int), Len(opcode) <= RamSize
  PROVE  /\ Bootable(executable)
         /\ \A k \in 1 .. Len(opcode) : BootedRam(executable)[k - 1] = opcode[k]
         /\ \A pos \in RamAddresses : BootedRam(executable)[pos] \in Int
<1>1. /\ RamSize \in Nat /\ NumberOfInterrupts \in Nat
  BY MemoryAssumption, BootAssumption
<1>2. PICK exe : exe = Executable(1, opcode, <<>>)
  OBVIOUS
<1>3. Loadable(executable) /\ Loaded(executable) = exe
  <2>1. 1 \in Bytes
    BY SizesType DEF Bytes
  <2>2. <<>> \in Seq(Bytes) /\ Len(<<>>) = 0
    OBVIOUS
  <2>3. FixedLength + 0 \in Words
    <3>1. Len(Signature) + 3 \in Words /\ Len(Signature) \in Nat
      BY BootAssumption
    <3>2. Len(Signature) + 3 + 0 = Len(Signature) + 3
      BY <3>1
    <3> QED BY <3>1, <3>2 DEF FixedLength
  <2>4. PICK version, extra : version = 1 /\ extra = <<>>
    OBVIOUS
  <2>5. version \in Bytes /\ extra \in Seq(Bytes) /\ FixedLength + Len(extra) \in Words
    BY <2>1, <2>2, <2>3, <2>4
  <2>6. PICK e : e = Executable(version, opcode, extra)
    OBVIOUS
  <2>7. Loadable(File(e)) /\ Loaded(File(e)) = e
    BY <2>5, <2>6, ExecutableRoundTrip
  <2>8. e = exe
    BY <1>2, <2>4, <2>6
  <2> QED BY <1>2, <2>7, <2>8 DEF executable
<1>4. exe.version = 1 /\ exe.opcode = opcode
  BY <1>2 DEF Executable
<1>5. Bootable(executable)
  <2>1. EntryPoint + Len(opcode) <= RamSize
    BY <1>1 DEF EntryPoint
  <2> QED BY <1>3, <1>4, <2>1 DEF Bootable
<1>6. ASSUME NEW pos \in RamAddresses
      PROVE  BootedRam(executable)[pos] = IF pos + 1 \in 1 .. Len(opcode) THEN opcode[pos + 1]
                                          ELSE BootImage[pos]
  <2>1. pos - 0 + 1 = pos + 1 /\ DOMAIN opcode = 1 .. Len(opcode)
    BY <1>1 DEF RamAddresses
  <2> QED BY <1>3, <1>4, <2>1 DEF BootedRam, LoadExecutable, EntryPoint
<1>7. ASSUME NEW k \in 1 .. Len(opcode)
      PROVE  BootedRam(executable)[k - 1] = opcode[k]
  <2>1. PICK pos \in RamAddresses : pos = k - 1 /\ pos + 1 = k
    BY <1>1 DEF RamAddresses
  <2> QED BY <1>6, <2>1
<1>8. ASSUME NEW pos \in RamAddresses
      PROVE  BootedRam(executable)[pos] \in Int
  <2>1. BootImage[pos] \in Int
    <3>1. DefaultInterruptHandler \in Int
      BY <1>1 DEF DefaultInterruptHandler, IVT
    <3>2. PICK value \in Int : value = DefaultInterruptHandler
      BY <3>1
    <3>3. GetHigh(value) \in Int /\ GetLow(value) \in Int
      <4>1. GetLow(value) \in Bytes /\ GetHigh(value) \in Int
        BY ONLY value \in Int, HighAndLow
      <4> QED BY <4>1, SizesType DEF Bytes
    <3>4. InstructionMapping("IRET").opcode \in Int
      <4>1. "IRET" \in InstructionNames
        <5>1. [name |-> "IRET", opcode |-> 133, operand_count |-> 0] \in From(133, 0, <<"IRET">>)
          BY DEF From
        <5>2. \E inst \in Instructions : inst.name = "IRET"
          BY <5>1, SMT DEF Instructions
        <5> QED BY <5>2 DEF InstructionNames
      <4> QED BY <4>1, InstructionNamed
    <3> QED BY <3>2, <3>3, <3>4 DEF BootImage
  <2>2. pos + 1 \in 1 .. Len(opcode) => opcode[pos + 1] \in Int
    OBVIOUS
  <2> QED BY <1>6, <2>1, <2>2
<1> QED BY <1>5, <1>7, <1>8

\* The operand of a good line means what its argument stands for.
LEMMA ArgumentMeans ==
  ASSUME Generated, pass = 2, line = Len(source) + 1, Len(source) \in Nat,
         NEW i \in 1 .. Len(source), NEW operand, NEW arg,
         ArgumentMeant(operand, arg, i, DistancesFrom(i))
  PROVE  Means(operand, arg, i)
<1>1. CASE arg.type \in DOMAIN LABEL_REFERENCE_TYPES
  <2>1. /\ arg.name \in DOMAIN labels
        /\ operand = Operand(arg.length, OperandTypes[LABEL_REFERENCE_TYPES[arg.type]],
                             arg.reg, DistancesFrom(i)[arg.name], arg.offset)
    BY <1>1 DEF ArgumentMeant
  <2>2. PICK N : labels \in [N -> Nat] /\ N = {LabelName(t) : t \in LabelTokens}
    BY DEF Generated, LabelsPlaced
  <2>3. PICK t \in LabelTokens : LabelName(t) = arg.name
    BY <2>1, <2>2
  <2>4. labels[arg.name] = Positions[t[1]]
    BY <2>3 DEF Generated, LabelsPlaced
  <2>5. PICK d, k : t = << d, k >>
    BY LabelTokenIs
  <2>6. /\ d \in DOMAIN source /\ k \in DOMAIN source[d] /\ source[d][k].type = "LABEL"
        /\ source[d][k].name = arg.name /\ t[1] = d
    BY <2>3, <2>5, LabelTokenIs DEF LabelName
  <2>7. \A j \in 1 .. Len(source) : Position(j) = Positions[j]
    BY DEF Generated, Placed
  <2>8. d \in 1 .. Len(source)
    BY <2>6
  <2>9. DistancesFrom(i)[arg.name] = Position(d) - Position(i)
    BY <2>1, <2>4, <2>6, <2>7, <2>8 DEF DistancesFrom
  <2> QED BY <1>1, <2>1, <2>6, <2>9 DEF Means
<1>2. CASE arg.type \notin DOMAIN LABEL_REFERENCE_TYPES
  BY <1>2 DEF ArgumentMeant, Means, VariableMeant
<1> QED BY <1>1, <1>2

\* A line is in the opcode, as a whole.
LEMMA LineInOpcode ==
  ASSUME Generated, pass = 2, line = Len(source) + 1, source \in Sources,
         NEW i \in 1 .. Len(source)
  PROVE  \E pos \in Nat, bytes \in Seq(Int) :
            /\ Position(i) = pos /\ augmented_opcode[i].bytes = bytes
            /\ pos + Len(bytes) <= Len(opcode)
            /\ \A k \in 1 .. Len(bytes) : opcode[pos + k] = bytes[k]
            /\ GoodLine(i, bytes, DistancesFrom(i))
<1>1. PICK n \in Nat : n = Len(source)
  <2>1. PICK S : source \in Seq(S)
    BY DEF Sources
  <2> QED BY <2>1
<1>2. Placed(i)
  BY <1>1 DEF Generated
<1>3. PICK bytes \in Seq(Int) : bytes = augmented_opcode[i].bytes
  BY <1>2 DEF Placed
<1>4. PICK l \in Nat : l = LineLength(i) /\ l = Len(bytes)
  BY <1>2, <1>3 DEF Placed
<1>5. IsLayout(Positions, n)
  BY <1>1, LayoutExists
<1>6. PICK pos \in Nat : pos = Positions[i]
  BY <1>1, <1>5 DEF IsLayout
<1>7. pos + l <= Len(opcode)
  <2>1. PICK P : P = Positions
    OBVIOUS
  <2>2. PICK j \in 1 .. n + 1 : j = n + 1 /\ i < j /\ i \in 1 .. n
    BY <1>1
  <2>3. P[i] + LineLength(i) <= P[j]
    BY <1>5, <2>1, <2>2, LinesApart
  <2>4. Len(opcode) = Positions[j]
    BY <1>1, <2>2 DEF Generated
  <2> QED BY <1>4, <1>6, <2>1, <2>3, <2>4
<1>8. \A k \in 1 .. l : opcode[pos + k] = bytes[k]
  BY <1>2, <1>3, <1>4, <1>6 DEF Placed
<1>9. Position(i) = pos /\ GoodLine(i, bytes, DistancesFrom(i))
  BY <1>2, <1>3, <1>6 DEF Placed
<1> QED BY <1>3, <1>4, <1>7, <1>8, <1>9

\* Where a line is the CPU decodes its instruction.
LEMMA LineDecoded ==
  ASSUME Generated, pass = 2, line = Len(source) + 1, source \in Sources,
         Len(opcode) + OperandBufferSize <= RamSize,
         NEW i \in 1 .. Len(source), IsCode(i),
         NEW ram, ram = BootedRam(executable),
         NEW ip, ip = EntryPoint + Position(i),
         NEW inst, inst = InstructionMapping(CodeName(i)),
         NEW buffer, buffer = [k \in 1 .. OperandBufferSize |-> ReadByte(ram, ip + k)],
         NEW decoded, decoded = ParseOperandBuffer(buffer, inst.operand_count)
  PROVE  /\ ReadByte(ram, ip) = inst.opcode
         /\ Len(augmented_opcode[i].bytes) <= OperandBufferSize + 1 =>
               /\ decoded.ok
               /\ \A k \in 1 .. inst.operand_count :
                     Means(decoded.operands[k], Said(i)[k + 1], i)
<1>1. PICK pos \in Nat, bytes \in Seq(Int) :
            /\ Position(i) = pos /\ augmented_opcode[i].bytes = bytes
            /\ pos + Len(bytes) <= Len(opcode)
            /\ \A k \in 1 .. Len(bytes) : opcode[pos + k] = bytes[k]
            /\ GoodLine(i, bytes, DistancesFrom(i))
  BY LineInOpcode
<1>2. PICK dist : dist = DistancesFrom(i)
  OBVIOUS
<1>3. bytes = CodeBytes(i, dist) /\ GoodCode(i, dist)
  BY <1>1, <1>2 DEF GoodLine, LineBytes
<1>4. inst.opcode \in Int /\ inst.operand_count \in Nat /\ inst.operand_count = Len(Said(i)) - 1
  <2>1. PICK name \in InstructionNames : name = CodeName(i)
    BY <1>3 DEF GoodCode
  <2>2. InstructionMapping(name).opcode \in Int /\ InstructionMapping(name).operand_count \in Nat
    BY InstructionNamed
  <2> QED BY <1>3, <2>1, <2>2 DEF GoodCode
<1>5. PICK op \in Int, m \in Nat : op = inst.opcode /\ m = inst.operand_count
  BY <1>4
<1>6. PICK ops : ops = [k \in 1 .. m |-> CodeOperand(i, k, dist)]
  OBVIOUS
<1>7. \A k \in 1 .. m : /\ IsOperand(ops[k]) /\ Encodable(ops[k])
                        /\ ArgumentMeant(ops[k], Said(i)[k + 1], i, dist)
  BY <1>3, <1>4, <1>5, <1>6 DEF GoodCode
<1>8. PICK A : A = [k \in 1 .. m |-> OperandOpcode(ops[k])]
  OBVIOUS
<1>9. A \in Seq(Seq(Int))
  <2>1. \A k \in 1 .. m : OperandOpcode(ops[k]) \in Seq(Int)
    BY <1>7, OpcodeOfOperand
  <2> QED BY <1>8, <2>1
<1>10. PICK whole \in Seq(Int) : whole = FlattenSeq(A)
  <2>1. A \in Seq(Seq(Int)) /\ Len(A) = Len(A) /\ \A k \in 1 .. Len(A) : Len(A[k]) = Len(A[k])
    BY <1>9
  <2>2. FlattenSeq(A) \in Seq(Int)
    BY <2>1, SameLengths
  <2> QED BY <2>2
<1>11. bytes = <<op>> \o whole
  <2>1. A = [k \in 1 .. Len(Said(i)) - 1 |-> OperandOpcode(CodeOperand(i, k, dist))]
    BY <1>4, <1>5, <1>6, <1>8
  <2> QED BY <1>3, <1>5, <1>10, <2>1 DEF CodeBytes
<1>12. PICK l \in Nat, n \in Nat, b \in Nat :
            /\ l = Len(whole) /\ n = Len(opcode) /\ b = OperandBufferSize
            /\ opcode \in Seq(Int)
  BY AssemblerAssumption DEF Generated
<1>13. /\ Len(bytes) = 1 + l /\ bytes[1] = op
       /\ \A k \in 1 .. l : bytes[k + 1] = whole[k]
  <2>1. <<op>> \in Seq(Int) /\ Len(<<op>>) = 1 /\ <<op>>[1] = op
    OBVIOUS
  <2>2. PICK first \in Seq(Int) : first = <<op>>
    BY <2>1
  <2>3. /\ Len(first \o whole) = Len(first) + Len(whole)
        /\ \A k \in 1 .. Len(first) : (first \o whole)[k] = first[k]
        /\ \A k \in 1 .. Len(whole) : (first \o whole)[Len(first) + k] = whole[k]
    BY Concatenated
  <2>4. Len(first) = 1 /\ first[1] = op /\ bytes = first \o whole
    BY <1>11, <2>1, <2>2
  <2>5. 1 \in 1 .. 1 /\ \A k \in 1 .. l : 1 + k = k + 1
    OBVIOUS
  <2> QED BY <1>12, <2>3, <2>4, <2>5
<1>14. /\ \A k \in 1 .. n : ram[k - 1] = opcode[k]
       /\ \A a \in RamAddresses : ram[a] \in Int
  <2>1. RamSize \in Nat
    BY MemoryAssumption
  <2>2. opcode \in Seq(Int) /\ Len(opcode) <= RamSize
    BY <1>12, <2>1
  <2> QED BY <1>12, <2>2, BootedCode
<1>15. PICK size \in Nat : size = RamSize /\ RamAddresses = 0 .. size - 1 /\ n + b <= size
  BY <1>12, MemoryAssumption DEF RamAddresses
<1>16. ip = pos
  BY <1>1 DEF EntryPoint
<1>17. pos + 1 + l <= n
  BY <1>1, <1>12, <1>13
<1>18. ASSUME NEW k \in 0 .. b
       PROVE  ReadByte(ram, ip + k) = ram[pos + k] /\ ram[pos + k] \in Int
  <2>1. pos + k < size /\ pos + k \in 0 .. size - 1
    BY <1>15, <1>17
  <2> QED BY <1>14, <1>15, <1>16, <2>1 DEF ReadByte
<1>19. ASSUME NEW k \in 0 .. l
       PROVE  ram[pos + k] = bytes[k + 1]
  <2>1. PICK j \in 1 .. n : j = pos + (k + 1) /\ j - 1 = pos + k
    BY <1>17
  <2>2. k + 1 \in 1 .. Len(bytes)
    BY <1>13
  <2> QED BY <1>1, <1>14, <2>1, <2>2
<1>20. ReadByte(ram, ip) = op
  <2>1. 0 \in 0 .. b /\ 0 \in 0 .. l /\ ip + 0 = ip /\ 0 + 1 = 1
    BY <1>16
  <2> QED BY <1>13, <1>18, <1>19, <2>1
<1>21. PICK input \in Seq(Int) : /\ input = buffer /\ Len(input) = b
                                 /\ \A k \in 1 .. b : input[k] = ram[pos + k]
  <2>1. buffer = [k \in 1 .. b |-> ReadByte(ram, ip + k)]
    BY <1>12
  <2>2. \A k \in 1 .. b : k \in 0 .. b
    OBVIOUS
  <2>3. \A k \in 1 .. b : ReadByte(ram, ip + k) = ram[pos + k] /\ ram[pos + k] \in Int
    BY <1>18, <2>2
  <2>4. buffer = [k \in 1 .. b |-> ram[pos + k]]
    BY <2>1, <2>3
  <2>5. PICK input : input = [k \in 1 .. b |-> ram[pos + k]]
    OBVIOUS
  <2>6. input \in Seq(Int) /\ Len(input) = b /\ \A k \in 1 .. b : input[k] = ram[pos + k]
    <3>1. \A k \in 1 .. b : ram[pos + k] \in Int
      BY <2>3
    <3> QED BY ONLY b \in Nat, <2>5, <3>1
  <2> QED BY <2>4, <2>5, <2>6
<1>22. ASSUME Len(bytes) <= OperandBufferSize + 1
       PROVE  decoded.ok /\ \A k \in 1 .. m : decoded.operands[k] = ops[k]
  <2>1. l <= b
    BY <1>12, <1>13, <1>22
  <2>2. BeginsWith(input, whole) /\ Len(whole) <= Len(input)
    <3>1. ASSUME NEW k \in 1 .. Len(input), k <= Len(whole)
          PROVE  input[k] = whole[k]
      <4>1. k \in 1 .. b /\ k \in 1 .. l /\ k \in 0 .. l
        BY <1>12, <1>21, <3>1
      <4> QED BY <1>13, <1>19, <1>21, <4>1
    <3> QED BY <1>12, <1>21, <2>1, <3>1 DEF BeginsWith
  <2>3. whole = FlattenSeq([k \in 1 .. m |-> OperandOpcode(ops[k])])
    BY <1>8, <1>10
  <2>4. decoded = ParseOperandBuffer(input, m)
    BY <1>5, <1>21
  <2>5. \A k \in 1 .. m : IsOperand(ops[k]) /\ Encodable(ops[k])
    BY <1>7
  <2>6. Decodes(ParseOperandBuffer(input, m), ops, m)
    BY ONLY m \in Nat, input \in Seq(Int), <2>2, <2>3, <2>5, OperandsDecoded
  <2> QED BY <2>4, <2>6 DEF Decodes
<1>23. ASSUME NEW k \in 1 .. m
       PROVE  Means(ops[k], Said(i)[k + 1], i)
  <2>1. PICK operand, arg : operand = ops[k] /\ arg = Said(i)[k + 1]
    OBVIOUS
  <2>2. ArgumentMeant(operand, arg, i, DistancesFrom(i))
    BY <1>2, <1>7, <2>1
  <2>3. Len(source) \in Nat
    <3>1. PICK S : source \in Seq(S)
      BY DEF Sources
    <3> QED BY <3>1
  <2>4. Means(operand, arg, i)
    BY <2>2, <2>3, ArgumentMeans
  <2> QED BY <2>1, <2>4
<1> QED BY <1>1, <1>5, <1>20, <1>22, <1>23

\* The machine that boots from what has been assembled decodes what was written.
LEMMA AssemblerInvDecoded == AssemblerInv => DecodedAsWritten
<1> SUFFICES ASSUME AssemblerInv, phase = "assembled", Len(opcode) + OperandBufferSize <= RamSize
             PROVE  DecodedAsWritten
  BY DEF DecodedAsWritten
<1>1. \/ pass = 0 /\ source = <<>> /\ opcode = <<>>
      \/ Generated /\ pass = 2 /\ line = Len(source) + 1
  BY DEF AssemblerInv
<1>2. source \in Sources
  BY DEF AssemblerInv
<1>3. Bootable(executable)
  <2>1. opcode \in Seq(Int)
    <3>1. <<>> \in Seq(Int)
      OBVIOUS
    <3> QED BY <1>1, <3>1 DEF Generated
  <2>2. Len(opcode) <= RamSize
    <3>1. PICK a \in Nat, b \in Nat, c \in Nat :
            a = Len(opcode) /\ b = OperandBufferSize /\ c = RamSize
      BY <2>1, MemoryAssumption, AssemblerAssumption
    <3>2. a + b <= c => a <= c
      OBVIOUS
    <3> QED BY <3>1, <3>2
  <2> QED BY <2>1, <2>2, BootedCode
<1>4. ASSUME NEW i \in DOMAIN source, IsCode(i)
      PROVE  LET inst == InstructionMapping(CodeName(i))
                 ram == BootedRam(executable)
                 ip == EntryPoint + Position(i)
                 buffer == [k \in 1 .. OperandBufferSize |-> ReadByte(ram, ip + k)]
                 decoded == ParseOperandBuffer(buffer, inst.operand_count)
             IN  /\ ReadByte(ram, ip) = inst.opcode
                 /\ Len(augmented_opcode[i].bytes) <= OperandBufferSize + 1 =>
                       /\ decoded.ok
                       /\ \A k \in 1 .. inst.operand_count :
                             Means(decoded.operands[k], Said(i)[k + 1], i)
  <2>1. i \in 1 .. Len(source) /\ source # <<>>
    <3>1. PICK S : source \in Seq(S)
      BY <1>2 DEF Sources
    <3> QED BY <3>1
  <2>2. Generated /\ pass = 2 /\ line = Len(source) + 1
    BY <1>1, <2>1
  <2> QED BY <1>2, <1>4, <2>1, <2>2, LineDecoded
<1> QED BY <1>3, <1>4, Zenon DEF DecodedAsWritten

\* Whatever the sources are, where a line of code is the machine that boots from them
\* decodes the instruction that was written there, and its operands mean what the
\* source says.
THEOREM AssemblerDecodedAsWritten == Spec => []DecodedAsWritten
BY AssemblerInit, AssemblerNext, AssemblerInvDecoded, PTL DEF Spec
=============================================================================

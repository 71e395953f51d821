---------------------------- MODULE MCAssembler ----------------------------
(* Assembler for TLC: the programs it is given.  Of the first kind every    *)
(* line has a label and some refer to them; the others begin with ENTER and *)
(* declare and use names; the last are wrong in ways of their own.          *)
EXTENDS Assembler

CONSTANTS LabelLines, ScopeLines  \* BOUND: lines of a program

MCDeviceTables == [address \in {400, 401} |-> 0]
MCSignature == <<10, 12, 13>>

MCUpper(word) == IF word = "ax" THEN "AX" ELSE word

Word(type, name) == Token(type, 2, name, "none", 0, 0)
Byte(value) == Token("BYTE_LITERAL", 1, "", "none", value, 0)
Number(value) == Token("WORD_LITERAL", 2, "", "none", value, 0)
Text(bytes) == [Word("STRING_LITERAL", "") EXCEPT !.bytes = bytes]
Label(name) == Word("LABEL", name)
Id(name) == Word("IDENTIFIER", name)
Macro(name) == Word("MACRO", name)
Var(name) == Word("VARIABLE", name)

LineLabels == <<"first", "second", "third", "fourth">>

\* 200 bytes are half a word: a label beyond them is out of reach.
AboutLabels ==
    {<<>>, <<Id("JMP"), Id("first")>>, <<Id("JMP"), Id("fourth")>>, <<Id("PUSH"), Id("ax")>>,
     <<Id("MOV"), Id("ax"), Token("REL_REF_LABEL_BYTE", 1, "third", "none", 0, 3)>>,
     <<Id("PUSH"), Token("REL_REF_LABEL_REG", 2, "second", "SI", 0, 0)>>,
     <<Macro("DATN"), Number(62), Number(258)>>, <<Macro("DAT"), Text(<<1, 2, 3>>), Byte(4)>>}

AboutScopes ==
    {<<Macro("PARAM"), Var("x")>>, <<Macro("PARAMB"), Var("y")>>, <<Macro("VAR"), Var("x")>>,
     <<Macro("VARB"), Var("z"), Var("c")>>, <<Macro("VARB"), Var("y"), Byte(3)>>,
     <<Macro("CONST"), Var("c"), Byte(2)>>, <<Macro("CONST"), Var("x"), Var("c")>>,
     <<Id("MOV"), Var("x"), Var("y")>>, <<Id("PRINT"), Var("x")>>, <<Id("LVRET")>>,
     <<Id("ENTER"), Byte(1), Byte(2)>>, <<Macro("DAT"), Var("c"), Var("x")>>}

Wrong ==
    {<<<<Label("AX"), Id("HLT")>>>>, <<<<Label("l")>>, <<Label("l")>>>>,
     <<<<Label("ax")>>, <<Id("JMP"), Id("ax")>>>>, <<<<Id("JMP"), Id("l")>>>>,
     <<<<Macro("WORD"), Byte(1)>>>>, <<<<Word("UNEXPECTED", "?")>>>>, <<<<Id("ax"), Id("HLT")>>>>,
     <<<<Id("HLT"), Id("ax")>>>>, <<<<Id("JMP"), Text(<<1>>)>>>>, <<<<Id("ENTER"), Id("ax")>>>>,
     <<<<Id("HLT"), Label("l")>>>>, <<<<Id("PUSH"), Word("SYSTEM_VARIABLE", "s")>>>>}

Labelled == {[i \in 1 .. LabelLines |-> <<Label(LineLabels[i])>> \o p[i]] :
                p \in [1 .. LabelLines -> AboutLabels]}
Scoped3 == {<<<<Id("ENTER"), Byte(3), Byte(3)>>>> \o p : p \in [1 .. ScopeLines -> AboutScopes]}
Second == <<<<Id("PRINT"), Var("x")>>, <<Id("JMP"), Id("first")>>>>

MCCommandLines == {<<p, Second>> : p \in Labelled} \union {<<p>> : p \in Scoped3 \union Wrong}
=============================================================================

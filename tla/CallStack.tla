------------------------------ MODULE CallStack ------------------------------
(***************************************************************************)
(* What the stack instructions and the interrupts promise to a program     *)
(* that keeps to the calling convention (docs/calling-convention.md): a    *)
(* stack of frames, where every return gives back what the call put there. *)
(* There are no bytes here and no stack pointer; Cpu implements it.        *)
(***************************************************************************)
EXTENDS Naturals, Sequences

CONSTANTS Words, Bytes, Handlers    \* the addresses in the interrupt vectors

VARIABLES
    ip, bp,     \* where the program is, and its frame pointer
    int_flag,   \* 1 when hardware interrupts are enabled
    frames      \* the frames on the stack, the innermost last

vars == <<ip, bp, int_flag, frames>>

\* What one instruction, or one interrupt, puts on the stack. at tells frames
\* apart by where they begin; sti: a handler that has enabled interrupts.
Frame(kind, at, val) == [kind |-> kind, at |-> at, val |-> val, flag |-> 0, bp |-> 0,
                         params |-> 0, locals |-> 0, sti |-> FALSE]

Kinds == {"byte", "word", "flags", "call", "enter", "int", "hardware"}
Pushed == {"byte", "word", "flags"}
Top == frames[Len(frames)]
TopIs(kinds) == frames # <<>> /\ Top.kind \in kinds
PushFrame(f) == frames' = Append(frames, f)
PopFrame == frames' = SubSeq(frames, 1, Len(frames) - 1)

\* The subroutine that LVRET leaves: its ENTER is frame e, under it its CALL,
\* under that its parameters, from frame j on; above it, nothing but pushes.
Leaves(e, j) ==
    /\ e \in 2 .. Len(frames) /\ j \in 1 .. e - 1
    /\ frames[e].kind = "enter" /\ frames[e - 1].kind = "call"
    /\ \A i \in (e + 1 .. Len(frames)) \union (j .. e - 2) : frames[i].kind \in Pushed
    /\ frames[j].at = frames[e - 1].at + frames[e].params

Init == ip = 0 /\ bp = 0 /\ int_flag = 1 /\ frames = <<>>

Step == ip' \in Words /\ UNCHANGED <<bp, int_flag, frames>>

Push == \E kind \in {"byte", "word", "call"}, at \in Words, val \in Words :
            PushFrame(Frame(kind, at, val)) /\ ip' \in Words /\ UNCHANGED <<bp, int_flag>>

PushFlags == \E at \in Words :
    /\ PushFrame([Frame("flags", at, 0) EXCEPT !.flag = int_flag])
    /\ ip' \in Words /\ UNCHANGED <<bp, int_flag>>

\* POP returns a value to the program, POPF the flag that was pushed.
Pop == /\ TopIs({"byte", "word"}) /\ PopFrame
       /\ ip' \in Words /\ UNCHANGED <<bp, int_flag>>

PopFlags == /\ TopIs({"flags"}) /\ PopFrame /\ int_flag' = Top.flag
            /\ ip' \in Words /\ UNCHANGED bp

Ret == /\ TopIs({"call"}) /\ PopFrame /\ ip' = Top.val
       /\ UNCHANGED <<bp, int_flag>>

Enter == \E at \in Words, params \in Bytes, locals \in Bytes :
    /\ TopIs({"call"})
    /\ PushFrame([Frame("enter", at, 0) EXCEPT !.bp = bp, !.params = params, !.locals = locals])
    /\ bp' \in Words /\ ip' \in Words /\ UNCHANGED int_flag

\* LVRET returns behind the CALL, with the frame pointer of the caller and
\* without the parameters.
Leave == \E e, j \in 1 .. Len(frames) :
    /\ Leaves(e, j)
    /\ ip' = frames[e - 1].val /\ bp' = frames[e].bp
    /\ frames' = SubSeq(frames, 1, j - 1)
    /\ UNCHANGED int_flag

\* INT leaves the interrupt flag alone.
SoftwareInterrupt == \E at, next \in Words :
    /\ PushFrame([Frame("int", at, next) EXCEPT !.flag = int_flag])
    /\ ip' \in Handlers /\ UNCHANGED <<bp, int_flag>>

\* A hardware interrupt comes only when enabled, and disables the next one.
HardwareInterrupt == \E at \in Words :
    /\ int_flag = 1 /\ int_flag' = 0
    /\ PushFrame([Frame("hardware", at, ip) EXCEPT !.flag = 1])
    /\ ip' \in Handlers /\ UNCHANGED bp

\* IRET resumes the interrupted program with the flag it had.
InterruptReturn ==
    /\ TopIs({"int", "hardware"}) /\ PopFrame
    /\ ip' = Top.val /\ int_flag' = Top.flag
    /\ UNCHANGED bp

\* STI, CLI
EnableFrames(value) ==
    frames' = [i \in DOMAIN frames |->
        [frames[i] EXCEPT !.sti = @ \/ (value = 1 /\ frames[i].kind = "hardware")]]

SetFlag == \E value \in {0, 1} :
    /\ int_flag' = value /\ EnableFrames(value)
    /\ ip' \in Words /\ UNCHANGED bp

Next == \/ Step \/ Push \/ PushFlags \/ Pop \/ PopFlags \/ Ret \/ Enter \/ Leave
        \/ SoftwareInterrupt \/ HardwareInterrupt \/ InterruptReturn \/ SetFlag

Spec == Init /\ [][Next]_vars
=============================================================================

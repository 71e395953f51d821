--------------------------------- MODULE Cpu ---------------------------------
(***************************************************************************)
(* hardware/cpu: the CPU with its stack in the RAM, its interrupts and the *)
(* instructions that use them.  The program is any program: which          *)
(* instruction is at ip is chosen when it is executed.  It keeps to the    *)
(* calling convention: it changes SP, BP and the stack only by the         *)
(* instructions below and returns by the instruction that fits what it     *)
(* called (the guards on frames); INT, and a hardware interrupt, may come  *)
(* anywhere.                                                               *)
(***************************************************************************)
EXTENDS InterruptController

CONSTANTS
    InterruptNumbers,   \* the interrupt numbers in use
    ByteSize,           \* 256 in the code
    BottomOfStack,
    Code,               \* the addresses with instructions; others are segfaults
    MaxLength,          \* of an instruction
    Targets,            \* the addresses the program jumps to and sets as handlers
    Counts,             \* the operands of ENTER
    PushedBytes, PushedWords,
    MaxPushes,          \* BOUND: what PUSH and PUSHF have on the stack at a time
    MaxPending          \* BOUND: interrupts pending when another one is sent

Bytes == 0 .. ByteSize - 1
Words == 0 .. ByteSize * ByteSize - 1

ASSUME CpuAssumption ==
    /\ InterruptNumbers \subseteq AcceptedNumbers
    /\ ByteSize \in Nat \ {0, 1}
    /\ BottomOfStack \in Words /\ BottomOfStack >= 6
    /\ MaxLength \in Nat \ {0} /\ MaxPending \in Nat /\ MaxPushes \in Nat
    /\ Code \subseteq Words /\ Targets \subseteq Words
    /\ \A a \in Code : a + MaxLength \in Words
    /\ 0 \in Code /\ Targets # {}
    /\ Counts \subseteq Bytes /\ PushedBytes \subseteq Bytes
    /\ PushedWords \subseteq Words

VARIABLES
    ip, sp, bp, int_flag, halt,
    ram,        \* the part of the RAM that is the stack
    ivt,        \* the interrupt vectors
    power,      \* "on", "shutdown", or "error": an exception ended Clock.run
    frames      \* history: what is on the stack, see CallStack

registers == <<ip, sp, bp, int_flag, halt>>
vars == <<interrupt_queue, registers, ram, ivt, power, frames>>

Convention == INSTANCE CallStack WITH Handlers <- Targets

DefaultHandler == CHOOSE t \in Targets : TRUE

Init ==
    /\ InterruptInit
    /\ ip = 0 /\ sp = BottomOfStack /\ bp = 0
    /\ int_flag = 1 /\ halt = FALSE
    /\ ram = [a \in 0 .. BottomOfStack |-> 0]
    /\ ivt = [n \in InterruptNumbers |-> DefaultHandler]
    /\ power = "on"
    /\ frames = <<>>

-----------------------------------------------------------------------------
(* RAM and Stack *)

High(word) == word \div ByteSize
Low(word) == word % ByteSize

StoreByte(memory, pos, value) == [memory EXCEPT ![pos] = value]
StoreWord(memory, pos, value) == [memory EXCEPT ![pos] = High(value), ![pos + 1] = Low(value)]
LoadWord(pos) == ram[pos] * ByteSize + ram[pos + 1]

\* Faulty variant of Room: the byte at address 0 counted twice.
RoomOffByOne(n) == sp + 1 >= n

\* Whether pushes, or pops, of so many bytes raise no StackError.
Room(n) == sp >= n
Content(n) == sp + n <= BottomOfStack

\* push_word twice, as interrupts do.
StoreTwoWords(first, second) == StoreWord(StoreWord(ram, sp - 1, first), sp - 3, second)

-----------------------------------------------------------------------------
(* An instruction: read and parsed at ip, run, ip set to the next one. *)

\* Faulty variant of Interrupted: a halted CPU does not look for interrupts.
InterruptedUnlessHalted == int_flag = 1 /\ interrupt_queue # <<>> /\ ~halt

Interrupted == int_flag = 1 /\ interrupt_queue # <<>>

\* CPU.step comes to an instruction; Clock.run has seen no reason to end.
Executing == power = "on" /\ ~Interrupted /\ ~halt /\ ip \in Code

\* The address of the next instruction.
Following == {ip + length : length \in 1 .. MaxLength}

\* What an instruction does not change, and that it goes on behind itself.
Keep == UNCHANGED <<interrupt_queue, halt, ivt, power>>
GoOn == Keep /\ ip' \in Following

\* An exception ends Clock.run. What the instruction had already changed is
\* seen in the crash dump only, and left out.
Fail == power' = "error" /\ UNCHANGED <<interrupt_queue, registers, ram, ivt, frames>>

\* Any instruction without effect on what is modelled; a jump.
OtherInstruction ==
    /\ Executing
    /\ Keep /\ (ip' \in Following \/ ip' \in Targets)
    /\ UNCHANGED <<sp, bp, int_flag, ram, frames>>

Pushing ==
    /\ Executing
    /\ Len(SelectSeq(frames, LAMBDA f : f.kind \in Convention!Pushed)) < MaxPushes

PushByte == \E value \in PushedBytes :
    /\ Pushing
    /\ \/ /\ ~Room(1) /\ Fail
       \/ /\ Room(1)
          /\ ram' = StoreByte(ram, sp, value) /\ sp' = sp - 1
          /\ Convention!PushFrame(Convention!Frame("byte", sp, value))
          /\ GoOn /\ UNCHANGED <<bp, int_flag>>

PushWord == \E value \in PushedWords :
    /\ Pushing
    /\ \/ /\ ~Room(2) /\ Fail
       \/ /\ Room(2)
          /\ ram' = StoreWord(ram, sp - 1, value) /\ sp' = sp - 2
          /\ Convention!PushFrame(Convention!Frame("word", sp, value))
          /\ GoOn /\ UNCHANGED <<bp, int_flag>>

PushF ==
    /\ Pushing
    /\ \/ /\ ~Room(2) /\ Fail
       \/ /\ Room(2)
          /\ ram' = StoreWord(ram, sp - 1, int_flag) /\ sp' = sp - 2
          /\ Convention!PushFrame([Convention!Frame("flags", sp, 0) EXCEPT !.flag = int_flag])
          /\ GoOn /\ UNCHANGED <<bp, int_flag>>

\* Nothing on the stack to pop: POP, POPF, RET and IRET raise StackUnderflowError.
Underflow == Executing /\ ~Content(1) /\ Fail

\* POP into a register or a variable, which is not modelled.
PopByte ==
    /\ Executing /\ Content(1) /\ Convention!TopIs({"byte"})
    /\ sp' = sp + 1 /\ Convention!PopFrame
    /\ GoOn /\ UNCHANGED <<bp, int_flag, ram>>

PopWord ==
    /\ Executing /\ Content(2) /\ Convention!TopIs({"word"})
    /\ sp' = sp + 2 /\ Convention!PopFrame
    /\ GoOn /\ UNCHANGED <<bp, int_flag, ram>>

PopF ==
    /\ Executing /\ Content(2) /\ Convention!TopIs({"flags"})
    /\ sp' = sp + 2 /\ int_flag' = LoadWord(sp + 1) % 2 /\ Convention!PopFrame
    /\ GoOn /\ UNCHANGED <<bp, ram>>

Call == \E target \in Targets, next \in Following :
    /\ Executing
    /\ \/ /\ ~Room(2) /\ Fail
       \/ /\ Room(2)
          /\ ram' = StoreWord(ram, sp - 1, next) /\ sp' = sp - 2
          /\ Convention!PushFrame(Convention!Frame("call", sp, next))
          /\ ip' = target /\ Keep /\ UNCHANGED <<bp, int_flag>>

Ret ==
    /\ Executing /\ Content(2) /\ Convention!TopIs({"call"})
    /\ sp' = sp + 2 /\ ip' = LoadWord(sp + 1) /\ Convention!PopFrame
    /\ Keep /\ UNCHANGED <<bp, int_flag, ram>>

\* Faulty variant of EnterFrame: BP is pushed before the byte counts.
EnterFrameBpFirst(params, locals) ==
    [StoreWord(ram, sp - 1, bp) EXCEPT ![sp - 2] = params, ![sp - 3] = locals]

EnterFrame(params, locals) ==
    StoreWord([ram EXCEPT ![sp] = params, ![sp - 1] = locals], sp - 3, bp)

\* Faulty variant of Enter: BP is set below the locals.
EnterBpBelowLocals == \E params \in Counts, locals \in Counts :
    /\ Executing
    /\ Convention!TopIs({"call"})
    /\ \/ /\ ~Room(4 + locals) /\ Fail
       \/ /\ Room(4 + locals)
          /\ ram' = EnterFrame(params, locals)
          /\ bp' = sp - 4 - locals /\ sp' = sp - 4 - locals
          /\ Convention!PushFrame([Convention!Frame("enter", sp, 0) EXCEPT
                 !.bp = bp, !.params = params, !.locals = locals])
          /\ GoOn /\ UNCHANGED int_flag

\* The locals must fit too: SP cannot be set below 0.
Enter == \E params \in Counts, locals \in Counts :
    /\ Executing
    /\ Convention!TopIs({"call"})
    /\ \/ /\ ~Room(4 + locals) /\ Fail
       \/ /\ Room(4 + locals)
          /\ ram' = EnterFrame(params, locals)
          /\ bp' = sp - 4 /\ sp' = sp - 4 - locals
          /\ Convention!PushFrame([Convention!Frame("enter", sp, 0) EXCEPT
                 !.bp = bp, !.params = params, !.locals = locals])
          /\ GoOn /\ UNCHANGED int_flag

\* Faulty variant of LvRet: the parameters are left on the stack.
LvRetKeepsParameters == \E e, j \in 1 .. Len(frames) :
    /\ Executing
    /\ Convention!Leaves(e, j)
    /\ bp' = LoadWord(bp + 1)
    /\ ip' = LoadWord(bp + 5)
    /\ sp' = bp + 6
    /\ frames' = SubSeq(frames, 1, j - 1)
    /\ Keep /\ UNCHANGED <<int_flag, ram>>

\* SP goes to BP whatever was pushed since; behind the saved BP are the counts
\* and the return address.
LvRet == \E e, j \in 1 .. Len(frames) :
    /\ Executing
    /\ Convention!Leaves(e, j)
    /\ bp' = LoadWord(bp + 1)
    /\ ip' = LoadWord(bp + 5)
    /\ sp' = bp + 6 + ram[bp + 4]
    /\ frames' = SubSeq(frames, 1, j - 1)
    /\ Keep /\ UNCHANGED <<int_flag, ram>>

\* INT, with the number of an entry of the IVT. Nothing makes sure of it, neither the
\* lengths in oplens nor a check here: what is read as a vector for a word as operand,
\* or for a RAM cell that holds more than a byte, is not followed, in SetInt neither.
SoftwareInterrupt == \E n \in InterruptNumbers, next \in Following :
    /\ Executing
    /\ \/ /\ ~Room(4) /\ Fail
       \/ /\ Room(4)
          /\ ram' = StoreTwoWords(int_flag, next) /\ sp' = sp - 4
          /\ Convention!PushFrame([Convention!Frame("int", sp, next) EXCEPT !.flag = int_flag])
          /\ ip' = ivt[n] /\ Keep /\ UNCHANGED <<bp, int_flag>>

IRet ==
    /\ Executing /\ Content(4) /\ Convention!TopIs({"int", "hardware"})
    /\ ip' = LoadWord(sp + 1) /\ int_flag' = LoadWord(sp + 3) % 2 /\ sp' = sp + 4
    /\ Convention!PopFrame
    /\ Keep /\ UNCHANGED <<bp, ram>>

SetInt == \E n \in InterruptNumbers, target \in Targets :
    /\ Executing
    /\ ivt' = [ivt EXCEPT ![n] = target]
    /\ ip' \in Following
    /\ UNCHANGED <<interrupt_queue, sp, bp, int_flag, halt, ram, power, frames>>

\* STI and CLI
SetFlag == \E value \in {0, 1} :
    /\ Executing
    /\ int_flag' = value
    /\ Convention!EnableFrames(value)
    /\ GoOn /\ UNCHANGED <<sp, bp, ram>>

Hlt ==
    /\ Executing
    /\ halt' = TRUE /\ ip' \in Following
    /\ UNCHANGED <<interrupt_queue, sp, bp, int_flag, ram, ivt, power, frames>>

Shutdown ==
    /\ Executing
    /\ power' = "shutdown" /\ ip' \in Following
    /\ UNCHANGED <<interrupt_queue, sp, bp, int_flag, halt, ram, ivt, frames>>

Instruction == \/ OtherInstruction \/ PushByte \/ PushWord \/ PushF \/ Underflow
               \/ PopByte \/ PopWord \/ PopF \/ Call \/ Ret \/ Enter \/ LvRet
               \/ SoftwareInterrupt \/ IRet \/ SetInt \/ SetFlag \/ Hlt \/ Shutdown

\* No instruction at ip: a segmentation fault or an unknown opcode.
BadInstruction == power = "on" /\ ~Interrupted /\ ~halt /\ ip \notin Code /\ Fail

\* The time.sleep of a halted CPU.
HaltedStep == power = "on" /\ ~Interrupted /\ halt /\ UNCHANGED vars

\* Faulty variant of HardwareInterrupt: the handler runs with interrupts enabled.
HardwareInterruptUnmasked ==
    /\ power = "on" /\ Interrupted
    /\ \/ /\ ~Room(4) /\ Fail
       \/ /\ Room(4)
          /\ Check
          /\ halt' = FALSE /\ int_flag' = int_flag
          /\ ram' = StoreTwoWords(int_flag, ip) /\ sp' = sp - 4
          /\ ip' = ivt[Head(interrupt_queue)]
          /\ Convention!PushFrame([Convention!Frame("hardware", sp, ip) EXCEPT !.flag = 1])
          /\ UNCHANGED <<bp, ivt, power>>

HardwareInterrupt ==
    /\ power = "on" /\ Interrupted
    /\ \/ /\ ~Room(4) /\ Fail
       \/ /\ Room(4)
          /\ Check
          /\ halt' = FALSE /\ int_flag' = 0
          /\ ram' = StoreTwoWords(int_flag, ip) /\ sp' = sp - 4
          /\ ip' = ivt[Head(interrupt_queue)]
          /\ Convention!PushFrame([Convention!Frame("hardware", sp, ip) EXCEPT !.flag = 1])
          /\ UNCHANGED <<bp, ivt, power>>

Step == HardwareInterrupt \/ HaltedStep \/ Instruction \/ BadInstruction

\* The Timer and the Device Controller send interrupts at any time.
SendInterrupt == \E n \in InterruptNumbers :
    /\ power = "on" /\ Len(interrupt_queue) <= MaxPending
    /\ Send(n)
    /\ UNCHANGED <<registers, ram, ivt, power, frames>>

\* Clock.run has ended.
Off == power # "on" /\ UNCHANGED vars

Next == Step \/ SendInterrupt \/ Off

Spec == Init /\ [][Next]_vars /\ WF_vars(Step)

-----------------------------------------------------------------------------
(* Properties *)

FrameTypes == [kind : Convention!Kinds, at : 0 .. BottomOfStack, val : Words,
               flag : {0, 1}, bp : Words, params : Bytes, locals : Bytes,
               sti : BOOLEAN]

RegistersTypeOK ==
    /\ ip \in Words /\ sp \in 0 .. BottomOfStack /\ bp \in 0 .. BottomOfStack
    /\ int_flag \in {0, 1} /\ halt \in BOOLEAN

\* Every variable has its type; in particular SP never leaves the stack.
TypeOK ==
    /\ interrupt_queue \in Seq(InterruptNumbers)
    /\ RegistersTypeOK
    /\ ram \in [0 .. BottomOfStack -> Bytes]
    /\ ivt \in [InterruptNumbers -> Targets]
    /\ power \in {"on", "shutdown", "error"}
    /\ frames \in Seq(FrameTypes)

\* Where a frame ends: SP after it was built.
End(f) == CASE f.kind = "byte" -> f.at - 1
            [] f.kind \in {"word", "flags", "call"} -> f.at - 2
            [] f.kind = "enter" -> f.at - 4 - f.locals
            [] OTHER -> f.at - 4

\* The bytes of a frame are those its instruction stored.
Stored(f) ==
    CASE f.kind = "byte" -> ram[f.at] = f.val
      [] f.kind \in {"word", "call"} -> LoadWord(f.at - 1) = f.val
      [] f.kind = "flags" -> LoadWord(f.at - 1) = f.flag
      [] f.kind = "enter" -> /\ ram[f.at] = f.params /\ ram[f.at - 1] = f.locals
                             /\ LoadWord(f.at - 3) = f.bp
      [] OTHER -> LoadWord(f.at - 1) = f.flag /\ LoadWord(f.at - 3) = f.val

\* Calls, pushes and interrupts, however they are nested, leave every frame on
\* the stack as it was built, one right below the other from the bottom to SP.
StackIntact ==
    /\ \A i \in DOMAIN frames : Stored(frames[i])
    /\ \A i \in DOMAIN frames :
          frames[i].at = IF i = 1 THEN BottomOfStack ELSE End(frames[i - 1])
    /\ sp = IF frames = <<>> THEN BottomOfStack ELSE End(frames[Len(frames)])

\* The innermost ENTER below frame i, 0 when there is none.
EnterBelow(i) == LET S == {k \in 1 .. i - 1 : frames[k].kind = "enter"}
                 IN  IF S = {} THEN 0 ELSE CHOOSE k \in S : \A l \in S : l <= k

FramePointerOf(i) == IF i = 0 THEN 0 ELSE frames[i].at - 4

\* The call stack can be mapped: BP, and then the saved BP of each frame, leads
\* from one ENTER to the one before it, whatever lies between them.
FramePointerChain ==
    /\ bp = FramePointerOf(EnterBelow(Len(frames) + 1))
    /\ \A i \in DOMAIN frames :
          frames[i].kind = "enter" => frames[i].bp = FramePointerOf(EnterBelow(i))

\* A hardware interrupt handler is not interrupted by another one unless an STI
\* enabled it: neither by the end of a nested INT, nor by POPF, nor by LVRET.
HandlersMasked ==
    \A i \in DOMAIN frames : frames[i].kind = "hardware" /\ ~frames[i].sti =>
        /\ int_flag = 0
        /\ \A j \in i + 1 .. Len(frames) : frames[j].kind # "hardware"

\* Every return gives back what the call left: the CPU is an implementation of
\* the calling convention.
KeepsConvention == Convention!Spec

\* A halted CPU that accepts interrupts is woken by one, whether it was sent
\* before HLT was executed or after (unless its stack is full).
HaltEnds ==
    (power = "on" /\ halt /\ int_flag = 1 /\ interrupt_queue # <<>>)
        ~> (~halt \/ power = "error")
=============================================================================

# Aldebaran in TLA+

Aldebaran is a 16-bit computer emulated in Python: a CPU with a stack, RAM and
interrupts, internal devices that run as threads beside it (a timer and a device
controller), external devices that run as processes of their own and talk to it over
HTTP, a debugger with a page in the browser, and an assembler that makes its
programs. This directory holds the specification of its behaviour as TLA+ modules,
the TLC configurations that check them on small instances, and proofs of the most
important results for every instance.

Run a check with `tlc -config Timer.cfg MCTimer` (the module of each configuration is
in the table of runs below) and the proofs with `tlapm` on each of
`TimerProofs.tla`, `DeviceControllerProofs.tla`, `DeviceSessionProofs.tla`,
`CpuProofs.tla`, `MemoryProofs.tla`, `ExecutionProofs.tla`, `AssemblerProofs.tla` and
`DebuggerProofs.tla`.

## 1. Inventory

The parts of the system, the state they keep, what they do, and what makes each of
them correct. `PROJECT.json` lists the same parts with their modules, and the
hazards: the places where this code can go wrong in a way that a unit test would
hardly show, each with the properties that watch it.

| Part | State | Operations | Works with |
| --- | --- | --- | --- |
| Clock | cycle count, debugger queue | `run`: `CPU.step`, end on shutdown or a dead timer; with a debugger, so many steps per command | CPU, Timer, Debugger |
| CPU | IP, `halt`, `shutdown` | `step`: take an interrupt, or sleep, or run an instruction | everything below |
| Registers | AX..DI, SP, BP, the interrupt flag | get, set, with range checks | CPU, Stack |
| Stack | none of its own (SP, and bytes in the RAM) | push and pop of bytes, words and flags | Registers, Memory |
| Instructions | none | one `do` per instruction; a table of opcodes | CPU, Stack, Memory, Timer, IOPorts, Assembler |
| Operands | none | decode and encode, get and set | CPU, Memory, Assembler |
| Memory | the areas of the address space: RAM, device registry, device status table | read and write bytes and words | Device Controller (reads of the two tables) |
| Interrupt Controller | a queue of interrupt numbers | `send`, `check` | written by the timer thread, the input thread and the ping thread, read by the CPU thread |
| Timer | per subtimer: mode, speed, phase, interrupt number; step count; stop event | thread: a beat over all subtimers; CPU: SETTMR, `is_alive`, `stop` | Interrupt Controller, CPU, Clock |
| Device Controller, IOPorts | per port: registered, host and port, input queue, registry, status; output queue; stop event | threads: HTTP server (register, unregister, data), pings, output; CPU: IN, OUT, `stop` | devices, Interrupt Controller, Memory, CPU |
| Devices | per process: output queue, stop event, its server | register, retry, send, answer pings, unregister | Device Controller |
| Debugger | its server thread | POST: a number of steps for the clock; GET: registers, stack, memory | Clock, CPU, Memory |
| Debugger frontend | what the page shows | polls, the user's steps, answers | Debugger |
| Aldebaran | the parts | `boot`; `run`: start, `Clock.run`, stop in order | all |
| Executable, boot image | a file; a RAM to start from | save, load; IRET and vectors; the boot loader | Assembler, Memory, CPU |
| Assembler, macros, scopes | labels, scope, constants, opcode | two passes over tokens and macros | Operands, Instructions, Executable |
| Tokenizer | none | words to tokens | Assembler |

How they interact. There are five threads in one process: the CPU thread (the clock
loop), the timer thread, and the input, ping and output threads of the device
controller; in debug mode the debugger's server thread is a sixth. They share Python
objects without any lock; the only thread-safe structures are queues (interrupts,
output, the input of each IOPort, the debugger's commands) and events. The devices
are other processes and reach the input thread over HTTP, as the page reaches the
debugger.

Where it is hard, and what must be true:

- **Timer**: SETTMR writes four fields, one by one, while a beat may be reading
  them. A subtimer must not fire twice as a ONESHOT, must keep its configuration,
  and must fire exactly when due if nobody touches it; the machine must stop, also
  after the thread died.
- **Device Controller**: three threads and the CPU change the same IOPorts, the same
  status table and the same interrupt queue. Registry and IOPort must agree; a
  device must not read or displace what belongs to another one; interrupts must
  match what they announce; `stop` must return.
- **Devices**: a registration may have succeeded although its answer is lost, data
  may be left in the output thread at unregistration, a process that is killed
  leaves its port taken, and a request does not say which registration of the port
  it belongs to. Whoever is registered must answer pings; data must arrive in order;
  who keeps trying must get a port that is free.
- **CPU, Stack, control flow**: interrupts come between any two instructions and
  share the stack with calls, frames and pushes. Everything must be put back as it
  was; handlers must run masked; a halted CPU must wake up.
- **Interrupt Controller**: FIFO, nothing lost; it has no bound.
- **Memory**: areas side by side, words across their borders, two of the areas
  computed from what another thread is writing.
- **Arithmetic, Operands**: results at the borders of bytes and words, signed and
  unsigned; decoding must invert encoding.
- **Clock, Aldebaran, Debugger**: order of starting and stopping; the debugger reads
  while the CPU writes; commands come before the clock has a queue for them; answers
  overtake each other; in debug mode the clock loop does not end.
- **Assembler**: addresses of the second pass are those of the first; offsets of
  parameters and variables are those of the frame that ENTER builds; what the CPU
  decodes after booting is what the source says.
- **Executable, boot**: what is loaded is what was saved; every interrupt, also one
  without a handler, must return.

## 2. Plan

The order is by importance: first the threads, where tests say least, then the
machine they serve, then its pure algorithms, then what is around it.

| Module | Models | State |
| --- | --- | --- |
| `InterruptController` | the queue; extended by its producers | done |
| `Timer`, `TimerProofs` | timer thread against SETTMR; its safety properties for all constants | done |
| `IOPortQueue` | abstract: an IOPort as a queue with an owner | done |
| `DeviceController`, `DeviceControllerProofs` | three threads, IOPorts, CPU side; all its safety properties and that it implements `IOPortQueue`, for all constants | done |
| `DeviceSession`, `DeviceSessionProofs` | the processes of devices on one `IOPortQueue`, crashes and restarts; all its safety properties | done |
| `CallStack` | abstract: the calling convention as a stack of frames | done |
| `Cpu`, `CpuProofs` | CPU, Stack, control flow over bytes; all its invariants, and that it implements `CallStack` | done |
| `Binary`, `Memory`, `MemoryProofs` | bytes, words and signs; the areas of the address space; borders, read after write, halves of words | done |
| `Operands`, `Execution`, `ExecutionProofs` | operands as assembled and as parsed; arithmetic, MOV and jumps; all its properties | done |
| `InstructionSet`, `Scope`, `Assembler`, `AssemblerProofs` | source code to opcode and back; slots in the frame; all its properties | done |
| `Boot` (proofs in `AssemblerProofs`) | executable files, boot image, boot loader | done |
| `Debugger`, `DebuggerProofs` | Aldebaran, Clock, Debugger and its page, from start to stop; all its safety properties | done |
| `Machine` | Timer, Device Controller and Cpu on one interrupt queue; the device tables read while they are written | left |

Abstract specifications: the calling convention (`CallStack`) and the IOPort
(`IOPortQueue`) are done; a subtimer as an atomic object (one SETTMR, one beat) is
not possible, since the code does not make it one (see the runs). No module of the
project uses a RECURSIVE operator, so that all can be proved about.

## 3. The modules

### InterruptController
`interrupt_queue`, a sequence. `Send` is `send`, `Check` is `check` with something
to return. `queue.Queue` is thread safe, so each is one step. `AcceptedNumbers` are
those that `send` does not refuse.

### Timer
State: the four fields of each `Subtimer`, `step_count`, `stop_event`; the records
`timer` and `cpu` say where the two threads are. Every read and write of a field is
a step: `_check_subtimer` is `ReadMode`, `ReadSpeed`, `ReadModulus`, `ReadPhase`,
`ReadInterruptNumber`, `SendInterrupt`, `ReadModeAgain`, `SwitchOff`; `set_config`
is `WriteMode`, `WriteSpeed`, `WritePhase`, `WriteInterruptNumber`, each with the
check in front of it: an operand that is refused raises, which ends the clock loop
and leaves the fields before it written and those behind it old. Operands are any
integers, since nothing checks `oplens` and a byte of the RAM holds whatever is
stored in it; the number of the subtimer is the index of a Python list, where -1 is
the last one. `send` has its own check (`SendInterrupt` ends the thread with
InvalidInterruptError); that it never comes to that is a result of `TypeOK`, not an
assumption. The clock loop is there as far as the timer sees it (`TakeInterrupt`,
`OtherInstruction`, `CheckTimer`), then `Timer.stop` (`SetStopEvent`, `Join`).
`step_count` grows for ever in the code and is kept modulo a common multiple of the
speeds, which nothing can tell apart. The variables named "history" record what
happened for the properties and influence nothing; `overtaken` marks a subtimer that
was set between the interrupt of its ONESHOT and the write of OFF, which will undo
the setting.

### IOPortQueue
What devices and programs can rely on: an IOPort has at most one owner, and a queue
of what was accepted while it had one; it gets a new owner only when it is free and
its queue is empty. It is the abstract specification of `DeviceController`, and
`DeviceSession` is built on it.

### DeviceController
State: the fields of each IOPort, registry and status table (a device's type and id
are one value), the queues, the two stop signals, and a record for each of the four
threads. The input thread handles one request at a time, in steps where it writes
what others read; the ping thread reads `registered`, then the address, then the
status, then writes; the output thread takes an item, then sends it. `host` and
`port` are one address: both are written and read together, and one that is missing
makes the request as invalid as two.

What is done by a device, or anybody else in the network, is a choice and is not
fair: that a request comes (`RequestArrives`), that its body does (`Register`,
`Unregister`, `ReceiveData`, or `NothingToDo` for one that is answered without any
change), that a ping ends (`PingEnds`: an answer, none, or an exception that nobody
catches, `PingFails`), that a delivery does (`OutputEnds`). A registration of a taken
port, data for a port without a device and an unregistration of a free one are
refused within their own actions; `NoRequest` is the poll interval of `serve_forever`
that passes.

A request to send data does not say who sends it: the code takes it from anybody, for
the device that is registered. So an item of an input queue is, in the model, the
device that was registered when it was accepted, and `FreshInput` says that nothing
is left over from an earlier registration, not who sent it (for that see
`RunningSendsAsItself` of `DeviceSession`). `ImplementsIOPort` maps the address of a
port to its owner and the input queue to the queue of `IOPortQueue`: the write of the
address is the moment of registration and of unregistration, whatever else is still
to be written.

### DeviceSession
`devices/device.py` and `run_device.py`: processes of devices that all use one
IOPort, and the machine as far as they see it, which is `IOPortQueue` with a
`backlog` of requests. `main` is the main thread (register, again after a second if
that fails; run; unregister; stop), `out` the output thread, `listening` the server
that answers the pings. `requests.post` is two steps: the request joins the backlog
of the machine's single-threaded server, the answer is read later (`reply`). The
code's protocol is kept as it is: a registration is for a port and says who asks,
data and an unregistration say only the port. A process may be started again after
its end.

The fault model: the machine is switched off and on (its ports are lost, the
requests in the backlog get an error), a process is killed, a connection breaks
before the headers of the answer are read while its request stays in the backlog. (A
break behind the headers raises what `_send_request` does not catch; it is not
followed.) The user presses
Ctrl-C while a device registers or runs. History variables count the registrations and
remember which of them a run believes is its own; the properties use them to say
whose request did something.

### CallStack and Cpu
`CallStack` is the abstract specification: instruction pointer, frame pointer, flag,
and a sequence of frames, where RET, LVRET, IRET and POPF give back what CALL,
ENTER, INT (or a hardware interrupt) and PUSHF put there. It is what
`docs/calling-convention.md` asks of a program and offers to it.

`Cpu` is the code: SP, BP, IP, flag and `halt`, the bytes of the stack, the
interrupt vectors, `push_word` and `pop_word` with their bounds, and one action for
each instruction that uses them. The program is not fixed: at any address of `Code`
any instruction may be executed, of any length, so what holds here holds for every
program. `OtherInstruction` is all the rest, the jumps included. Two restrictions
are assumed of the program, and both are guards on `frames`, a history variable: it
writes SP, BP and the stack by these instructions only, and it returns with the
instruction that fits what it called. `Convention!Spec` is then the refinement, with
the same names for the variables that both have. The operand of INT is assumed to have
an entry in the interrupt vector table. When an instruction raises, only the end of
the clock loop is modelled: what is left of the registers can be seen in the crash
dump only.

### Binary, Memory, Operands and Execution
`Binary` is `utils.py`: shifts and masks are divisions by `ByteSize`, 256 in the
code. `Memory` says which bytes and words can be read and written; its operators
take the content of the RAM as an argument, and the two device tables are constant
(the threads that write them are in `DeviceController`). `Operands` is
`instructions/operands.py`: `OperandOpcode` is what the assembler makes of an
operand, `ParseOperandBuffer` what the CPU makes of the bytes.

`Execution` has the registers, the RAM, IP and the instruction that has been parsed.
`Fetch` chooses an instruction and its operands, which the program may have at this
place, encodes and parses them; `Execute`, `Jump` and `Jmp` are the `do` methods.
Every instruction is an entry of a table (`Arithmetic`, `Jumps`): its kind, whether
it works on signed numbers, and which operands it reads. What raises an exception,
in which order, is `Succeeds`: reading, dividing, `to_bytes`, and at last the
destination. Registers check what they are given, the RAM does not. `oplens`, which
says which lengths of operands an instruction is meant for, is checked neither by
the assembler nor by the CPU, so neither here. An instruction that raises changes
nothing: it writes once, at its end.

`MCExecution` chooses the operands: every type of operand, both lengths, registers
and their halves, destinations that overlap sources, an address taken from a
register that is written, a destination that cannot be written.

### InstructionSet, Scope and Assembler
`InstructionSet` is the list of `instructions/instruction_set/__init__.py`: a name's
opcode and its number of operands. `Scope` is the scope of the macros: the slots
that PARAM and VAR declare, with their offsets from BP.

`Assembler` takes the files of a command line one after the other. A source is a
sequence of lines, and a line a sequence of words as the regular expressions of the
tokenizer find them. `IsWord` says what each kind of word carries: a literal of two
or four digits is a byte or a word, a reference has the registers, numbers and
lengths that its rule lets through. It is the assumption on the sources. `Tokenized`
is what the keyword sets make of a word, in upper case. `CollectLabels` is the first
look at all tokens; `EmptyLine`, `Instruction`, `InsertData`, `DefineConst` and
`Declare` are what one line does in one pass: its labels get their address, its
operands are substituted (`SubstituteVariable`, `SubstituteLabel`) and encoded by
`Operands`. ENTER begins a scope and LVRET ends it. The opcode is generated twice,
the second time with the addresses that the first has found (`SecondPass`).
`LabelError` and `LineError` stand for every exception of the assembler and the
macros, without saying which; like the code, they leave the remaining files alone.

`DecodedAsWritten` closes the circle: the source that was assembled is written as an
executable (`Boot`), loaded and booted, and what the CPU reads there with `Memory`
and parses with `Operands` is compared with what the source says, by definitions
that know nothing of the assembler's state: a label is at the line it stands on, a
variable is its only definition in sight, a parameter's offset is counted from the
end of its frame. `LabelsSettled` is the reason why two passes are enough.

### Boot
`utils/executable.py`, `utils/boot.py`, the boot image of `utils/config.py` and
`Aldebaran.boot`, as operators on sequences of bytes: `File` saves, `Loadable` and
`Loaded` load (with short files as `read` returns them, and the entry point that
makes a negative length), `BootImage` is IRET and the vectors, `LoadExecutable` the
boot loader, `BootedRam` all together.

### Debugger
The main thread is `Aldebaran.run` with `Clock.run` in it, from the start of the
first thread to the end of the last: `StartDebugger` to `RunClock`, `TakeCommand`,
`Cycle`, `Step`, `Check`, and `StopTimer` to `JoinServer`. The CPU is reduced to the
number of steps it has done; a step can be SHUTDOWN or raise, and it may lead IP or
SP to where the next instruction or the stack cannot be read (`Unreadable`, the
numbers of steps after which that is so). The server thread handles one request at a
time: a request for steps waits for its body, which comes (`HandleStep`), is refused
(`RefuseStep`) or never comes at all; it puts a number in `debugger_queue`, which is
`None` (`NoQueue`) until the clock runs, so that the handler raises before; a
request for the state reads the registers first and the rest later, while the CPU
goes on (`AnswerInternal`), or ends with a SegfaultError (`FailInternal`). The page
polls, asks for steps when the user clicks, and takes over the answers in whatever
order they come. `StopController` is `DeviceController.stop` returning, which a
silent device can prevent for ever. Ctrl-C ends the clock; while the machine is
started or stopped it leaves `run` where it is (`left`). The timer may die at any
point, as in `Timer`.

### MC modules and faulty variants
`MCDeviceController` and `MCCpu` define a symmetry and a view for TLC. The view
leaves out the bytes below SP, which no instruction reads before it writes them, and
makes one state of all the states after an error. The other MC modules define
constants; `MCTimer` has operands of SETTMR for the paths through `set_config`.

Definitions called "Faulty variant of ..." are not part of the specification. They
are plausible mistakes, one for each property, that show the property notices them:
put in the place of the definition they name, each breaks it.

## 4. The runs

| Run | Configuration | Shows |
| --- | --- | --- |
| `timer` | `Timer.cfg`, MCTimer | two subtimers, a refusal at each field: type, settled configuration, ONESHOT fires at most once, exact beats, PERIODIC goes on whatever is done to the other subtimer, the machine stops |
| `controller_one` | `DeviceController_one.cfg`, MCDeviceController | two devices compete for one port: type, port and registry agree, fresh input, matching interrupts, nobody displaced; the threads implement `IOPortQueue` |
| `controller_live` | `DeviceController_live.cfg`, DeviceController | `stop` returns, unless a device keeps a request pending for ever |
| `controller_two` | `DeviceController_two.cfg`, DeviceController | two IOPorts: pings go on at each whatever happens at the other, unless a device keeps its ping pending for ever |
| `session` | `DeviceSession.cfg`, MCDeviceSession | two devices, restarts, Ctrl-C and one disturbance: who is registered answers, data in order and only as that of the running sender, registrations are kept, `stop` of a device returns, a free port is taken |
| `cpu` | `Cpu.cfg`, MCCpu | stack intact, frame pointers chained, handlers masked, the calling convention kept, HLT ends |
| `execution` | `Execution.cfg`, MCExecution | decoding inverts encoding, exact results, nothing else changed, signed and unsigned agree on the bits, jumps follow the order |
| `assembler` | `Assembler.cfg`, MCAssembler | slots lie apart in the frame; the second pass moves no label; what is assembled, saved, loaded and booted is decoded as it was written |
| `debugger` | `Debugger.cfg`, Debugger | the CPU does the steps that were accepted and no other; the page comes to show where the steps led, if that can be read; every thread ends, unless a device or a client holds one |

Three runs show that the code does not do what the documentation says; each violates
one property, and TLC prints the steps.

| Run | Configuration | The documentation says | The code |
| --- | --- | --- | --- |
| `timer_beating` | `Timer_beating.cfg`, MCTimer | the step counter increases at every beat | a speed set to 0 between its two reads kills the timer thread, and the clock then stops the machine |
| `controller_ping` | `DeviceController_ping.cfg`, MCDeviceController | all registered devices are pinged every second | an unregistration between two reads of the ping thread kills it |
| `controller_turn` | `DeviceController_turn.cfg`, DeviceController | the data is sent to the device | one failed delivery ends the output thread, and the rest stays |

What else modelling has shown, within what the properties allow:

- A beat between two writes of SETTMR can send interrupt 0 instead of the specified
  one. A subtimer that is set again between the interrupt of its ONESHOT and the
  write of OFF is switched off without its new interrupt; `ConfigSettled` says that
  this happens in that moment only. A SETTMR that is refused has set the mode, and
  perhaps speed and phase, of a subtimer that goes on beating until the machine is
  stopped.
- A device that accepts a connection and stays silent holds the ping or the output
  thread for ever, and `stop` with it; a request whose body does not come holds the
  input thread, or the debugger. The properties say in their antecedents that it does
  not (`PingsEnd`, `OutputsEnd`, `BodiesEnd`, `ControllerStops`).
- A byte of the RAM keeps whatever number an instruction stores in it, and a later
  read finds a number that is no byte. A register refuses it.
- The page of the debugger never shows a state whose next instruction cannot be read:
  `_get_internal_state` raises a SegfaultError, and the page says that it is offline.
- Data that a device still had to send when it unregistered is taken as that of the
  next device, if there is one by then. `RunningSendsAsItself` says that otherwise
  this happens only to a device that is outdated: somebody has been registered since
  the registration that its process knows of. A device whose
  registration is outdated, because the machine was restarted or another one ended
  it, unregisters whoever has the port (`KeepsRegistration`).
- A device that is killed, or gives up a registration that was on its way, leaves
  its port taken until the machine is restarted or somebody's unregistration comes
  to it (`RegisteredAnswers` excludes it by `fault`). The `except DeviceError`
  around `_register` is never reached.
- The first pass has labels at 0, so a reference from beyond half a word forward to
  a label fails in the first pass although its final distance would fit. The example
  `jmp ^0xfffb` of the docs cannot be assembled. A label that is a keyword in lower
  case is not refused where it is defined; it can be referred to as `^ax`, but
  not by its bare name, which is the keyword.
  `run_assembler.py` stops at the first file that fails.
- SETTMR with five operands like `[0x1234+0x56]` has 20 bytes behind its opcode, and
  is assembled. The CPU reads 16 of them and cannot decode it. `DecodedAsWritten`
  asks for the operands of an instruction only where they fit into the buffer.
- An executable longer than the space below the default interrupt handler overwrites
  handler and vectors silently. An entry point that makes the extra header one byte
  too short (length -1) makes all the rest of the file extra header.
- A command of the debugger after SHUTDOWN is answered as accepted and not executed;
  one before the clock runs closes the connection. The debug loop notices a dead
  timer only at its next step. Ctrl-C while threads are started or stopped leaves
  threads behind, which keep the process.

### Bounds, and why they are enough

- `Timer`: two subtimers, so that there is one before and one behind another, and
  the numbers -1, 0 and 2: the last of the list, the first, and one that does not
  exist. Of the operands three are valid, one of each mode, with the speeds 0, 1
  and 2 (the cases of the code: every beat, every beat, modulus) and two interrupt
  numbers, to tell an old one from a new one; five are refused, at the mode, the
  speed, the phase (of a subtimer with and without a speed) and the interrupt number,
  so that the fields before it are written. `MaxPending` keeps the queue short: a
  beat starts only when its interrupts fit. The timer never looks at the queue, so no
  behaviour of it is lost (853,072 states).
- `DeviceController`: `MaxStatus` 1 stands for 255: zero, and the limit. Two devices
  are enough for one to compete with another and to follow it on a port; two items
  of input to have one of before and one of now (`controller_one`, 1,365,358 states).
  The IOPorts share the queues and the threads; the safety properties are checked for
  one, and proved for any number. The ping thread goes from port to port, so
  `controller_two` has two, without data (336,870 states); `stop` looks at no port,
  and `controller_live` has one (243,395 states). `MaxPending`, `MaxInput` and
  `MaxOutput` are guards where new work begins (a request, a ping, an OUT), never in
  the middle of it. The real queues are unbounded.
- `DeviceSession`: two devices; the sender is started twice and gives 2 items to
  `send_data` in its first run and 1 in the second, so that items of two runs meet;
  the other device is started once. One disturbance: with it every single fault at
  every point is there (124,428 states). Two faults at once are covered by the
  proofs of the invariants, not by the run.
- `Cpu`: a byte has 4 values, so that a word is two different bytes; the stack has
  10 bytes, enough for a subroutine (CALL 2, ENTER 4) interrupted (4), and for it to
  overflow at every instruction. Two addresses have instructions, so that a return
  address differs from a call's target, and the third is a segmentation fault.
  `MaxPushes` bounds what PUSH and PUSHF have on the stack at a time; other frames
  are bounded by the stack. At most one interrupt is pending: the CPU looks at the
  first only.
- `Execution`: a byte has 4 values, so TLC sees every value of bytes and words,
  signed and unsigned, and every result around their ends. (The opbyte, which the
  code divides into bits, keeps its 8 bits.) The RAM has two bytes, one word; a
  table of one byte each follows it. `OperandBufferSize` is 10, so that the longest
  instructions do not fit, as those with five operands do not fit the 16 bytes of
  the code. A byte of the RAM may hold any number; `MinCell` and `MaxCell` bound
  what the program puts there, one more than a byte holds.
- `Assembler`: all programs of four labelled lines out of eight, all of an ENTER and
  four lines out of twelve about scopes, and one for each way of being wrong. A byte
  has 20 values, so that half a word is 200 bytes: labels within reach and out of
  it, forwards and backwards. The RAM has 400 bytes; a program too long for it is
  assembled but not decoded.
- `Debugger`: requests for two steps (one is too few for a state in between) and for
  an invalid number, two of the user, so that one waits behind the other; the page
  polls when fewer than `MaxOpen` of its requests and answers are open, otherwise it
  would wait for ever behind its own polls. `MaxCycles` bounds a machine without
  debugger. What one step leads to cannot be shown (`Unreadable`), what two and four
  do can (665,107 states).

Deadlock is not checked where the system may really stop: in `DeviceSession` all
devices may have ended, in `Assembler` all files are assembled or one has failed, in
`Debugger` the machine goes off.

### Fairness, and why the code justifies it

The threads of one Python process are not starved (weak fairness for the steps of
each). Nothing is assumed of the program, the devices or the network: no fairness for
requests, IN, OUT or SHUTDOWN, nor for the end of anything that a thread waits for
from outside. `requests.post` is called without a timeout, and `rfile.read` waits for
a body as long as it takes. A property that needs such a wait to end says so in its
antecedent: `PingsEnd`, `OutputsEnd` and `BodiesEnd` in `StopEnds` of
`DeviceController` and `PingsGoOn`, `BodiesEnd` and `ControllerStops` in
`ScreenCatchesUp` and `MachineStops`. Without them TLC finds each of these violated.
The liveness properties that need room in a bounded queue say that, too. In `Cpu` the
clock loop calls `step` again and again.

In `DeviceSession` each thread of a device (`MainStep`, `OutStep`) and the machine's
server (`Serve`) is fair; the user, the program that reads the port, and the
disturbances are not. In `Debugger` the main thread, the timer at its join and the
server thread are fair; so are `Poll` and `Receive(1)`: the page stays open and its
answers arrive. The user's clicks, Ctrl-C, the bodies of requests and the return of
`DeviceController.stop` are not.

## 5. The hazards

`PROJECT.json` lists them with their lines: races on IOPorts and subtimers, the life
of devices, the stack, the borders of bytes and words, the debugger beside the
clock, the passes of the assembler. Those without a property, and why:

- the two threads that change a status (device_controller.py:124): modelled step by
  step, but a late or double announcement breaks no promise of the code;
- a program that reads the registry while it is written (device_controller.py:353):
  for `Machine`;
- the address that OUT takes early and the output thread uses late (ioport.py:69):
  modelled, and nothing in the code prevents it;
- a number beyond a byte in the RAM (ram.py:41): nothing prevents it; `Execution` and
  `Timer` take it into account;
- the end of the RAM under an instruction (cpu.py:81): for `Machine`;
- the borders of the areas (virtual_ram.py:56) and an executable that reaches the
  vectors (boot.py:65): proved, for every size, instead of run;
- a label out of reach in the first pass (assembler.py:273): a refusal, which TLC
  reaches as a `LineError`.

## 6. The proofs

`TimerProofs`, for every number of subtimers, any integers as operands and every
queue bound (`TimerAssumption`):

- `TimerTypeOK`: type correctness, by one lemma per part of `TypeOK`. The checks of
  `set_config` keep the fields in their ranges, and the timer thread sends what it
  read from such a field: hence the number is always one that `send` accepts, and
  InvalidInterruptError cannot end the thread.
- `TimerConfigSettled`. `ConfigSettled` is not inductive: it says nothing while a
  SETTMR is in progress. The strengthening says which fields have been written, and
  checked, at each point of `set_config`, and for a subtimer that is OFF without
  having been set OFF how that came: its ONESHOT has fired, or it was set between an
  interrupt and the write of OFF (`overtaken`), which the invariant follows through
  the timer thread.
- `TimerOneshotAtMostOnce`. A ONESHOT that has fired once must be known to be
  switched off or on its way: the invariant follows the timer thread from the
  interrupt to the write of OFF, through every place where a SETTMR may come
  between.
- `TimerBeatExact`. The invariant says, for the subtimer that the thread is at and
  that nobody touched in this beat, what the thread has found out about it so far;
  for those behind it that the claim holds already; for those before it that nothing
  was sent.

`DeviceControllerProofs`, for any number of IOPorts up to the 16 that the interrupt
numbers leave room for, any set of devices and any bounds:

- `DeviceControllerTypeOK`, one thread after the other.
- `DeviceControllerPortConsistent` and `DeviceControllerNoDisplacement`. Between the
  start of a registration and its last write the fields of the port disagree; the
  invariant `PortInv` says how far it has come at each point of the input thread,
  and in particular that the device which is about to be written finds a port
  without address and flag and with an empty input queue. Only the input thread
  writes those fields, so the tests at the start are still true when the writes
  come: this is why a single-threaded HTTP server needs no lock here.
- `DeviceControllerFreshInput`, from `PortInv`: an address is only set where the
  input queue is empty, only a registered port gets data, and IN only removes. What
  is in a queue was accepted during the present registration, whoever sent it.
- `DeviceControllerInputMatchesInterrupts`. An account: the items of an input queue
  are those announced and unread, those whose interrupt is still waiting, and the one
  the input thread has put in and not announced (`InputCounted`). It rests on what
  `Append` and `Tail` do to the number of places where an interrupt is in the queue.
- `DeviceControllerRegistrationsAnnounced`, by the account of `DevicesCounted`: what
  the program has been told, what waits in the interrupt queue and what is about to
  be announced add up to the registered IOPorts. The interrupts that the ping
  thread sends in between do not count.
- `DeviceControllerImplementsIOPort`: the refinement of `IOPortQueue`. `PortInv`
  supplies the guards of its actions; all steps of the ping and output threads, and
  all but one of each request, stutter.

`DeviceSessionProofs`, for any number of devices, runs, items and disturbances:

- `DeviceSessionTypeOK`, which no run needs to repeat: `TypeOK` is only proved.
- `DeviceSessionRegisteredAnswers`. What must be known is what may still wait in the
  backlog: `SessionInv` says that every wanted request fits what its sender's thread
  is doing, that each thread waits for one at most, that the owner believes it is
  (or soon will be told), that a process that is up listens, and that nothing waits
  at a machine that is off.
- `DeviceSessionSentInOrder`. `RunInv` says that a run has at most one item in the
  backlog, that those of earlier runs are before it, and that a process ends only
  after its output thread; `ItemInv` says which number each item must have, from
  `send_data` to the machine. A killed process may leave an item behind that is
  taken while the next run already sends: the items are told apart by their run.
- `DeviceSessionKeepsRegistration` and `DeviceSessionRunningSendsAsItself`, from
  `KnownInv`: as long as the latest registration is the one that a process knows of,
  the IOPort is its own or free; and what is in the backlog says the same of its
  sender.

`CpuProofs`, for every size of a byte and of the stack, every set of addresses with
instructions, and every program that keeps to the convention as `Cpu` says:

- `CpuTypeOK` and `CpuStackIntact`, together: what is popped is a word because
  frames were stored as words (`BytesOfWord`, `StoreLoad`). `StackIntact` is not
  inductive, since it does not say that frames keep off each other. `Layout` does:
  each begins where the one below it ends, and SP is the end of the last. That a
  frame is then above all deeper ones would be an induction over their number in
  every step; it is a part of the invariant instead (`Descending`), and a step only
  has to show it for the frame it adds.
- `CpuFramePointerChain`: `Chain` is the property stated for any sequence of frames.
  That the innermost ENTER below a frame exists, and is not changed by frames above
  it, is carried along for the same reason.
- `CpuHandlersMasked`. `Masked` adds the flags that are saved on the stack: above a
  masked handler no PUSHF and no INT has saved an enabled flag, so that POPF and
  IRET cannot enable interrupts either.
- `CpuKeepsConvention`: the refinement of `CallStack`, one lemma per kind of step.
  Pushing maps directly; for RET, LVRET, IRET and POPF the invariant says that the
  bytes at SP are what the frame remembers. The guards of the code (bounds of the
  stack) only make it do less.

`MemoryProofs`, for every even size of a byte and all sizes of the areas:

- `WordsInOneArea`, `BytesInAnArea`: the tests of `Memory`, `RAM`, `VirtualRAM` and
  `DeviceController`, each with its own `- 1`, together admit the bytes of the three
  areas and the words that lie in one of them, no more and no less.
- `ReadAfterWrite`, `HalvesIndependent`, `SignedRoundTrip`: by the uniqueness of
  quotient and remainder (`DivisionUnique`), which the prover has to be told.
- `Induction`, for all that follows: a set of natural numbers that has 0, and with a
  number the next one, has them all. The induction theorems of the library take an
  operator for what is proved, which the provers cannot instantiate; a set they can,
  so a step of a proof defines the set of the numbers it holds for.

`ExecutionProofs`, for every even size of a byte, every memory and operand buffer,
and all operands that the tokenizer can make (`IsOperand`, the assumption on the
operands; `Encodable` says which of them the assembler refuses):

- `ExecutionDecodedAsAssembled`: decoding inverts encoding. `OpByteRoundTrip` takes
  the opbyte apart again (it has its 8 bits whatever `ByteSize` is),
  `FieldsOfOperand` finds the numbers behind it, `OperandRoundTrip` puts both
  together, also where other bytes follow, and `Turns` does it for the operands one
  after the other, as many as there are. (These are lemmas of `MemoryProofs`, since
  the assembler needs them too.)
- `ExecutionTypeOK`. It needs the other: what an instruction stores depends on the
  operands it has parsed. `SetRegisterKeepsWords` says that the check of a byte
  register is enough for its word; `Decoded`, the part of `ExecutionInv` that is
  neither, that the instruction is still one of the program's, so that what goes to
  the RAM stays within the bounds.
- `ExecutionOnlyDestination`, from the writes of `Memory`, which lie side by side.
- `ExecutionResultExact`. `ComputesExactly` says that `Compute` is what `Exact`
  describes without dividing, `ValueAfterSet` that an operand which has been set is
  read back as it was set, also where it overlaps what the instruction has read, and
  `CompletedValue` puts both together, for signed and unsigned instructions.
- `ExecutionSameBits`. A signed and an unsigned reading of an operand differ by
  nothing or by the number of values it can have (`SignedDiffers`), and so do results
  of sums, differences and products (`ResultsDiffer`), up to a multiple of it.
- `ExecutionJumpsRight`, with `FirstBitInverted`: adding half the number of values,
  modulo all of them, puts signed numbers in the order of unsigned ones.

`AssemblerProofs`, about executables and booting, for every signature, every size of
byte, RAM and vector table that `BootAssumption` allows:

- `ExecutableRoundTrip`: what `load_from_file` makes of the file that `save_to_file`
  wrote. `Concatenated` and `FileLayout` say which part of the file each read gets.
- `InterruptsReturnAfterBoot`: after booting an executable that ends below the
  default handler every vector leads to an IRET.

And about the assembler, for all sources:

- `AssemblerLabelsSettled`. What must be shown is that a line has the same length in
  both passes, although its labels have other addresses in the second. The length of
  an operand depends on its type and on registers, never on an address
  (`OpcodeLength`, `SameLengths`), so there is one layout of the lines
  (`Positions`) for both passes. The invariant is that the opcode generated so far
  follows it, that a label has in the second pass the position of the line it stands
  at, and that constants and scope are those the lines above define (`Env`): which
  variables can be substituted decides which lines are accepted.
- `AssemblerDecodedAsWritten`. From left to right: `Env` says that whatever an
  argument is substituted by is the meaning that the source gives it, with a single
  definition in sight, because a name that is defined is refused; `GoodLine` that
  each line which the second pass has parsed has the opcode of its instruction with
  the operands it stands for, and `Placed` that these bytes are at its position in
  the whole. `BootedCode` finds the whole in the RAM (with `ExecutableRoundTrip`),
  `PartsOfFlattened` the part of the line in it, and `OperandsDecoded` what the CPU
  makes of it, by the lemmas of `MemoryProofs`. `ArgumentMeans` compares. Induction
  is over lines (their positions), over the words of a line (its operands and data),
  over the `.CONST`s that one takes from another (`LiteralOf`), and over the
  declarations of a scope, whose byte counts `BytesUpTo` states as the number of
  bytes in sight, without a sum.
- `AssemblerFrameSlots`. The invariant is that the scope is a `GoodScope`: slots lie
  one behind the other in the order of their declaration, below the count of bytes
  that is checked against the maximum; `GoodScopeApart` derives the distances from
  BP.

`DebuggerProofs`, for any number of requests and clicks and any numbers of steps:

- `DebuggerTypeOK`.
- `DebuggerStepsAsAsked`. Its reason is that the steps done, those left of the
  present command and those of all commands in the queue are no more than were
  granted. The sum over the queue would be a recursion; `WithinGranted` asks for the
  account instead, the balance after each command, and each step of the machine has
  to show the next account: without its first entry when a command is taken, with one
  more when one is put. `RunsCommands` says when the clock asks for a command.

The assumptions on the constants are evaluated by TLC in every run of the module.

With that, every invariant and every action property that a run checks is proved for
all constants, and so are the refinements. Only model-checked are:

- the liveness properties, since the prover does not reason about fairness:
  `PeriodicKeepsFiring` and `StopEnds` of `Timer`, `PingsGoOn` and `StopEnds` of
  `DeviceController`, `StopReturns` and `FreePortIsTaken` of `DeviceSession`,
  `HaltEnds` of `Cpu`, `ScreenCatchesUp` and `MachineStops` of `Debugger`;
- the findings, which are counterexamples of TLC.

## 7. Not modelled, and why

- Time: the periods of beats, pings, polls and the clock. Every order of steps that
  some timing could produce is allowed.
- The regular expressions of the tokenizer: text processing. What they find is where
  `Assembler` begins; the values of literals are given.
- `devices/pongmonitor.py`: it imports modules that are no longer in the repository
  and cannot start.
- In the debugger the view of the memory and the text of instructions, and how the
  page renders them.
- What is wrong with an HTTP request that is refused: malformed, unknown, a wrong
  header, too much data are one step that changes nothing (`NothingToDo`,
  `RefuseStep`). One whose body never comes is modelled.
- What POP, IN and the printing instructions do with their operands.
- Ctrl-C at a device that already unregisters or stops.
- Logging, crash dump, statistics, command lines, the generated docs: output and
  input only. `BootImage.save` and `load` are called by nothing but tests.

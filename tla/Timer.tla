-------------------------------- MODULE Timer --------------------------------
(***************************************************************************)
(* hardware/timer.py: the timer thread, which goes over the subtimers at   *)
(* every beat, and the CPU thread, which reprograms a subtimer with SETTMR *)
(* while the timer thread may be in the middle of it.  There is no lock:   *)
(* every read or write of a field of a Subtimer is a step of its own.      *)
(*                                                                         *)
(* _step_count is kept modulo StepModulus, a common multiple of all the    *)
(* speeds, which no _step_count % speed can tell from the real count.      *)
(***************************************************************************)
EXTENDS InterruptController, Integers

CONSTANTS
    NumberOfSubtimers,
    SubtimerOperands,   \* the numbers of subtimers a program passes to SETTMR,
    ConfigOperands,     \* and the other four operands
    StepModulus,
    MaxPending          \* BOUND: no beat starts that could overfill the queue

Subtimers == 0 .. NumberOfSubtimers - 1

\* Operands may be any numbers: the lengths in oplens are checked nowhere, and
\* a byte of the RAM holds whatever was written to it.
Configs == [mode : Int, speed : Int, phase : Int, irq : Int]

ASSUME TimerAssumption ==
    /\ NumberOfSubtimers \in Nat \ {0}
    /\ SubtimerOperands \subseteq Int
    /\ ConfigOperands \subseteq Configs
    /\ StepModulus \in Nat \ {0}
    /\ \A config \in ConfigOperands : config.speed > 1 => StepModulus % config.speed = 0
    /\ MaxPending \in Nat

NumberOfInterrupts == 256   \* config.number_of_interrupts
InterruptNumbers == 0 .. NumberOfInterrupts - 1

OFF == 0
ONESHOT == 1
PERIODIC == 2
SubtimerModes == {OFF, ONESHOT, PERIODIC}

None == NumberOfInterrupts   \* no interrupt number

VARIABLES
    mode, speed, phase, interrupt_number,  \* the fields of each Subtimer
    step_count, stop_event,
    timer,      \* the timer thread: where it is, which subtimer, what it read
    cpu,        \* the CPU thread: where it is, and the operands of SETTMR
    conf,       \* history: the operands of the last SETTMR of each subtimer
    fired,      \* history: interrupts sent since the mode was written (0, 1, 2+)
    sent,       \* history: the interrupt each subtimer sent in this beat
    clean,      \* history: no SETTMR touched the subtimer in this beat
    overtaken   \* history: the mode was written while the timer thread was
                \* about to switch the subtimer off

fields  == <<mode, speed, phase, interrupt_number>>
history == <<conf, fired, sent, clean, overtaken>>
vars == <<interrupt_queue, fields, step_count, stop_event, timer, cpu, history>>

InitialConfig == [mode |-> OFF, speed |-> 0, phase |-> 0, irq |-> 0]

Init ==
    /\ InterruptInit
    /\ mode = [s \in Subtimers |-> OFF]
    /\ speed = [s \in Subtimers |-> 0]
    /\ phase = [s \in Subtimers |-> 0]
    /\ interrupt_number = [s \in Subtimers |-> 0]
    /\ step_count = 0 /\ stop_event = FALSE
    /\ timer = [pc |-> "mode", sub |-> 0, val |-> 0]
    /\ cpu = [pc |-> "run", sub |-> 0]
    /\ conf = [s \in Subtimers |-> InitialConfig]
    /\ fired = [s \in Subtimers |-> 0]
    /\ sent = [s \in Subtimers |-> None]
    /\ clean = [s \in Subtimers |-> TRUE]
    /\ overtaken = [s \in Subtimers |-> FALSE]

-----------------------------------------------------------------------------
(* The timer thread: _timer_thread_run and _check_subtimer. *)

TimerOnly == UNCHANGED <<cpu, speed, phase, interrupt_number, stop_event,
                         conf, clean, overtaken>>
ReadOnly == TimerOnly /\ UNCHANGED <<mode, interrupt_queue, step_count, fired, sent>>

\* Go on to another read of the same subtimer, remembering val.
Goto(pc, val) == timer' = [timer EXCEPT !.pc = pc, !.val = val]

\* _check_subtimer returns: the next subtimer, or the end of the beat.
NextSubtimer ==
    timer' = IF timer.sub + 1 \in Subtimers
             THEN [pc |-> "mode", sub |-> timer.sub + 1, val |-> 0]
             ELSE [pc |-> "beat", sub |-> 0, val |-> 0]

ReadMode ==
    /\ timer.pc = "mode"
    /\ IF mode[timer.sub] = OFF THEN NextSubtimer ELSE Goto("speed", 0)
    /\ ReadOnly

\* Faulty variant of ReadSpeed: speed 2 taken for "every beat".
ReadSpeedOffByOne ==
    /\ timer.pc = "speed"
    /\ Goto(IF speed[timer.sub] > 2 THEN "modulus" ELSE "irq", 0)
    /\ ReadOnly

ReadSpeed ==
    /\ timer.pc = "speed"
    /\ Goto(IF speed[timer.sub] > 1 THEN "modulus" ELSE "irq", 0)
    /\ ReadOnly

\* The speed is read again for the modulus; ZeroDivisionError, which the
\* thread does not catch, when it has become 0 since ReadSpeed.
ReadModulus ==
    /\ timer.pc = "modulus"
    /\ \/ /\ speed[timer.sub] = 0
          /\ Goto("crashed", 0)
       \/ /\ speed[timer.sub] # 0
          /\ Goto("phase", step_count % speed[timer.sub])
    /\ ReadOnly

ReadPhase ==
    /\ timer.pc = "phase"
    /\ IF timer.val = phase[timer.sub] THEN Goto("irq", 0) ELSE NextSubtimer
    /\ ReadOnly

ReadInterruptNumber ==
    /\ timer.pc = "irq"
    /\ Goto("send", interrupt_number[timer.sub])
    /\ ReadOnly

\* InvalidInterruptError, an AldebaranError, ends the thread.
SendInterrupt ==
    /\ timer.pc = "send"
    /\ \/ /\ Send(timer.val)
          /\ Goto("oneshot", 0)
          /\ fired' = [fired EXCEPT ![timer.sub] = IF @ < 2 THEN @ + 1 ELSE 2]
          /\ sent' = [sent EXCEPT ![timer.sub] = timer.val]
       \/ /\ timer.val \notin AcceptedNumbers
          /\ Goto("crashed", 0)
          /\ UNCHANGED <<interrupt_queue, fired, sent>>
    /\ TimerOnly /\ UNCHANGED <<mode, step_count>>

\* Faulty variant of ReadModeAgain: only a subtimer with a speed is switched off.
ReadModeAgainWithSpeed ==
    /\ timer.pc = "oneshot"
    /\ IF mode[timer.sub] = ONESHOT /\ speed[timer.sub] > 0
       THEN Goto("off", 0) ELSE NextSubtimer
    /\ ReadOnly

ReadModeAgain ==
    /\ timer.pc = "oneshot"
    /\ IF mode[timer.sub] = ONESHOT THEN Goto("off", 0) ELSE NextSubtimer
    /\ ReadOnly

SwitchOff ==
    /\ timer.pc = "off"
    /\ mode' = [mode EXCEPT ![timer.sub] = OFF]
    /\ NextSubtimer
    /\ TimerOnly /\ UNCHANGED <<interrupt_queue, step_count, fired, sent>>

\* No SETTMR of s is in progress, or was broken off by an error.
Quiet(s) == cpu.pc \in {"run", "check"} \/ cpu.sub # s

\* Faulty variant of EndBeat: the step count stands still.
EndBeatNoCount ==
    /\ timer.pc = "beat"
    /\ stop_event \/ Len(interrupt_queue) + NumberOfSubtimers <= MaxPending
    /\ timer' = [pc |-> IF stop_event THEN "done" ELSE "mode", sub |-> 0, val |-> 0]
    /\ sent' = [s \in Subtimers |-> None]
    /\ clean' = [s \in Subtimers |-> Quiet(s)]
    /\ UNCHANGED <<interrupt_queue, fields, step_count, stop_event, cpu, conf,
                   fired, overtaken>>

EndBeat ==
    /\ timer.pc = "beat"
    /\ stop_event \/ Len(interrupt_queue) + NumberOfSubtimers <= MaxPending
    /\ step_count' = (step_count + 1) % StepModulus
    /\ timer' = [pc |-> IF stop_event THEN "done" ELSE "mode", sub |-> 0, val |-> 0]
    /\ sent' = [s \in Subtimers |-> None]
    /\ clean' = [s \in Subtimers |-> Quiet(s)]
    /\ UNCHANGED <<interrupt_queue, fields, stop_event, cpu, conf, fired, overtaken>>

TimerStep == \/ ReadMode \/ ReadSpeed \/ ReadModulus \/ ReadPhase
             \/ ReadInterruptNumber \/ SendInterrupt \/ ReadModeAgain
             \/ SwitchOff \/ EndBeat

IsAlive == timer.pc \notin {"done", "crashed"}

-----------------------------------------------------------------------------
(* The CPU thread, under Clock.run: an instruction or an interrupt, then   *)
(* the test of timer.is_alive(); at the end Aldebaran.run stops the timer. *)

CpuOnly == UNCHANGED <<timer, step_count, sent>>
CpuGoto(pc) == cpu' = [cpu EXCEPT !.pc = pc]

\* The index of a Python list: a negative one counts from the end.
ValidIndex(s) == s \in -NumberOfSubtimers .. NumberOfSubtimers - 1
SubtimerAt(s) == IF s < 0 THEN NumberOfSubtimers + s ELSE s

\* SETTMR is decoded: a subtimer that does not exist raises NoSubtimerError.
SetSubtimer(s, config) ==
    /\ cpu.pc = "run"
    /\ \/ /\ ~ValidIndex(s)
          /\ CpuGoto("stop")
          /\ UNCHANGED <<conf, clean>>
       \/ /\ ValidIndex(s)
          /\ cpu' = [pc |-> "mode", sub |-> SubtimerAt(s)]
          /\ conf' = [conf EXCEPT ![SubtimerAt(s)] = config]
          /\ clean' = [clean EXCEPT ![SubtimerAt(s)] = FALSE]
    /\ CpuOnly /\ UNCHANGED <<fields, interrupt_queue, stop_event, fired, overtaken>>

\* Subtimer.set_config, field by field: a bad operand raises, with the fields
\* before it already written, and ends the clock loop.
SettingOnly == CpuOnly /\ UNCHANGED <<interrupt_queue, stop_event, conf, clean>>
ModeOnly == SettingOnly /\ UNCHANGED <<speed, phase, interrupt_number>>

\* The thread has read ONESHOT, or will read it next, after a send that belongs
\* to the mode before: SwitchOff will undo the new mode.
AboutToSwitchOff(s, newmode) ==
    timer.sub = s /\ (timer.pc = "off" \/ (timer.pc = "oneshot" /\ newmode = ONESHOT))

SetMode(s, newmode) ==
    /\ mode' = [mode EXCEPT ![s] = newmode]
    /\ fired' = [fired EXCEPT ![s] = 0]
    /\ overtaken' = [overtaken EXCEPT ![s] = AboutToSwitchOff(s, newmode)]

\* Faulty variant of WriteMode: OFF returns early.
WriteModeOffReturns ==
    /\ cpu.pc = "mode"
    /\ conf[cpu.sub].mode \in SubtimerModes
    /\ SetMode(cpu.sub, conf[cpu.sub].mode)
    /\ CpuGoto(IF conf[cpu.sub].mode = OFF THEN "check" ELSE "speed")
    /\ ModeOnly

WriteMode ==
    /\ cpu.pc = "mode"
    /\ \/ /\ conf[cpu.sub].mode \in SubtimerModes
          /\ SetMode(cpu.sub, conf[cpu.sub].mode)
          /\ CpuGoto("speed")
       \/ /\ conf[cpu.sub].mode \notin SubtimerModes
          /\ CpuGoto("stop")
          /\ UNCHANGED <<mode, fired, overtaken>>
    /\ ModeOnly

ValidSpeed(config) == config.speed >= 0

WriteSpeed ==
    /\ cpu.pc = "speed"
    /\ \/ /\ ValidSpeed(conf[cpu.sub])
          /\ speed' = [speed EXCEPT ![cpu.sub] = conf[cpu.sub].speed]
          /\ CpuGoto("phase")
       \/ /\ ~ValidSpeed(conf[cpu.sub])
          /\ CpuGoto("stop")
          /\ UNCHANGED speed
    /\ SettingOnly /\ UNCHANGED <<mode, phase, interrupt_number, fired, overtaken>>

ValidPhase(config) ==
    config.phase \in IF config.speed < 1 THEN {0} ELSE 0 .. config.speed - 1

WritePhase ==
    /\ cpu.pc = "phase"
    /\ \/ /\ ValidPhase(conf[cpu.sub])
          /\ phase' = [phase EXCEPT ![cpu.sub] = conf[cpu.sub].phase]
          /\ CpuGoto("irq")
       \/ /\ ~ValidPhase(conf[cpu.sub])
          /\ CpuGoto("stop")
          /\ UNCHANGED phase
    /\ SettingOnly /\ UNCHANGED <<mode, speed, interrupt_number, fired, overtaken>>

\* Faulty variant of WriteInterruptNumber: the number is not validated.
WriteInterruptNumberUnchecked ==
    /\ cpu.pc = "irq"
    /\ interrupt_number' = [interrupt_number EXCEPT ![cpu.sub] = conf[cpu.sub].irq]
    /\ CpuGoto("check")
    /\ SettingOnly /\ UNCHANGED <<mode, speed, phase, fired, overtaken>>

ValidInterruptNumber(config) == config.irq \in InterruptNumbers

WriteInterruptNumber ==
    /\ cpu.pc = "irq"
    /\ \/ /\ ValidInterruptNumber(conf[cpu.sub])
          /\ interrupt_number' = [interrupt_number EXCEPT ![cpu.sub] = conf[cpu.sub].irq]
          /\ CpuGoto("check")
       \/ /\ ~ValidInterruptNumber(conf[cpu.sub])
          /\ CpuGoto("stop")
          /\ UNCHANGED interrupt_number
    /\ SettingOnly /\ UNCHANGED <<mode, speed, phase, fired, overtaken>>

\* CPU.step finds an interrupt while the interrupt flag is set.
TakeInterrupt ==
    /\ cpu.pc = "run"
    /\ Check
    /\ CpuGoto("check")
    /\ CpuOnly /\ UNCHANGED <<fields, stop_event, history>>

\* Any other instruction; SHUTDOWN ends Clock.run.
OtherInstruction ==
    /\ cpu.pc = "run"
    /\ \/ CpuGoto("check")
       \/ CpuGoto("stop")
    /\ CpuOnly /\ UNCHANGED <<fields, interrupt_queue, stop_event, history>>

\* Faulty variant of CheckTimer: the clock does not look at the timer.
CheckTimerDropped ==
    /\ cpu.pc = "check"
    /\ CpuGoto("run")
    /\ CpuOnly /\ UNCHANGED <<fields, interrupt_queue, stop_event, history>>

\* TimerCrashError when the thread is dead.
CheckTimer ==
    /\ cpu.pc = "check"
    /\ CpuGoto(IF IsAlive THEN "run" ELSE "stop")
    /\ CpuOnly /\ UNCHANGED <<fields, interrupt_queue, stop_event, history>>

\* Timer.stop: set the event, then join the thread.
SetStopEvent ==
    /\ cpu.pc = "stop"
    /\ stop_event' = TRUE
    /\ CpuGoto("join")
    /\ CpuOnly /\ UNCHANGED <<fields, interrupt_queue, history>>

Join ==
    /\ cpu.pc = "join" /\ ~IsAlive
    /\ CpuGoto("stopped")
    /\ CpuOnly /\ UNCHANGED <<fields, interrupt_queue, stop_event, history>>

SetTmr == \E s \in SubtimerOperands, config \in ConfigOperands : SetSubtimer(s, config)

CpuStep == \/ SetTmr \/ WriteMode \/ WriteSpeed \/ WritePhase
           \/ WriteInterruptNumber \/ TakeInterrupt \/ OtherInstruction
           \/ CheckTimer \/ SetStopEvent \/ Join

\* The machine is off and its threads have ended.
Stopped == cpu.pc = "stopped" /\ UNCHANGED vars

Next == TimerStep \/ CpuStep \/ Stopped

\* Both are threads of one process that the scheduler does not starve.
Spec == Init /\ [][Next]_vars /\ WF_vars(TimerStep) /\ WF_vars(CpuStep)

-----------------------------------------------------------------------------
(* Properties *)

TimerPcs == {"mode", "speed", "modulus", "phase", "irq", "send", "oneshot", "off",
             "beat", "done", "crashed"}
CpuPcs == {"run", "mode", "speed", "phase", "irq", "check", "stop", "join", "stopped"}

SharedTypeOK ==
    /\ interrupt_queue \in Seq(AcceptedNumbers)
    /\ step_count \in 0 .. StepModulus - 1
    /\ stop_event \in BOOLEAN

FieldsTypeOK ==
    /\ mode \in [Subtimers -> SubtimerModes]
    /\ speed \in [Subtimers -> Nat]
    /\ phase \in [Subtimers -> Nat]
    /\ interrupt_number \in [Subtimers -> InterruptNumbers]

ThreadsTypeOK ==
    /\ timer \in [pc : TimerPcs, sub : Subtimers, val : Nat]
    /\ timer.pc = "send" => timer.val \in InterruptNumbers
    /\ cpu \in [pc : CpuPcs, sub : Subtimers]

HistoryTypeOK ==
    /\ conf \in [Subtimers -> Configs]
    /\ fired \in [Subtimers -> 0..2]
    /\ sent \in [Subtimers -> InterruptNumbers \union {None}]
    /\ clean \in [Subtimers -> BOOLEAN]
    /\ overtaken \in [Subtimers -> BOOLEAN]

\* Every variable has its type, whatever numbers a program passes to SETTMR: the
\* checks of set_config keep the fields in their ranges, and so the numbers that
\* the timer thread sends are those that InterruptController.send accepts.
TypeOK == SharedTypeOK /\ FieldsTypeOK /\ ThreadsTypeOK /\ HistoryTypeOK

\* Every field of conf is one that set_config accepts.
ValidConfig(config) == /\ config.mode \in SubtimerModes
                       /\ ValidSpeed(config) /\ ValidPhase(config)
                       /\ ValidInterruptNumber(config)

\* While no SETTMR of a subtimer is in progress, it has the speed, phase and
\* interrupt number of the last SETTMR, which were all valid.  It has its mode
\* as well, unless the timer thread has switched it off; and that happens only
\* to a ONESHOT that has sent its interrupt, or to a subtimer that was set in
\* the moment between the send and the end of _check_subtimer.
ConfigSettled ==
    \A s \in Subtimers : Quiet(s) =>
        /\ speed[s] = conf[s].speed
        /\ phase[s] = conf[s].phase
        /\ interrupt_number[s] = conf[s].irq
        /\ ValidConfig(conf[s])
        /\ \/ mode[s] = conf[s].mode
           \/ /\ mode[s] = OFF
              /\ overtaken[s] \/ (conf[s].mode = ONESHOT /\ fired[s] > 0)

\* The last SETTMR of s has not written the mode yet, or never will.
ModeNotWritten(s) ==
    cpu.sub = s /\ (cpu.pc = "mode" \/ conf[s].mode \notin SubtimerModes)

\* However SETTMR and the beat interleave, a subtimer whose mode was last
\* written as OFF or ONESHOT sends at most one interrupt after that write.
OneshotAtMostOnce ==
    \A s \in Subtimers :
        fired[s] > 1 => conf[s].mode = PERIODIC \/ ModeNotWritten(s)

Due(s) == speed[s] > 1 => step_count % speed[s] = phase[s]

\* At the end of a beat in which no SETTMR touched a subtimer, it sent its own
\* interrupt number if it was on and the step count was due, and nothing
\* otherwise; a ONESHOT that was due is OFF.  The thread only ever dies over a
\* subtimer that a SETTMR touched in the same beat.
BeatExact ==
    /\ timer.pc = "beat" =>
        \A s \in Subtimers : clean[s] =>
            /\ sent[s] # None => sent[s] = interrupt_number[s] /\ Due(s)
            /\ mode[s] = PERIODIC /\ Due(s) => sent[s] # None
            /\ mode[s] = ONESHOT => ~Due(s) /\ sent[s] = None
    /\ timer.pc = "crashed" => ~clean[timer.sub]

\* A PERIODIC subtimer that is left alone goes on sending interrupts for as
\* long as the machine runs and the program keeps making room in the queue
\* (the code's own queue has no bound).
PeriodicKeepsFiring ==
    \A s \in Subtimers :
        /\ <>[](Quiet(s) /\ mode[s] = PERIODIC /\ ~stop_event /\ IsAlive)
        /\ []<>(Len(interrupt_queue) + NumberOfSubtimers <= MaxPending)
        => []<>(timer.pc = "send" /\ timer.sub = s)

\* The machine that begins to stop, or whose timer thread dies, comes to an end:
\* the timer thread leaves its loop and Timer.stop does not wait for ever.
StopEnds == (cpu.pc = "stop" \/ ~IsAlive) ~> (cpu.pc = "stopped" /\ ~IsAlive)

-----------------------------------------------------------------------------
(* What the documentation says and the code does not always do. *)

\* docs/overview.md: the Timer "increases a step counter at every beat".
KeepsBeating == timer.pc # "crashed"
=============================================================================

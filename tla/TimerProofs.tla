----------------------------- MODULE TimerProofs -----------------------------
(***************************************************************************)
(* What is proved of Timer for every number of subtimers, every set of     *)
(* operands and every bound on the queue: the type invariant and the       *)
(* three safety invariants that TLC checks on small instances.             *)
(***************************************************************************)
EXTENDS Timer, TLAPS

\* Goto leaves the timer thread at the given place, on the same subtimer.
LEMMA GotoType ==
  ASSUME ThreadsTypeOK, NEW pc \in TimerPcs, NEW val \in Nat, Goto(pc, val)
  PROVE  /\ timer' \in [pc : TimerPcs, sub : Subtimers, val : Nat]
         /\ timer'.pc = pc /\ timer'.sub = timer.sub /\ timer'.val = val
  BY DEF ThreadsTypeOK, Goto

\* NextSubtimer leaves it at the start of a subtimer or at the end of a beat.
LEMMA NextSubtimerType ==
  ASSUME ThreadsTypeOK, NextSubtimer
  PROVE  /\ timer' \in [pc : TimerPcs, sub : Subtimers, val : Nat]
         /\ timer'.pc \in {"mode", "beat"}
         /\ timer'.pc = "mode" => timer'.sub = timer.sub + 1
         /\ timer'.pc = "beat" => timer.sub = NumberOfSubtimers - 1
  BY TimerAssumption DEF ThreadsTypeOK, NextSubtimer, TimerPcs, Subtimers

\* CpuGoto leaves the CPU thread at the given place, with the same subtimer.
LEMMA CpuGotoType ==
  ASSUME ThreadsTypeOK, NEW pc \in CpuPcs, CpuGoto(pc)
  PROVE  /\ cpu' \in [pc : CpuPcs, sub : Subtimers]
         /\ cpu'.pc = pc /\ cpu'.sub = cpu.sub
  BY DEF ThreadsTypeOK, CpuGoto

-----------------------------------------------------------------------------
(* Type correctness *)

\* SubtimerAt makes an index of every number that a list of subtimers takes.
LEMMA IndexType ==
  ASSUME NEW s \in Int, ValidIndex(s)
  PROVE  SubtimerAt(s) \in Subtimers
  BY TimerAssumption DEF ValidIndex, SubtimerAt, Subtimers

\* Every reachable state has the types of TypeOK, whatever numbers SETTMR is given;
\* so InterruptController.send, called from the timer thread, never raises
\* InvalidInterruptError: the number has passed the test of set_config.
THEOREM TimerTypeOK == Spec => []TypeOK
<1>1. Init => TypeOK
  <2> SUFFICES ASSUME Init PROVE TypeOK
    OBVIOUS
  <2>1. SharedTypeOK
    <3>1. interrupt_queue \in Seq(AcceptedNumbers)
      BY DEF Init, InterruptInit
    <3>2. step_count \in 0 .. StepModulus - 1
      <4>1. step_count = 0
        BY DEF Init
      <4> QED
        BY <4>1, TimerAssumption
    <3>3. stop_event \in BOOLEAN
      BY DEF Init
    <3> QED
      BY <3>1, <3>2, <3>3 DEF SharedTypeOK
  <2>2. FieldsTypeOK
    BY DEF Init, FieldsTypeOK, OFF, ONESHOT, PERIODIC, SubtimerModes,
           InterruptNumbers, NumberOfInterrupts
  <2>3. ThreadsTypeOK
    BY TimerAssumption DEF Init, ThreadsTypeOK, TimerPcs, CpuPcs, Subtimers
  <2>4. HistoryTypeOK
    BY DEF Init, HistoryTypeOK, InitialConfig, Configs, OFF, None
  <2> QED
    BY <2>1, <2>2, <2>3, <2>4 DEF TypeOK
<1>2. TypeOK /\ [Next]_vars => TypeOK'
  <2> SUFFICES ASSUME TypeOK, [Next]_vars PROVE TypeOK'
    OBVIOUS
  <2>t. ThreadsTypeOK
    BY DEF TypeOK
  <2>r. ASSUME ReadOnly,
               NextSubtimer \/ \E pc \in TimerPcs \ {"send"}, val \in Nat : Goto(pc, val)
        PROVE  TypeOK'
    <3>1. ThreadsTypeOK'
      <4>1. cpu' = cpu
        BY <2>r DEF ReadOnly, TimerOnly
      <4> QED
        BY <4>1, <2>r, <2>t, GotoType, NextSubtimerType DEF ThreadsTypeOK
    <3> QED
      BY <3>1, <2>r DEF TypeOK, SharedTypeOK, FieldsTypeOK, HistoryTypeOK,
                        ReadOnly, TimerOnly
  <2>1. CASE ReadMode
    BY <2>1, <2>r DEF ReadMode, TimerPcs
  <2>2. CASE ReadSpeed
    BY <2>2, <2>r DEF ReadSpeed, TimerPcs
  <2>3. CASE ReadModulus
    <3>1. speed[timer.sub] # 0 => step_count % speed[timer.sub] \in Nat
      BY TimerAssumption DEF TypeOK, SharedTypeOK, FieldsTypeOK, ThreadsTypeOK
    <3> QED
      BY <3>1, <2>3, <2>r DEF ReadModulus, TimerPcs
  <2>4. CASE ReadPhase
    BY <2>4, <2>r DEF ReadPhase, TimerPcs
  <2>5. CASE ReadInterruptNumber
    <3>1. interrupt_number[timer.sub] \in InterruptNumbers
      BY <2>t DEF TypeOK, FieldsTypeOK, ThreadsTypeOK
    <3>2. interrupt_number[timer.sub] \in Nat
      BY <3>1 DEF InterruptNumbers, NumberOfInterrupts
    <3>3. ThreadsTypeOK'
      BY <3>1, <3>2, <2>5, <2>t, GotoType
         DEF ReadInterruptNumber, ReadOnly, TimerOnly, ThreadsTypeOK, TimerPcs
    <3> QED
      BY <3>3, <2>5 DEF TypeOK, SharedTypeOK, FieldsTypeOK, HistoryTypeOK,
                        ReadInterruptNumber, ReadOnly, TimerOnly
  <2>6. CASE SendInterrupt
    <3>1. timer.val \in InterruptNumbers /\ timer.sub \in Subtimers
      BY <2>6, <2>t DEF SendInterrupt, ThreadsTypeOK
    <3>a. Send(timer.val) /\ Goto("oneshot", 0)
          /\ fired' = [fired EXCEPT ![timer.sub] = IF @ < 2 THEN @ + 1 ELSE 2]
          /\ sent' = [sent EXCEPT ![timer.sub] = timer.val]
      BY <3>1, <2>6 DEF SendInterrupt, InterruptNumbers, NumberOfInterrupts, AcceptedNumbers
    <3>2. ThreadsTypeOK'
      BY <3>a, <2>6, <2>t, GotoType DEF SendInterrupt, TimerOnly, ThreadsTypeOK, TimerPcs
    <3>3. SharedTypeOK'
      BY <3>a, <2>6 DEF SendInterrupt, Send, TimerOnly, TypeOK, SharedTypeOK
    <3>4. fired' \in [Subtimers -> 0..2]
      BY <3>a, <3>1 DEF TypeOK, HistoryTypeOK
    <3>5. HistoryTypeOK'
      BY <3>a, <3>1, <3>4, <2>6 DEF SendInterrupt, TimerOnly, TypeOK, HistoryTypeOK
    <3> QED
      BY <3>2, <3>3, <3>5, <2>6 DEF SendInterrupt, TimerOnly, TypeOK, FieldsTypeOK
  <2>7. CASE ReadModeAgain
    BY <2>7, <2>r DEF ReadModeAgain, TimerPcs
  <2>8. CASE SwitchOff
    <3>1. ThreadsTypeOK'
      BY <2>8, <2>t, NextSubtimerType DEF SwitchOff, TimerOnly, ThreadsTypeOK
    <3>2. FieldsTypeOK'
      BY <2>8 DEF SwitchOff, TimerOnly, TypeOK, FieldsTypeOK, SubtimerModes
    <3> QED
      BY <3>1, <3>2, <2>8 DEF SwitchOff, TimerOnly, TypeOK, SharedTypeOK, HistoryTypeOK
  <2>9. CASE EndBeat
    <3>1. SharedTypeOK'
      BY <2>9, TimerAssumption DEF EndBeat, TypeOK, SharedTypeOK
    <3>2. ThreadsTypeOK'
      BY <2>9, <2>t, TimerAssumption DEF EndBeat, ThreadsTypeOK, TimerPcs, Subtimers
    <3>3. FieldsTypeOK'
      BY <2>9 DEF EndBeat, fields, TypeOK, FieldsTypeOK
    <3>4. HistoryTypeOK'
      BY <2>9 DEF EndBeat, TypeOK, HistoryTypeOK, Quiet
    <3> QED
      BY <3>1, <3>2, <3>3, <3>4 DEF TypeOK
  <2>10. CASE SetTmr
    <3>1. PICK s \in SubtimerOperands, config \in ConfigOperands : SetSubtimer(s, config)
      BY <2>10 DEF SetTmr
    <3>2. config \in Configs /\ s \in Int
      BY TimerAssumption
    <3>3. ValidIndex(s) => SubtimerAt(s) \in Subtimers
      BY <3>2, IndexType
    <3>4. ThreadsTypeOK'
      BY <3>1, <3>3, <2>t, CpuGotoType DEF SetSubtimer, CpuOnly, ThreadsTypeOK, CpuPcs
    <3>5. HistoryTypeOK'
      <4>1. CASE ~ValidIndex(s)
        BY <3>1, <4>1 DEF SetSubtimer, CpuOnly, TypeOK, HistoryTypeOK
      <4>2. CASE ValidIndex(s)
        <5>1. conf' \in [Subtimers -> Configs]
          BY <3>1, <3>2, <3>3, <4>2 DEF SetSubtimer, TypeOK, HistoryTypeOK
        <5>2. /\ clean' \in [Subtimers -> BOOLEAN]
              /\ sent' = sent /\ fired' = fired /\ overtaken' = overtaken
          BY <3>1, <3>3, <4>2 DEF SetSubtimer, CpuOnly, TypeOK, HistoryTypeOK
        <5> QED
          BY <5>1, <5>2 DEF TypeOK, HistoryTypeOK
      <4> QED
        BY <4>1, <4>2
    <3> QED
      BY <3>1, <3>4, <3>5 DEF SetSubtimer, CpuOnly, fields, TypeOK, SharedTypeOK,
                              FieldsTypeOK
  <2>11. CASE WriteMode
    <3>1. ThreadsTypeOK'
      BY <2>11, <2>t, CpuGotoType
         DEF WriteMode, ModeOnly, SettingOnly, CpuOnly, ThreadsTypeOK, CpuPcs
    <3>2. FieldsTypeOK'
      BY <2>11 DEF WriteMode, SetMode, ModeOnly, TypeOK, FieldsTypeOK
    <3>b. AboutToSwitchOff(cpu.sub, conf[cpu.sub].mode) \in BOOLEAN
      BY DEF AboutToSwitchOff
    <3>3. HistoryTypeOK'
      BY <3>b, <2>11
         DEF WriteMode, SetMode, ModeOnly, SettingOnly, CpuOnly, TypeOK, HistoryTypeOK
    <3> QED
      BY <3>1, <3>2, <3>3, <2>11
         DEF WriteMode, ModeOnly, SettingOnly, CpuOnly, TypeOK, SharedTypeOK
  <2>c. cpu.sub \in Subtimers /\ conf[cpu.sub] \in Configs
    BY <2>t DEF ThreadsTypeOK, TypeOK, HistoryTypeOK
  <2>12. CASE WriteSpeed
    <3>1. ThreadsTypeOK'
      BY <2>12, <2>t, CpuGotoType
         DEF WriteSpeed, SettingOnly, CpuOnly, ThreadsTypeOK, CpuPcs
    <3>2. FieldsTypeOK'
      BY <2>12, <2>c DEF WriteSpeed, ValidSpeed, SettingOnly, TypeOK, FieldsTypeOK, Configs
    <3> QED
      BY <3>1, <3>2, <2>12
         DEF WriteSpeed, SettingOnly, CpuOnly, TypeOK, SharedTypeOK, HistoryTypeOK
  <2>13. CASE WritePhase
    <3>1. ThreadsTypeOK'
      BY <2>13, <2>t, CpuGotoType
         DEF WritePhase, SettingOnly, CpuOnly, ThreadsTypeOK, CpuPcs
    <3>2. FieldsTypeOK'
      BY <2>13, <2>c DEF WritePhase, ValidPhase, SettingOnly, TypeOK, FieldsTypeOK, Configs
    <3> QED
      BY <3>1, <3>2, <2>13
         DEF WritePhase, SettingOnly, CpuOnly, TypeOK, SharedTypeOK, HistoryTypeOK
  <2>14. CASE WriteInterruptNumber
    <3>1. ThreadsTypeOK'
      BY <2>14, <2>t, CpuGotoType
         DEF WriteInterruptNumber, SettingOnly, CpuOnly, ThreadsTypeOK, CpuPcs
    <3>2. FieldsTypeOK'
      BY <2>14, <2>c DEF WriteInterruptNumber, ValidInterruptNumber, SettingOnly,
                         TypeOK, FieldsTypeOK
    <3> QED
      BY <3>1, <3>2, <2>14
         DEF WriteInterruptNumber, SettingOnly, CpuOnly, TypeOK, SharedTypeOK, HistoryTypeOK
  <2>15. CASE TakeInterrupt
    <3>1. ThreadsTypeOK'
      BY <2>15, <2>t, CpuGotoType DEF TakeInterrupt, CpuOnly, ThreadsTypeOK, CpuPcs
    <3>2. SharedTypeOK'
      BY <2>15 DEF TakeInterrupt, Check, CpuOnly, TypeOK, SharedTypeOK
    <3> QED
      BY <3>1, <3>2, <2>15
         DEF TakeInterrupt, CpuOnly, fields, history, TypeOK, FieldsTypeOK, HistoryTypeOK
  <2>k. ASSUME NEW pc \in CpuPcs, CpuGoto(pc), CpuOnly, stop_event' \in BOOLEAN,
               UNCHANGED <<fields, interrupt_queue, history>>
        PROVE  TypeOK'
    <3>1. ThreadsTypeOK'
      BY <2>k, <2>t, CpuGotoType DEF CpuOnly, ThreadsTypeOK
    <3> QED
      BY <3>1, <2>k DEF CpuOnly, fields, history, TypeOK, SharedTypeOK, FieldsTypeOK,
                        HistoryTypeOK
  <2>s. stop_event \in BOOLEAN
    BY DEF TypeOK, SharedTypeOK
  <2>16. CASE OtherInstruction
    BY <2>16, <2>k, <2>s DEF OtherInstruction, CpuPcs
  <2>17. CASE CheckTimer
    BY <2>17, <2>k, <2>s DEF CheckTimer, CpuPcs
  <2>18. CASE SetStopEvent
    BY <2>18, <2>k DEF SetStopEvent, CpuPcs
  <2>19. CASE Join
    BY <2>19, <2>k, <2>s DEF Join, CpuPcs
  <2>20. CASE UNCHANGED vars
    BY <2>20 DEF vars, fields, history, TypeOK, SharedTypeOK, FieldsTypeOK,
                 ThreadsTypeOK, HistoryTypeOK
  <2> QED
    BY <2>1, <2>2, <2>3, <2>4, <2>5, <2>6, <2>7, <2>8, <2>9, <2>10, <2>11,
       <2>12, <2>13, <2>14, <2>15, <2>16, <2>17, <2>18, <2>19, <2>20
       DEF Next, TimerStep, CpuStep, Stopped
<1> QED
  BY <1>1, <1>2, PTL DEF Spec

-----------------------------------------------------------------------------
(* The configuration of a subtimer *)

\* What was set last is the reason for a subtimer that is off.
SwitchedOff(s) == overtaken[s] \/ (conf[s].mode = ONESHOT /\ fired[s] > 0)

\* The inductive form of ConfigSettled: how far a SETTMR in progress has come, and
\* what is true of a subtimer that the timer thread may be about to switch off.
SettingInv(s) ==
    /\ cpu.sub # s \/ cpu.pc \in {"run", "check"} =>
          /\ speed[s] = conf[s].speed
          /\ phase[s] = conf[s].phase
          /\ interrupt_number[s] = conf[s].irq
          /\ ValidConfig(conf[s])
    /\ cpu.sub # s \/ cpu.pc \in {"run", "check", "speed", "phase", "irq"} =>
          /\ conf[s].mode \in SubtimerModes
          /\ mode[s] = conf[s].mode \/ (mode[s] = OFF /\ SwitchedOff(s))
          /\ timer.sub = s /\ timer.pc = "off" => SwitchedOff(s)
    /\ timer.sub = s /\ timer.pc = "oneshot" =>
          fired[s] > 0 \/ (mode[s] = ONESHOT => overtaken[s])
    /\ cpu.sub = s /\ cpu.pc \in {"phase", "irq"} =>
          speed[s] = conf[s].speed /\ ValidSpeed(conf[s])
    /\ cpu.sub = s /\ cpu.pc = "irq" => phase[s] = conf[s].phase /\ ValidPhase(conf[s])

\* The timer thread changes no field of a subtimer, nor what is remembered of its
\* last SETTMR, but the mode, to OFF, and the number of interrupts sent.
LEMMA TimerStepFields ==
  ASSUME TypeOK, TimerStep
  PROVE  /\ UNCHANGED <<cpu, speed, phase, interrupt_number, conf, overtaken>>
         /\ ~SwitchOff => mode' = mode
         /\ ~SendInterrupt => fired' = fired
  BY DEF TimerStep, ReadMode, ReadSpeed, ReadModulus, ReadPhase, ReadInterruptNumber,
         SendInterrupt, ReadModeAgain, SwitchOff, EndBeat, ReadOnly, TimerOnly, fields

\* The places of the timer thread near the end of _check_subtimer: how they are
\* reached, and that it stays there only with the same subtimer.
LEMMA TimerStepPlaces ==
  ASSUME TypeOK, TimerStep
  PROVE  /\ timer'.pc = "oneshot" => SendInterrupt /\ timer'.sub = timer.sub
         /\ timer'.pc = "off" => ReadModeAgain /\ timer'.sub = timer.sub
                                 /\ mode[timer.sub] = ONESHOT
<1>t. ThreadsTypeOK
  BY DEF TypeOK
<1> USE <1>t, NextSubtimerType, GotoType DEF TimerPcs
<1>1. CASE ReadMode \/ ReadSpeed \/ ReadPhase
  BY <1>1 DEF ReadMode, ReadSpeed, ReadPhase
<1>2. CASE ReadModulus
  BY <1>2 DEF ReadModulus, Goto, ThreadsTypeOK
<1>3. CASE ReadInterruptNumber
  BY <1>3 DEF ReadInterruptNumber, Goto, ThreadsTypeOK
<1>4. CASE SendInterrupt
  BY <1>4 DEF SendInterrupt
<1>5. CASE ReadModeAgain
  BY <1>5 DEF ReadModeAgain
<1>6. CASE SwitchOff
  BY <1>6 DEF SwitchOff
<1>7. CASE EndBeat
  BY <1>7 DEF EndBeat
<1> QED
  BY <1>1, <1>2, <1>3, <1>4, <1>5, <1>6, <1>7 DEF TimerStep

\* SettingInv holds initially and every step preserves it.
LEMMA SettingInductive ==
  /\ Init => \A s \in Subtimers : SettingInv(s)
  /\ TypeOK /\ (\A s \in Subtimers : SettingInv(s)) /\ [Next]_vars
        => \A s \in Subtimers : SettingInv(s)'
<1> USE DEF OFF, ONESHOT, PERIODIC, SubtimerModes
<1>1. Init => \A s \in Subtimers : SettingInv(s)
  BY DEF Init, InitialConfig, SettingInv, ValidConfig, ValidSpeed, ValidPhase,
         ValidInterruptNumber, InterruptNumbers, NumberOfInterrupts
<1>2. ASSUME TypeOK, [Next]_vars, NEW s \in Subtimers, SettingInv(s)
      PROVE  SettingInv(s)'
  <2>t. /\ cpu \in [pc : CpuPcs, sub : Subtimers]
        /\ conf \in [Subtimers -> Configs]
        /\ mode \in [Subtimers -> SubtimerModes]
        /\ speed \in [Subtimers -> Nat] /\ phase \in [Subtimers -> Nat]
        /\ interrupt_number \in [Subtimers -> InterruptNumbers]
        /\ fired \in [Subtimers -> 0..2]
        /\ overtaken \in [Subtimers -> BOOLEAN]
        /\ timer.sub \in Subtimers
    BY <1>2 DEF TypeOK, ThreadsTypeOK, FieldsTypeOK, HistoryTypeOK
  <2> USE <2>t, <1>2 DEF SettingInv, SwitchedOff
  <2>1. CASE TimerStep
    <3>f. /\ UNCHANGED <<cpu, speed, phase, interrupt_number, conf, overtaken>>
          /\ ~SwitchOff => mode' = mode
          /\ ~SendInterrupt => fired' = fired
          /\ timer'.pc = "oneshot" => SendInterrupt /\ timer'.sub = timer.sub
          /\ timer'.pc = "off" => ReadModeAgain /\ timer'.sub = timer.sub
                                  /\ mode[timer.sub] = ONESHOT
      BY <2>1, TimerStepFields, TimerStepPlaces
    <3>c. (ValidConfig(conf[s]) => ValidConfig(conf[s])')
          /\ (ValidSpeed(conf[s]) => ValidSpeed(conf[s])')
          /\ (ValidPhase(conf[s]) => ValidPhase(conf[s])')
      BY <3>f DEF ValidConfig, ValidSpeed, ValidPhase, ValidInterruptNumber
    <3>1. CASE SendInterrupt
      <4>1. fired[s] > 0 => fired'[s] > 0
        BY <3>1 DEF SendInterrupt
      <4>2. timer'.pc = "oneshot" => fired'[timer.sub] > 0
        <5>1. Goto("crashed", 0) => timer'.pc = "crashed"
          BY DEF Goto, ThreadsTypeOK, TypeOK
        <5>2. timer'.pc = "oneshot" =>
                fired' = [fired EXCEPT ![timer.sub] = IF @ < 2 THEN @ + 1 ELSE 2]
          BY <3>1, <5>1 DEF SendInterrupt
        <5> QED
          BY <5>2
      <4>3. mode' = mode /\ timer'.pc # "off"
        BY <3>f, <3>1 DEF SendInterrupt, ReadModeAgain
      <4> QED
        BY <4>1, <4>2, <4>3, <3>f, <3>c
    <3>2. CASE SwitchOff
      <4>1. timer.pc = "off" /\ mode' = [mode EXCEPT ![timer.sub] = OFF]
        BY <3>2 DEF SwitchOff
      <4>2. fired' = fired /\ timer'.pc \notin {"oneshot", "off"}
        BY <3>2, <3>f, <4>1 DEF SendInterrupt, ReadModeAgain
      <4> QED
        BY <4>1, <4>2, <3>f, <3>c
    <3>3. CASE ~SendInterrupt /\ ~SwitchOff
      <4>1. timer'.pc = "off" => timer.pc = "oneshot"
        BY <3>f DEF ReadModeAgain
      <4> QED
        BY <3>3, <3>f, <3>c, <4>1
    <3> QED
      BY <3>1, <3>2, <3>3
  <2>2. CASE SetTmr
    <3>1. PICK n \in SubtimerOperands, config \in ConfigOperands : SetSubtimer(n, config)
      BY <2>2 DEF SetTmr
    <3>2. n \in Int
      BY TimerAssumption
    <3>3. CASE ~ValidIndex(n)
      BY <3>1, <3>3 DEF SetSubtimer, CpuGoto, CpuOnly, fields, ValidConfig, ValidSpeed,
                        ValidPhase, ValidInterruptNumber
    <3>4. CASE ValidIndex(n)
      BY <3>1, <3>2, <3>4, IndexType
         DEF SetSubtimer, CpuOnly, fields, ValidConfig, ValidSpeed, ValidPhase,
             ValidInterruptNumber
    <3> QED
      BY <3>3, <3>4
  <2> USE DEF CpuGoto, SettingOnly, CpuOnly, ModeOnly
  <2>3. CASE WriteMode
    BY <2>3 DEF WriteMode, SetMode, AboutToSwitchOff, ValidConfig, ValidSpeed, ValidPhase,
                ValidInterruptNumber
  <2>4. CASE WriteSpeed
    BY <2>4 DEF WriteSpeed, ValidConfig, ValidSpeed, ValidPhase, ValidInterruptNumber
  <2>5. CASE WritePhase
    BY <2>5 DEF WritePhase, ValidConfig, ValidSpeed, ValidPhase, ValidInterruptNumber
  <2>6. CASE WriteInterruptNumber
    BY <2>6 DEF WriteInterruptNumber, ValidConfig, ValidSpeed, ValidPhase,
                ValidInterruptNumber
  <2>7. CASE TakeInterrupt \/ OtherInstruction \/ CheckTimer \/ SetStopEvent \/ Join
    BY <2>7 DEF TakeInterrupt, OtherInstruction, CheckTimer, SetStopEvent, Join,
                fields, history, ValidConfig, ValidSpeed, ValidPhase, ValidInterruptNumber
  <2>8. CASE UNCHANGED vars
    BY <2>8 DEF vars, fields, history, ValidConfig, ValidSpeed, ValidPhase,
                ValidInterruptNumber
  <2> QED
    BY <2>1, <2>2, <2>3, <2>4, <2>5, <2>6, <2>7, <2>8 DEF Next, CpuStep, Stopped
<1> QED
  BY <1>1, <1>2

\* Between two SETTMR of it, a subtimer keeps the configuration of the last one.
THEOREM TimerConfigSettled == Spec => []ConfigSettled
<1>1. (\A s \in Subtimers : SettingInv(s)) => ConfigSettled
  BY DEF ConfigSettled, SettingInv, SwitchedOff, Quiet
<1>2. Spec => [](\A s \in Subtimers : SettingInv(s))
  <2> DEFINE Inv == \A s \in Subtimers : SettingInv(s)
  <2>1. Init => Inv
    BY SettingInductive
  <2>2. TypeOK /\ Inv /\ [Next]_vars => Inv'
    BY SettingInductive
  <2> HIDE DEF Inv
  <2>3. Spec => []Inv
    BY <2>1, <2>2, TimerTypeOK, PTL DEF Spec
  <2> QED
    BY <2>3 DEF Inv
<1> QED
  BY <1>1, <1>2, PTL

-----------------------------------------------------------------------------
(* A ONESHOT sends at most one interrupt *)

PastReadMode == {"speed", "modulus", "phase", "irq", "send"}

\* The inductive form of OneshotAtMostOnce: a ONESHOT that has sent its
\* interrupt is still on only while the timer thread is about to switch it off,
\* and one the thread is about to send for has sent nothing yet.
OneshotInv(s) ==
    /\ conf[s].mode \notin SubtimerModes =>
          cpu.sub = s /\ cpu.pc \in {"mode", "stop", "join", "stopped"}
    /\ conf[s].mode # PERIODIC /\ ~ModeNotWritten(s) =>
          /\ mode[s] # PERIODIC
          /\ fired[s] <= 1
          /\ fired[s] = 1 /\ mode[s] = ONESHOT =>
                timer.sub = s /\ timer.pc \in {"oneshot", "off"}
          /\ timer.sub = s /\ timer.pc \in PastReadMode => fired[s] = 0

\* OneshotInv holds initially and every step preserves it.
LEMMA OneshotInductive ==
  /\ Init => \A s \in Subtimers : OneshotInv(s)
  /\ TypeOK /\ (\A s \in Subtimers : OneshotInv(s)) /\ [Next]_vars
        => \A s \in Subtimers : OneshotInv(s)'
<1> USE DEF OFF, ONESHOT, PERIODIC, SubtimerModes
<1>1. Init => \A s \in Subtimers : OneshotInv(s)
  BY DEF Init, InitialConfig, OneshotInv, PastReadMode
<1>2. ASSUME TypeOK, [Next]_vars, NEW s \in Subtimers, OneshotInv(s)
      PROVE  OneshotInv(s)'
  <2>t. /\ cpu \in [pc : CpuPcs, sub : Subtimers]
        /\ conf \in [Subtimers -> Configs]
        /\ mode \in [Subtimers -> SubtimerModes]
        /\ fired \in [Subtimers -> 0..2]
        /\ ThreadsTypeOK
    BY <1>2 DEF TypeOK, ThreadsTypeOK, FieldsTypeOK, HistoryTypeOK
  <2>s. timer.sub \in Subtimers
    BY <2>t DEF ThreadsTypeOK
  <2> USE <2>t, <2>s, <1>2 DEF OneshotInv, ModeNotWritten
  <2> USE NextSubtimerType, GotoType DEF PastReadMode, TimerPcs, ReadOnly, TimerOnly
  <2>1. CASE ReadMode
    BY <2>1 DEF ReadMode
  <2>2. CASE ReadSpeed
    BY <2>2 DEF ReadSpeed
  <2>3. CASE ReadModulus
    <3>1. timer'.sub = timer.sub /\ timer'.pc \in {"crashed", "phase"}
      <4>1. CASE speed[timer.sub] = 0
        BY <4>1, <2>3 DEF ReadModulus
      <4>2. CASE speed[timer.sub] # 0
        BY <4>2, <2>3 DEF ReadModulus, Goto, ThreadsTypeOK
      <4> QED
        BY <4>1, <4>2
    <3> QED
      BY <3>1, <2>3 DEF ReadModulus
  <2>4. CASE ReadPhase
    BY <2>4 DEF ReadPhase
  <2>5. CASE ReadInterruptNumber
    <3>1. timer'.sub = timer.sub /\ timer'.pc = "send"
      BY <2>5 DEF ReadInterruptNumber, Goto, ThreadsTypeOK
    <3> QED
      BY <3>1, <2>5 DEF ReadInterruptNumber
  <2>6. CASE SendInterrupt
    BY <2>6 DEF SendInterrupt
  <2>7. CASE ReadModeAgain
    BY <2>7 DEF ReadModeAgain
  <2>8. CASE SwitchOff
    BY <2>8 DEF SwitchOff
  <2>9. CASE EndBeat
    BY <2>9 DEF EndBeat, fields
  <2> USE DEF CpuGoto, CpuOnly, SettingOnly
  <2>10. CASE SetTmr
    <3>1. PICK n \in SubtimerOperands, config \in ConfigOperands : SetSubtimer(n, config)
      BY <2>10 DEF SetTmr
    <3>2. ValidIndex(n) => SubtimerAt(n) \in Subtimers
      BY TimerAssumption, IndexType
    <3> QED
      BY <3>1, <3>2 DEF SetSubtimer, fields
  <2>11. CASE WriteMode
    BY <2>11 DEF WriteMode, SetMode, ModeOnly
  <2>12. CASE WriteSpeed \/ WritePhase \/ WriteInterruptNumber
    BY <2>12 DEF WriteSpeed, WritePhase, WriteInterruptNumber
  <2>13. CASE TakeInterrupt \/ OtherInstruction \/ CheckTimer \/ SetStopEvent \/ Join
    BY <2>13 DEF TakeInterrupt, OtherInstruction, CheckTimer, SetStopEvent, Join,
                 fields, history
  <2>14. CASE UNCHANGED vars
    BY <2>14 DEF vars, fields, history
  <2> QED
    BY <2>1, <2>2, <2>3, <2>4, <2>5, <2>6, <2>7, <2>8, <2>9, <2>10, <2>11, <2>12,
       <2>13, <2>14 DEF Next, TimerStep, CpuStep, Stopped
<1> QED
  BY <1>1, <1>2

\* A subtimer last written as ONESHOT or OFF sends at most one interrupt more.
THEOREM TimerOneshotAtMostOnce == Spec => []OneshotAtMostOnce
<1> DEFINE Inv == \A s \in Subtimers : OneshotInv(s)
<1>1. Init => Inv
  BY OneshotInductive
<1>2. TypeOK /\ Inv /\ [Next]_vars => Inv'
  BY OneshotInductive
<1>3. Inv /\ TypeOK => OneshotAtMostOnce
  BY DEF OneshotAtMostOnce, OneshotInv, TypeOK, HistoryTypeOK
<1> QED
  <2> HIDE DEF Inv
  <2> QED
    BY <1>1, <1>2, <1>3, TimerTypeOK, PTL DEF Spec

-----------------------------------------------------------------------------
(* An undisturbed subtimer sends exactly when it is due *)

Unsent == {"mode"} \union PastReadMode
AfterSend == {"oneshot", "off"}

\* The inductive form of BeatExact: what the timer thread knows at each place
\* of _check_subtimer about a subtimer that no SETTMR has touched in this beat.
BeatInv(s) ==
    /\ timer.pc # "beat" /\ (s > timer.sub \/ (s = timer.sub /\ timer.pc \in Unsent))
          => sent[s] = None
    /\ clean[s] =>
          /\ ~(cpu.sub = s /\ cpu.pc \in {"mode", "speed", "phase", "irq"})
          /\ timer.sub = s =>
                /\ timer.pc \in PastReadMode \union AfterSend => mode[s] # OFF
                /\ timer.pc \in {"modulus", "phase"} => speed[s] > 1
                /\ timer.pc = "phase" => timer.val = step_count % speed[s]
                /\ timer.pc \in {"irq", "send"} \union AfterSend => Due(s)
                /\ timer.pc = "send" => timer.val = interrupt_number[s]
                /\ timer.pc \in AfterSend => sent[s] = interrupt_number[s]
                /\ timer.pc = "off" => mode[s] = ONESHOT
                /\ timer.pc # "crashed"
          /\ s < timer.sub \/ timer.pc = "beat" =>
                /\ sent[s] # None => sent[s] = interrupt_number[s] /\ Due(s)
                /\ mode[s] = PERIODIC /\ Due(s) => sent[s] # None
                /\ mode[s] = ONESHOT => ~Due(s) /\ sent[s] = None

\* BeatInv holds initially and every step preserves it.
LEMMA BeatInductive ==
  /\ Init => \A s \in Subtimers : BeatInv(s)
  /\ TypeOK /\ (\A s \in Subtimers : BeatInv(s)) /\ [Next]_vars
        => \A s \in Subtimers : BeatInv(s)'
<1> USE DEF OFF, ONESHOT, PERIODIC, SubtimerModes, Unsent, PastReadMode, AfterSend
<1>1. Init => \A s \in Subtimers : BeatInv(s)
  BY DEF Init, BeatInv, Subtimers
<1>2. ASSUME TypeOK, [Next]_vars, NEW s \in Subtimers, BeatInv(s)
      PROVE  BeatInv(s)'
  <2>t. /\ cpu \in [pc : CpuPcs, sub : Subtimers]
        /\ mode \in [Subtimers -> SubtimerModes]
        /\ speed \in [Subtimers -> Nat] /\ phase \in [Subtimers -> Nat]
        /\ interrupt_number \in [Subtimers -> InterruptNumbers]
        /\ sent \in [Subtimers -> InterruptNumbers \union {None}]
        /\ clean \in [Subtimers -> BOOLEAN]
        /\ ThreadsTypeOK
    BY <1>2 DEF TypeOK, ThreadsTypeOK, FieldsTypeOK, HistoryTypeOK
  <2>s. /\ timer.sub \in Subtimers /\ timer.sub \in Nat /\ s \in Nat
        /\ s <= NumberOfSubtimers - 1 /\ NumberOfSubtimers \in Nat
    BY <2>t, TimerAssumption DEF ThreadsTypeOK, Subtimers
  <2>n. interrupt_number[s] # None
    BY <2>t DEF None, InterruptNumbers, NumberOfInterrupts
  <2> USE <2>t, <2>s, <2>n, <1>2 DEF BeatInv
  <2> USE NextSubtimerType, GotoType DEF TimerPcs, ReadOnly, TimerOnly, Due
  <2>1. CASE ReadMode
    BY <2>1 DEF ReadMode
  <2>2. CASE ReadSpeed
    BY <2>2 DEF ReadSpeed
  <2>3. CASE ReadModulus
    <3>1. CASE speed[timer.sub] = 0
      BY <3>1, <2>3 DEF ReadModulus
    <3>2. CASE speed[timer.sub] # 0
      <4>1. timer' = [timer EXCEPT !.pc = "phase", !.val = step_count % speed[timer.sub]]
        BY <3>2, <2>3 DEF ReadModulus, Goto
      <4>2. /\ timer'.sub = timer.sub /\ timer'.pc = "phase"
            /\ timer'.val = step_count % speed[timer.sub]
        BY <4>1 DEF ThreadsTypeOK
      <4> QED
        BY <4>2, <3>2, <2>3 DEF ReadModulus
    <3> QED
      BY <3>1, <3>2
  <2>4. CASE ReadPhase
    BY <2>4 DEF ReadPhase
  <2>5. CASE ReadInterruptNumber
    <3>1. /\ timer'.sub = timer.sub /\ timer'.pc = "send"
          /\ timer'.val = interrupt_number[timer.sub]
      BY <2>5 DEF ReadInterruptNumber, Goto, ThreadsTypeOK
    <3> QED
      BY <3>1, <2>5 DEF ReadInterruptNumber
  <2>6. CASE SendInterrupt
    <3>1. timer.val \in AcceptedNumbers
      BY <2>6 DEF SendInterrupt, ThreadsTypeOK, InterruptNumbers, NumberOfInterrupts,
                  AcceptedNumbers
    <3>2. Goto("oneshot", 0) /\ sent' = [sent EXCEPT ![timer.sub] = timer.val]
      BY <3>1, <2>6 DEF SendInterrupt
    <3> QED
      BY <3>2, <2>6 DEF SendInterrupt
  <2>7. CASE ReadModeAgain
    BY <2>7 DEF ReadModeAgain
  <2>8. CASE SwitchOff
    BY <2>8 DEF SwitchOff
  <2>9. CASE EndBeat
    BY <2>9 DEF EndBeat, fields, Quiet
  <2> USE DEF CpuGoto, CpuOnly, SettingOnly
  <2>10. CASE SetTmr
    <3>1. PICK n \in SubtimerOperands, config \in ConfigOperands : SetSubtimer(n, config)
      BY <2>10 DEF SetTmr
    <3>2. ValidIndex(n) => SubtimerAt(n) \in Subtimers
      BY TimerAssumption, IndexType
    <3> QED
      BY <3>1, <3>2 DEF SetSubtimer, fields
  <2>11. CASE WriteMode
    BY <2>11 DEF WriteMode, SetMode, ModeOnly
  <2>12. CASE WriteSpeed
    BY <2>12 DEF WriteSpeed
  <2>13. CASE WritePhase
    BY <2>13 DEF WritePhase
  <2>14. CASE WriteInterruptNumber
    BY <2>14 DEF WriteInterruptNumber
  <2>15. CASE TakeInterrupt \/ OtherInstruction \/ CheckTimer \/ SetStopEvent \/ Join
    BY <2>15 DEF TakeInterrupt, OtherInstruction, CheckTimer, SetStopEvent, Join,
                 fields, history
  <2>16. CASE UNCHANGED vars
    BY <2>16 DEF vars, fields, history
  <2> QED
    BY <2>1, <2>2, <2>3, <2>4, <2>5, <2>6, <2>7, <2>8, <2>9, <2>10, <2>11, <2>12,
       <2>13, <2>14, <2>15, <2>16 DEF Next, TimerStep, CpuStep, Stopped
<1> QED
  BY <1>1, <1>2

\* In a beat that no SETTMR disturbs, a subtimer sends exactly when it is due,
\* and the timer thread cannot die over it.
THEOREM TimerBeatExact == Spec => []BeatExact
<1> DEFINE Inv == \A s \in Subtimers : BeatInv(s)
<1>1. Init => Inv
  BY BeatInductive
<1>2. TypeOK /\ Inv /\ [Next]_vars => Inv'
  BY BeatInductive
<1>3. TypeOK /\ Inv => BeatExact
  BY DEF BeatExact, BeatInv, TypeOK, ThreadsTypeOK
<1> QED
  <2> HIDE DEF Inv
  <2> QED
    BY <1>1, <1>2, <1>3, TimerTypeOK, PTL DEF Spec
=============================================================================

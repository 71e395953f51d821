------------------------ MODULE DeviceControllerProofs ------------------------
(***************************************************************************)
(* What is proved of DeviceController for every number of IOPorts, every   *)
(* set of devices and all the bounds: the type invariant, that IOPort and  *)
(* registry agree, that no device reads the input of another one, that     *)
(* none is displaced, that input leaves as many interrupts as items, and   *)
(* that a registration is announced before it counts.                      *)
(***************************************************************************)
EXTENDS DeviceController, FiniteSetTheorems, TLAPS

-----------------------------------------------------------------------------
(* Type correctness *)

InputType == [pc : InputPcs, port : Ports, dev : Addresses, changed : BOOLEAN]
PingType == [pc : PingPcs, port : Ports, addr : Addresses,
             status : 0 .. MaxStatus + 1, changed : BOOLEAN]

\* InputGoto moves the input thread and changes nothing of its request.
LEMMA InputGotoType ==
  ASSUME ThreadsTypeOK, NEW pc \in InputPcs, InputGoto(pc)
  PROVE  /\ input' \in InputType
         /\ input'.pc = pc /\ input'.port = input.port /\ input'.dev = input.dev
  BY DEF ThreadsTypeOK, InputGoto, InputType

\* An input thread without a request.
LEMMA InputIdleType == InputIdle \in InputType
  BY DeviceControllerAssumption DEF InputIdle, InputType, InputPcs, Ports, Addresses

\* A ping thread that begins with a port.
LEMMA PingAtType ==
  ASSUME NEW pc \in PingPcs, NEW p \in Ports
  PROVE  PingAt(pc, p) \in PingType /\ PingAt(pc, p).pc = pc
  BY DeviceControllerAssumption DEF PingAt, PingType, Addresses

\* NextPort leaves the ping thread at the start of a port or at the end of the round.
LEMMA NextPortType ==
  ASSUME ThreadsTypeOK, NextPort
  PROVE  ping' \in PingType /\ ping'.pc \in {"registered", "wait"}
  <1>1. 0 \in Ports
    BY DeviceControllerAssumption DEF Ports
  <1> QED
    BY <1>1, PingAtType DEF NextPort, PingPcs

\* The interrupts that the threads send.
LEMMA Interrupts ==
  ASSUME NEW p \in Ports
  PROVE  {IOPortIn(p), DeviceStatusChanged(p), DeviceRegistered, DeviceUnregistered}
             \subseteq SystemInterrupts
  BY DEF SystemInterrupts

\* Every reachable state has the types of TypeOK: a status stays a byte, and only
\* the interrupts of config.system_interrupts are sent.
THEOREM DeviceControllerTypeOK == Spec => []TypeOK
<1>0. 0 \in Ports
  BY DeviceControllerAssumption DEF Ports
<1>1. Init => TypeOK
  <2> SUFFICES ASSUME Init PROVE TypeOK
    OBVIOUS
  <2>1. IOPortTypeOK
    BY DeviceControllerAssumption DEF Init, IOPortTypeOK, Addresses
  <2>2. SharedTypeOK
    <3>1. interrupt_queue \in Seq(SystemInterrupts) /\ output_queue \in Seq(Addresses)
      BY DEF Init, InterruptInit
    <3>2. shutdown_request \in BOOLEAN /\ stop_event \in BOOLEAN
      BY DEF Init
    <3> QED
      BY <3>1, <3>2 DEF SharedTypeOK
  <2>3. ThreadsTypeOK
    <3>1. input \in InputType
      BY InputIdleType DEF Init
    <3>2. ping \in PingType /\ ping.pc = "registered"
      BY <1>0, PingAtType DEF Init, PingPcs
    <3>3. output \in [pc : OutputPcs, addr : Addresses] /\ cpu \in [pc : CpuPcs, port : Ports]
      BY <1>0 DEF Init, OutputIdle, OutputPcs, CpuPcs, Addresses
    <3> QED
      BY <3>1, <3>2, <3>3 DEF ThreadsTypeOK, InputType, PingType
  <2>4. HistoryTypeOK
    BY DEF Init, HistoryTypeOK
  <2> QED
    BY <2>1, <2>2, <2>3, <2>4 DEF TypeOK
<1>2. TypeOK /\ [Next]_vars => TypeOK'
  <2> SUFFICES ASSUME TypeOK, [Next]_vars PROVE TypeOK'
    OBVIOUS
  <2>t. /\ IOPortTypeOK /\ SharedTypeOK /\ ThreadsTypeOK /\ HistoryTypeOK
        /\ input \in InputType /\ input.port \in Ports /\ input.dev \in Addresses
        /\ ping \in PingType /\ ping.port \in Ports
    BY DEF TypeOK, ThreadsTypeOK, InputType, PingType
  \* The four threads: what is left to show of a step of each.
  <2>i. ASSUME input' \in InputType, IOPortTypeOK', interrupt_queue' \in Seq(SystemInterrupts),
               InputOnly
        PROVE  TypeOK'
    BY <2>i, <2>t DEF InputOnly, stopping, history, TypeOK, SharedTypeOK, ThreadsTypeOK,
                      HistoryTypeOK, InputType
  <2>p. ASSUME ping' \in PingType, ping'.pc \in {"write", "status"} => ping'.status <= MaxStatus,
               device_status_table' \in [Ports -> 0..MaxStatus],
               interrupt_queue' \in Seq(SystemInterrupts), PingOnly
        PROVE  TypeOK'
    BY <2>p, <2>t DEF PingOnly, ports, stopping, history, TypeOK, IOPortTypeOK, SharedTypeOK,
                      ThreadsTypeOK, HistoryTypeOK, PingType
  <2>o. ASSUME output' \in [pc : OutputPcs, addr : Addresses], output_queue' \in Seq(Addresses),
               OutputOnly
        PROVE  TypeOK'
    BY <2>o, <2>t DEF OutputOnly, ports, tables, stopping, history, TypeOK, IOPortTypeOK,
                      SharedTypeOK, ThreadsTypeOK, HistoryTypeOK
  <2>c. ASSUME cpu' \in [pc : CpuPcs, port : Ports], HistoryTypeOK', SharedTypeOK',
               input_queue' \in [Ports -> Seq(Addresses)], CpuOnly
        PROVE  TypeOK'
    BY <2>c, <2>t DEF CpuOnly, tables, TypeOK, IOPortTypeOK, ThreadsTypeOK
  <2>s. ASSUME NEW n \in SystemInterrupts, Send(n)
        PROVE  interrupt_queue' \in Seq(SystemInterrupts)
    BY <2>s, <2>t DEF Send, SharedTypeOK
  \* The input thread
  <2>1. CASE ServeLoop \/ NoRequest \/ RequestArrives \/ NothingToDo \/ CompareStatus
    <3>1. input' \in InputType
      BY <2>1, <2>t, InputGotoType DEF ServeLoop, NoRequest, RequestArrives, NothingToDo,
                                       CompareStatus, InputType, InputPcs
    <3> QED
      BY <3>1, <2>1, <2>t, <2>i DEF ServeLoop, NoRequest, RequestArrives, NothingToDo,
                                    CompareStatus, ports, tables,
                                    IOPortTypeOK, SharedTypeOK
  <2>2. ASSUME NEW p \in Ports, NEW dev \in Devices, Register(p, dev) PROVE TypeOK'
    <3>1. input' \in InputType
      <4>1. CASE InputGoto("loop")
        BY <4>1, <2>t, InputGotoType DEF InputPcs
      <4>2. CASE input' = [pc |-> "register", port |-> p, dev |-> dev, changed |-> FALSE]
        BY <4>2 DEF InputType, InputPcs, Addresses
      <4> QED
        BY <2>2, <4>1, <4>2 DEF Register
    <3> QED
      BY <3>1, <2>2, <2>t, <2>i DEF Register, ports, tables, IOPortTypeOK, SharedTypeOK
  <2>3. ASSUME NEW p \in Ports, Unregister(p) PROVE TypeOK'
    <3>1. input' \in InputType
      <4>1. CASE InputGoto("loop")
        BY <4>1, <2>t, InputGotoType DEF InputPcs
      <4>2. CASE input' = [pc |-> "unregister", port |-> p, dev |-> NoDevice, changed |-> FALSE]
        BY <4>2 DEF InputType, InputPcs, Addresses
      <4> QED
        BY <2>3, <4>1, <4>2 DEF Unregister
    <3> QED
      BY <3>1, <2>3, <2>t, <2>i DEF Unregister, ports, tables, IOPortTypeOK, SharedTypeOK
  <2>4. ASSUME NEW p \in Ports, ReceiveData(p) PROVE TypeOK'
    <3>1. input' \in InputType
      BY <2>4, <2>t, InputGotoType DEF ReceiveData, InputType, InputPcs
    <3>2. input_queue' \in [Ports -> Seq(Addresses)]
      <4>1. address[p] \in Addresses /\ input_queue[p] \in Seq(Addresses)
        BY <2>t DEF IOPortTypeOK
      <4>2. Append(input_queue[p], address[p]) \in Seq(Addresses)
        BY <4>1
      <4>3. \/ input_queue' = input_queue
            \/ input_queue' = [input_queue EXCEPT ![p] = Append(input_queue[p], address[p])]
        BY <2>4 DEF ReceiveData
      <4> QED
        BY <4>2, <4>3, <2>t DEF IOPortTypeOK
    <3> QED
      BY <3>1, <3>2, <2>4, <2>t, <2>i DEF ReceiveData, tables, IOPortTypeOK, SharedTypeOK
  <2>5. CASE SendIOPortIn \/ SendRegistered
    <3>1. input' \in InputType
      BY <2>5, InputIdleType DEF SendIOPortIn, SendRegistered
    <3>2. interrupt_queue' \in Seq(SystemInterrupts)
      BY <2>5, <2>t, <2>s, Interrupts DEF SendIOPortIn, SendRegistered
    <3> QED
      BY <3>1, <3>2, <2>5, <2>t, <2>i DEF SendIOPortIn, SendRegistered, ports, tables,
                                          IOPortTypeOK
  <2>6. CASE WriteRegistry \/ ResetStatus
    <3>1. input' \in InputType
      BY <2>6, <2>t, InputGotoType DEF WriteRegistry, ResetStatus, InputPcs
    <3>2. IOPortTypeOK'
      <4>1. CASE WriteRegistry
        BY <4>1, <2>t DEF WriteRegistry, ports, IOPortTypeOK
      <4>2. CASE ResetStatus
        BY <4>2, <2>t, DeviceControllerAssumption DEF ResetStatus, ports, IOPortTypeOK
      <4> QED
        BY <2>6, <4>1, <4>2
    <3> QED
      BY <3>1, <3>2, <2>6, <2>t, <2>i DEF WriteRegistry, ResetStatus, SharedTypeOK
  <2>7. CASE SendStatusChanged
    <3>1. input' \in InputType
      BY <2>7, <2>t, InputGotoType DEF SendStatusChanged, InputPcs
    <3>2. interrupt_queue' \in Seq(SystemInterrupts)
      BY <2>7, <2>t, <2>s, Interrupts DEF SendStatusChanged
    <3> QED
      BY <3>1, <3>2, <2>7, <2>t, <2>i DEF SendStatusChanged, ports, tables, IOPortTypeOK
  <2>8. CASE WriteAddress \/ WriteRegistered
    <3>1. input' \in InputType
      BY <2>8, <2>t, InputGotoType DEF WriteAddress, WriteRegistered, InputPcs
    <3>2. IOPortTypeOK'
      BY <2>8, <2>t DEF WriteAddress, WriteRegistered, tables, IOPortTypeOK
    <3> QED
      BY <3>1, <3>2, <2>8, <2>t, <2>i DEF WriteAddress, WriteRegistered, SharedTypeOK
  \* The ping thread
  <2>9. CASE CheckRegistered \/ ReadAddress \/ Pong \/ NoPong \/ PingFails \/ PingWait
    <3>1. ping' \in PingType /\ ping'.pc \notin {"write", "status"}
      <4>1. CASE CheckRegistered
        BY <4>1, <2>t, NextPortType DEF CheckRegistered, PingType, PingPcs
      <4>2. CASE ReadAddress
        BY <4>2, <2>t DEF ReadAddress, PingType, PingPcs, IOPortTypeOK
      <4>3. CASE Pong
        <5>1. 0 \in 0 .. MaxStatus + 1
          BY DeviceControllerAssumption
        <5> QED
          BY <5>1, <4>3, <2>t DEF Pong, PingType, PingPcs
      <4>5. CASE NoPong \/ PingFails
        BY <4>5, <2>t DEF NoPong, PingFails, PingType, PingPcs
      <4>4. CASE PingWait
        BY <4>4, <1>0, PingAtType DEF PingWait, PingPcs
      <4> QED
        BY <2>9, <4>1, <4>2, <4>3, <4>4, <4>5
    <3>2. PingReads
      BY <2>9 DEF CheckRegistered, ReadAddress, Pong, NoPong, PingFails, PingWait
    <3> QED
      BY <3>1, <3>2, <2>t, <2>p DEF PingReads, IOPortTypeOK, SharedTypeOK
  <2>10. CASE ReadStatus
    <3>1. device_status_table[ping.port] \in 0 .. MaxStatus
      BY <2>t DEF IOPortTypeOK
    <3>2. device_status_table[ping.port] + 1 \in 0 .. MaxStatus + 1
      BY <3>1, DeviceControllerAssumption
    <3>3. ping' \in PingType /\ ping'.pc = "compare"
      BY <3>2, <2>10, <2>t DEF ReadStatus, PingType, PingPcs
    <3> QED
      BY <3>3, <2>10, <2>t, <2>p DEF ReadStatus, PingReads, IOPortTypeOK, SharedTypeOK
  <2>11. CASE PingCompareStatus
    <3> DEFINE status == IF ping.status > MaxStatus THEN MaxStatus ELSE ping.status
    <3>1. status \in 0 .. MaxStatus /\ status \in 0 .. MaxStatus + 1
      BY <2>t, DeviceControllerAssumption DEF PingType
    <3> HIDE DEF status
    <3>2. ping' = [ping EXCEPT !.pc = "write", !.status = status,
                               !.changed = status # device_status_table[ping.port]]
      BY <2>11 DEF PingCompareStatus, status
    <3>3. ping' \in PingType /\ ping'.status <= MaxStatus
      <4>1. (status # device_status_table[ping.port]) \in BOOLEAN
        OBVIOUS
      <4>2. ping' \in PingType /\ ping'.status = status
        BY <3>1, <3>2, <4>1, <2>t DEF PingType, PingPcs
      <4> QED
        BY <3>1, <4>2
    <3> QED
      BY <3>3, <2>11, <2>t, <2>p DEF PingCompareStatus, PingReads, IOPortTypeOK, SharedTypeOK
  <2>12. CASE PingWriteStatus
    <3>1. ping.status \in 0 .. MaxStatus
      BY <2>12, <2>t, DeviceControllerAssumption DEF PingWriteStatus, ThreadsTypeOK, PingType
    <3>2. device_status_table' \in [Ports -> 0 .. MaxStatus]
      BY <3>1, <2>12, <2>t DEF PingWriteStatus, IOPortTypeOK
    <3>3. ping' \in PingType /\ (ping'.pc \in {"write", "status"} => ping'.status <= MaxStatus)
      <4>1. CASE ping.changed
        BY <4>1, <3>1, <2>12, <2>t, DeviceControllerAssumption DEF PingWriteStatus,
                                                                   PingType, PingPcs
      <4>2. CASE ~ping.changed
        BY <4>2, <2>12, <2>t, NextPortType DEF PingWriteStatus
      <4> QED
        BY <4>1, <4>2
    <3> QED
      BY <3>2, <3>3, <2>12, <2>t, <2>p DEF PingWriteStatus, SharedTypeOK
  <2>13. CASE PingSendStatusChanged
    <3>1. ping' \in PingType /\ ping'.pc \notin {"write", "status"}
      BY <2>13, <2>t, NextPortType DEF PingSendStatusChanged
    <3>2. interrupt_queue' \in Seq(SystemInterrupts)
      BY <2>13, <2>t, <2>s, Interrupts DEF PingSendStatusChanged
    <3> QED
      BY <3>1, <3>2, <2>13, <2>t, <2>p DEF PingSendStatusChanged, IOPortTypeOK
  \* The output thread
  <2>14. CASE OutputStep \/ OutputEnds
    <3>t. /\ output \in [pc : OutputPcs, addr : Addresses] /\ output_queue \in Seq(Addresses)
          /\ NoDevice \in Addresses
      BY <2>t DEF ThreadsTypeOK, SharedTypeOK, Addresses
    <3>1. output' \in [pc : OutputPcs, addr : Addresses] /\ output_queue' \in Seq(Addresses)
      <4>1. CASE GetOutput
        <5>1. Head(output_queue) \in Addresses /\ Tail(output_queue) \in Seq(Addresses)
          BY <4>1, <3>t DEF GetOutput
        <5> QED
          BY <5>1, <4>1 DEF GetOutput, OutputPcs
      <4>2. CASE OutputEmpty
        BY <4>2, <3>t DEF OutputEmpty, OutputPcs
      <4>3. CASE OutputStopCheck
        BY <4>3, <3>t DEF OutputStopCheck, OutputPcs
      <4>4. CASE DataSent
        BY <4>4, <3>t DEF DataSent, OutputIdle, OutputPcs
      <4>5. CASE DataFailed
        BY <4>5, <3>t DEF DataFailed, OutputIdle, OutputPcs
      <4> QED
        BY <2>14, <4>1, <4>2, <4>3, <4>4, <4>5 DEF OutputStep, OutputEnds
    <3> QED
      BY <3>1, <2>14, <2>o DEF OutputStep, OutputEnds, GetOutput, OutputEmpty,
                               OutputStopCheck, DataSent, DataFailed
  \* The CPU thread
  <2>15. CASE TakeInterrupt
    <3>1. SharedTypeOK'
      BY <2>15, <2>t DEF TakeInterrupt, Check, stopping, SharedTypeOK
    <3>2. HistoryTypeOK'
      BY <2>15, <2>t DEF TakeInterrupt, HistoryTypeOK
    <3> QED
      BY <3>1, <3>2, <2>15, <2>t, <2>c DEF TakeInterrupt, ThreadsTypeOK, IOPortTypeOK
  <2>16. ASSUME NEW p \in Ports, In(p) PROVE TypeOK'
    <3>1. input_queue' \in [Ports -> Seq(Addresses)]
      BY <2>16, <2>t DEF In, IOPortTypeOK
    <3>2. HistoryTypeOK'
      BY <2>16, <2>t DEF In, HistoryTypeOK
    <3> QED
      BY <3>1, <3>2, <2>16, <2>t, <2>c DEF In, stopping, ThreadsTypeOK, SharedTypeOK
  <2>17. ASSUME NEW p \in Ports, OutCheck(p) PROVE TypeOK'
    BY <2>17, <2>t, <2>c DEF OutCheck, stopping, history, CpuPcs, ThreadsTypeOK, SharedTypeOK,
                             HistoryTypeOK, IOPortTypeOK
  <2>18. CASE OutPut
    <3>1. SharedTypeOK'
      BY <2>18, <2>t DEF OutPut, stopping, SharedTypeOK, IOPortTypeOK, ThreadsTypeOK
    <3> QED
      BY <3>1, <1>0, <2>18, <2>t, <2>c DEF OutPut, history, CpuPcs, HistoryTypeOK, IOPortTypeOK
  <2>19. CASE Shutdown \/ JoinInput \/ JoinOutputAndPing
    BY <2>19, <2>t, <2>c DEF Shutdown, JoinInput, JoinOutputAndPing, CpuGoto, CpuPcs, stopping,
                             history, ThreadsTypeOK, SharedTypeOK, HistoryTypeOK, IOPortTypeOK
  <2>20. CASE UNCHANGED vars
    BY <2>20 DEF vars, ports, tables, stopping, history, TypeOK, IOPortTypeOK, SharedTypeOK,
                 ThreadsTypeOK, HistoryTypeOK
  <2> QED
    BY <2>1, <2>2, <2>3, <2>4, <2>5, <2>6, <2>7, <2>8, <2>9, <2>10, <2>11, <2>12, <2>13,
       <2>14, <2>15, <2>16, <2>17, <2>18, <2>19, <2>20
       DEF Next, InputStep, Request, Handle, PingStep, PingEnds, CpuProgram, CpuFinish, Stopped
<1> QED
  BY <1>1, <1>2, PTL DEF Spec

-----------------------------------------------------------------------------
(* IOPorts and their devices *)

Clear(p) == address[p] = NoDevice /\ ~registered[p] /\ input_queue[p] = <<>>

\* The inductive form of PortConsistent: how far the registration or the
\* unregistration at p has come.
PortInv(p) ==
    /\ ~Changing(p) => /\ device_registry[p] = address[p]
                       /\ registered[p] <=> address[p] # NoDevice
    /\ input.port = p =>
        /\ input.pc = "register" => input.dev # NoDevice /\ Clear(p)
        /\ input.pc = "unregister" => input.dev = NoDevice /\ registered[p]
        /\ input.pc \in {"compare", "write", "status", "address"} =>
              /\ device_registry[p] = input.dev
              /\ input.dev # NoDevice => Clear(p)
              /\ input.dev = NoDevice => registered[p] /\ address[p] # NoDevice
        /\ input.pc = "flag" =>
              /\ device_registry[p] = input.dev /\ address[p] = input.dev
              /\ registered[p] <=> input.dev = NoDevice
              /\ input.dev # NoDevice => input_queue[p] = <<>>

\* What each kind of step keeps of it, for any port.
LEMMA PortInductive ==
  ASSUME NEW p \in Ports
  PROVE  /\ Init => PortInv(p)
         /\ TypeOK /\ PortInv(p) /\ [Next]_vars => PortInv(p)'
<1>1. Init => PortInv(p)
  BY DEF Init, PortInv, InputIdle, Changing
<1>2. ASSUME TypeOK, PortInv(p), [Next]_vars PROVE PortInv(p)'
  <2>t. /\ registered \in [Ports -> BOOLEAN] /\ address \in [Ports -> Addresses]
        /\ device_registry \in [Ports -> Addresses] /\ input_queue \in [Ports -> Seq(Addresses)]
        /\ input \in InputType /\ input.port \in Ports /\ input.dev \in Addresses
    BY <1>2 DEF TypeOK, IOPortTypeOK, ThreadsTypeOK, InputType
  <2> USE <1>2, <2>t DEF PortInv, Changing, Clear
  <2>1. CASE UNCHANGED <<registered, address, input_queue, device_registry, input>>
    BY <2>1
  <2>2. CASE PingStep \/ PingEnds \/ OutputStep \/ OutputEnds
    BY <2>1, <2>2 DEF PingStep, PingEnds, CheckRegistered, ReadAddress, Pong, NoPong, PingFails,
       ReadStatus, PingCompareStatus, PingWriteStatus, PingSendStatusChanged, PingWait,
       PingReads, PingOnly, OutputStep, OutputEnds, GetOutput, OutputEmpty,
       OutputStopCheck, DataSent,
       DataFailed, OutputOnly, ports, tables
  <2>3. CASE CpuFinish \/ TakeInterrupt \/ Shutdown \/ (\E q \in Ports : OutCheck(q))
    BY <2>1, <2>3 DEF CpuFinish, OutPut, JoinInput, JoinOutputAndPing, TakeInterrupt, Shutdown,
                      OutCheck, CpuOnly, tables
  <2>4. ASSUME NEW q \in Ports, In(q) PROVE PortInv(p)'
    <3>1. input_queue[p] = <<>> => input_queue'[p] = <<>>
      BY <2>4 DEF In
    <3> QED
      BY <3>1, <2>4 DEF In, CpuOnly, tables
  <2> USE DEF InputOnly, InputGoto, ports, tables, InputType
  <2>5. CASE ServeLoop \/ NoRequest \/ RequestArrives \/ NothingToDo \/ SendIOPortIn
             \/ SendRegistered
    BY <2>5 DEF ServeLoop, NoRequest, RequestArrives, NothingToDo, SendIOPortIn,
                SendRegistered, InputIdle
  <2>6. ASSUME NEW q \in Ports, NEW dev \in Devices, Register(q, dev) PROVE PortInv(p)'
    <3>1. dev # NoDevice
      BY DeviceControllerAssumption
    <3> QED
      BY <3>1, <2>6 DEF Register
  <2>7. ASSUME NEW q \in Ports, Unregister(q) PROVE PortInv(p)'
    BY <2>7 DEF Unregister
  <2>8. ASSUME NEW q \in Ports, ReceiveData(q) PROVE PortInv(p)'
    BY <2>8 DEF ReceiveData
  <2>9. CASE WriteRegistry
    BY <2>9 DEF WriteRegistry
  <2>10. CASE CompareStatus \/ ResetStatus \/ SendStatusChanged
    BY <2>10 DEF CompareStatus, ResetStatus, SendStatusChanged
  <2>11. CASE WriteAddress
    BY <2>11 DEF WriteAddress
  <2>12. CASE WriteRegistered
    BY <2>12 DEF WriteRegistered
  <2>13. CASE UNCHANGED vars
    BY <2>1, <2>13 DEF vars
  <2> QED
    BY <2>2, <2>3, <2>4, <2>5, <2>6, <2>7, <2>8, <2>9, <2>10, <2>11, <2>12, <2>13
       DEF Next, InputStep, Request, Handle, CpuProgram, Stopped
<1> QED
  BY <1>1, <1>2

\* The IOPort and the registry agree on the device whenever no registration or
\* unregistration is half done, and a registered IOPort is without an address
\* only in the last step of unregister_device.
THEOREM DeviceControllerPortConsistent == Spec => []PortConsistent
<1> DEFINE Inv == \A p \in Ports : PortInv(p)
<1>1. Init => Inv
  BY PortInductive
<1>2. TypeOK /\ Inv /\ [Next]_vars => Inv'
  BY PortInductive
<1>3. TypeOK /\ Inv => PortConsistent
  BY DEF PortConsistent, PortInv, Changing, Clear, TypeOK, ThreadsTypeOK, IOPortTypeOK
<1> QED
  <2> HIDE DEF Inv
  <2> QED
    BY <1>1, <1>2, <1>3, DeviceControllerTypeOK, PTL DEF Spec

\* Only WriteAddress changes an address; only ReceiveData and IN an input queue.
LEMMA AddressKept ==
  ASSUME [Next]_vars, ~WriteAddress
  PROVE  /\ address' = address
         /\ \/ input_queue' = input_queue
            \/ \E p \in Ports : ReceiveData(p) \/ In(p)
  BY DEF Next, Stopped, vars, ports, tables, history,
     InputStep, Request, Handle, Register, Unregister, ReceiveData, ServeLoop, NoRequest,
     RequestArrives, NothingToDo,
     SendIOPortIn, WriteRegistry, CompareStatus, ResetStatus, SendStatusChanged,
     WriteRegistered, SendRegistered,
     PingStep, PingEnds, CheckRegistered, ReadAddress, Pong, NoPong, PingFails, ReadStatus,
     PingCompareStatus, PingWriteStatus, PingSendStatusChanged, PingWait, PingReads, PingOnly,
     OutputStep, OutputEnds, GetOutput, OutputEmpty, OutputStopCheck, DataSent, DataFailed,
     OutputOnly,
     CpuProgram, CpuFinish, OutPut, JoinInput, JoinOutputAndPing, TakeInterrupt, Shutdown,
     In, OutCheck, CpuOnly

\* A device keeps its IOPort until it is unregistered: WriteAddress either clears
\* the address or sets that of a port that has none.
THEOREM DeviceControllerNoDisplacement == Spec => NoDisplacement
<1> DEFINE Inv == \A p \in Ports : PortInv(p)
<1> DEFINE Kept == \A p \in Ports :
             address[p] # NoDevice => address'[p] \in {address[p], NoDevice}
<1>1. Init => Inv
  BY PortInductive
<1>2. TypeOK /\ Inv /\ [Next]_vars => Inv'
  BY PortInductive
<1>3. TypeOK /\ Inv /\ [Next]_vars => [Kept]_vars
  <2> SUFFICES ASSUME TypeOK, Inv, [Next]_vars, NEW p \in Ports, address[p] # NoDevice
               PROVE  address'[p] \in {address[p], NoDevice}
    OBVIOUS
  <2>1. CASE WriteAddress
    <3>1. /\ address \in [Ports -> Addresses] /\ input.port \in Ports
          /\ address' = [address EXCEPT ![input.port] = input.dev] /\ input.pc = "address"
      BY <2>1 DEF WriteAddress, TypeOK, IOPortTypeOK, ThreadsTypeOK
    <3>2. input.port = p => input.dev = NoDevice
      BY <3>1 DEF PortInv, Clear
    <3> QED
      BY <3>1, <3>2
  <2>2. CASE ~WriteAddress
    BY <2>2, AddressKept
  <2> QED
    BY <2>1, <2>2
<1> QED
  <2> HIDE DEF Inv
  <2> QED
    BY <1>1, <1>2, <1>3, DeviceControllerTypeOK, PTL DEF Spec, NoDisplacement

\* All that is in the input queue was accepted while the device at the address was
\* registered.
FreshInv(p) == address[p] # NoDevice =>
    \A i \in 1 .. Len(input_queue[p]) : input_queue[p][i] = address[p]

\* FreshInput with PortInv is inductive: a device gets an address only where the
\* input queue is empty.
LEMMA FreshInductive ==
  ASSUME NEW p \in Ports
  PROVE  /\ Init => FreshInv(p)
         /\ TypeOK /\ PortInv(p) /\ FreshInv(p) /\ [Next]_vars => FreshInv(p)'
<1>1. Init => FreshInv(p)
  BY DEF Init, FreshInv
<1>2. ASSUME TypeOK, PortInv(p), FreshInv(p), [Next]_vars PROVE FreshInv(p)'
  <2>t. /\ address \in [Ports -> Addresses] /\ input_queue \in [Ports -> Seq(Addresses)]
        /\ input_queue[p] \in Seq(Addresses) /\ input.port \in Ports
    BY <1>2 DEF TypeOK, IOPortTypeOK, ThreadsTypeOK
  <2>1. CASE WriteAddress
    <3>1. /\ address' = [address EXCEPT ![input.port] = input.dev]
          /\ input_queue' = input_queue /\ input.pc = "address"
      BY <2>1 DEF WriteAddress
    <3>2. input.port = p /\ input.dev # NoDevice => input_queue[p] = <<>>
      BY <3>1, <1>2 DEF PortInv, Clear
    <3>3. CASE input.port = p
      BY <3>1, <3>2, <3>3, <2>t DEF FreshInv
    <3>4. CASE input.port # p
      BY <3>1, <3>4, <1>2, <2>t DEF FreshInv
    <3> QED
      BY <3>3, <3>4
  <2>2. CASE ~WriteAddress /\ input_queue' = input_queue
    BY <2>2, <1>2, AddressKept DEF FreshInv
  <2>3. ASSUME ~WriteAddress, NEW q \in Ports, ReceiveData(q) PROVE FreshInv(p)'
    <3>1. address' = address
      BY <2>3, <1>2, AddressKept
    <3>2. input_queue'[p] = input_queue[p]
          \/ input_queue'[p] = Append(input_queue[p], address[p])
      BY <2>3, <2>t DEF ReceiveData
    <3>3. CASE input_queue'[p] = input_queue[p]
      BY <3>1, <3>3, <1>2 DEF FreshInv
    <3>4. CASE input_queue'[p] = Append(input_queue[p], address[p])
      <4> DEFINE dev == address[p]
                 data == input_queue[p]
      <4>1. data \in Seq(Addresses) /\ dev \in Addresses
        BY <2>t
      <4> HIDE DEF dev, data
      <4>2. \A i \in 1 .. Len(Append(data, dev)) :
               Append(data, dev)[i] = dev \/ (i \in 1 .. Len(data) /\ Append(data, dev)[i] = data[i])
        BY <4>1
      <4> QED
        BY <4>2, <3>1, <3>4, <1>2 DEF FreshInv, dev, data
    <3> QED
      BY <3>2, <3>3, <3>4
  <2>4. ASSUME ~WriteAddress, NEW q \in Ports, In(q) PROVE FreshInv(p)'
    <3>1. address' = address
      BY <2>4, <1>2, AddressKept
    <3>2. input_queue'[p] = input_queue[p]
          \/ (input_queue[p] # <<>> /\ input_queue'[p] = Tail(input_queue[p]))
      BY <2>4, <2>t DEF In
    <3>3. CASE input_queue'[p] = input_queue[p]
      BY <3>1, <3>3, <1>2 DEF FreshInv
    <3>4. CASE input_queue[p] # <<>> /\ input_queue'[p] = Tail(input_queue[p])
      <4>1. Len(Tail(input_queue[p])) = Len(input_queue[p]) - 1
        BY <3>4, <2>t
      <4>2. \A i \in 1 .. Len(Tail(input_queue[p])) :
               /\ Tail(input_queue[p])[i] = input_queue[p][i + 1]
               /\ i + 1 \in 1 .. Len(input_queue[p])
        BY <3>4, <4>1, <2>t
      <4> QED
        BY <3>1, <3>4, <4>2, <1>2 DEF FreshInv
    <3> QED
      BY <3>2, <3>3, <3>4
  <2> QED
    BY <2>1, <2>2, <2>3, <2>4, <1>2, AddressKept
<1> QED
  BY <1>1, <1>2

\* What IN reads from an IOPort with a device was accepted while that device was
\* registered: nothing is left over from the one before it, in any interleaving. (Who
\* sent it is not asked by the code, and not claimed here.)
THEOREM DeviceControllerFreshInput == Spec => []FreshInput
<1> DEFINE Inv == \A p \in Ports : PortInv(p) /\ FreshInv(p)
<1>1. Init => Inv
  BY PortInductive, FreshInductive
<1>2. TypeOK /\ Inv /\ [Next]_vars => Inv'
  BY PortInductive, FreshInductive
<1>3. TypeOK /\ Inv => FreshInput
  <2> SUFFICES ASSUME TypeOK, Inv, NEW p \in Ports, address[p] # NoDevice,
                      NEW i \in DOMAIN input_queue[p]
               PROVE  input_queue[p][i] = address[p]
    BY DEF FreshInput
  <2>1. i \in 1 .. Len(input_queue[p])
    BY DEF TypeOK, IOPortTypeOK
  <2> QED
    BY <2>1 DEF FreshInv
<1> QED
  <2> HIDE DEF Inv
  <2> QED
    BY <1>1, <1>2, <1>3, DeviceControllerTypeOK, PTL DEF Spec
----------------------------------------------------------------
\* The threads implement the IOPort of IOPortQueue: WriteAddress registers or
\* unregisters, ReceiveData accepts, IN reads, and no other step touches it.
THEOREM DeviceControllerImplementsIOPort == Spec => ImplementsIOPort
<1> DEFINE Inv == \A p \in Ports : PortInv(p)
<1>1. Init => Inv
  BY PortInductive
<1>2. TypeOK /\ Inv /\ [Next]_vars => Inv'
  BY PortInductive
<1>3. Init => IOPorts!Init
  BY DEF Init, IOPorts!Init
<1>4. TypeOK /\ Inv /\ [Next]_vars => [IOPorts!Next]_(IOPorts!vars)
  <2> SUFFICES ASSUME TypeOK, Inv, [Next]_vars
               PROVE  [IOPorts!Next]_(IOPorts!vars)
    OBVIOUS
  <2>1. CASE WriteAddress
    <3>1. /\ address' = [address EXCEPT ![input.port] = input.dev] /\ input.pc = "address"
          /\ input_queue' = input_queue /\ input.port \in Ports /\ input.dev \in Addresses
      BY <2>1 DEF WriteAddress, TypeOK, ThreadsTypeOK
    <3>2. PortInv(input.port)
      BY <3>1
    <3>3. CASE input.dev = NoDevice
      <4>1. IOPorts!Unregister(input.port)
        BY <3>1, <3>2, <3>3 DEF PortInv, IOPorts!Unregister
      <4> QED
        BY <4>1, <3>1 DEF IOPorts!Next
    <3>4. CASE input.dev # NoDevice
      <4>1. input.dev \in Devices
        BY <3>1, <3>4 DEF Addresses
      <4>2. IOPorts!Register(input.port, input.dev)
        BY <3>1, <3>2, <3>4 DEF PortInv, Clear, IOPorts!Register, IOPorts!Free
      <4> QED
        BY <4>1, <4>2, <3>1 DEF IOPorts!Next
    <3> QED
      BY <3>3, <3>4
  <2>2. CASE ~WriteAddress /\ input_queue' = input_queue
    BY <2>2, AddressKept DEF IOPorts!vars
  <2>3. ASSUME ~WriteAddress, NEW p \in Ports, ReceiveData(p)
        PROVE  [IOPorts!Next]_(IOPorts!vars)
    <3>1. address' = address
      BY <2>3, AddressKept
    <3>2. CASE input_queue' = input_queue
      BY <3>1, <3>2 DEF IOPorts!vars
    <3>3. CASE /\ registered[p] /\ input.pc = "body"
               /\ input_queue' = [input_queue EXCEPT ![p] = Append(@, address[p])]
      <4>1. address[p] # NoDevice
        BY <3>3 DEF PortInv, Changing
      <4>2. IOPorts!Accept(p, address[p])
        BY <4>1, <3>1, <3>3 DEF IOPorts!Accept
      <4> QED
        BY <4>2 DEF IOPorts!Next
    <3> QED
      BY <2>3, <3>2, <3>3 DEF ReceiveData
  <2>4. ASSUME ~WriteAddress, NEW p \in Ports, In(p)
        PROVE  [IOPorts!Next]_(IOPorts!vars)
    <3>1. address' = address
      BY <2>4, AddressKept
    <3>2. IOPorts!Read(p)
      BY <3>1, <2>4 DEF In, IOPorts!Read
    <3> QED
      BY <3>2 DEF IOPorts!Next
  <2> QED
    BY <2>1, <2>2, <2>3, <2>4, AddressKept
<1> QED
  <2> HIDE DEF Inv
  <2> QED
    BY <1>1, <1>2, <1>3, <1>4, DeviceControllerTypeOK, PTL
       DEF Spec, ImplementsIOPort, IOPorts!Spec

-----------------------------------------------------------------------------
(* Counting interrupts *)

Places(queue, n) == {i \in DOMAIN queue : queue[i] = n}

LEMMA PlacesFinite ==
  ASSUME NEW S, NEW queue \in Seq(S), NEW n
  PROVE  IsFiniteSet(Places(queue, n)) /\ Cardinality(Places(queue, n)) \in Nat
<1>1. Places(queue, n) \subseteq 1 .. Len(queue) /\ Len(queue) \in Int
  BY DEF Places
<1>2. IsFiniteSet(1 .. Len(queue))
  BY <1>1, FS_Interval
<1>3. IsFiniteSet(Places(queue, n))
  BY <1>1, <1>2, FS_Subset
<1> QED
  BY <1>3, FS_CardinalityType

LEMMA CountAppend ==
  ASSUME NEW S, NEW queue \in Seq(S), NEW n, NEW m \in S
  PROVE  Cardinality(Places(Append(queue, m), n))
            = Cardinality(Places(queue, n)) + IF m = n THEN 1 ELSE 0
<1>1. /\ DOMAIN Append(queue, m) = 1 .. Len(queue) + 1 /\ DOMAIN queue = 1 .. Len(queue)
      /\ Len(queue) \in Nat
      /\ \A i \in 1 .. Len(queue) : Append(queue, m)[i] = queue[i]
      /\ Append(queue, m)[Len(queue) + 1] = m
  OBVIOUS
<1>2. CASE m = n
  <2>1. /\ Places(Append(queue, m), n) = Places(queue, n) \union {Len(queue) + 1}
        /\ Len(queue) + 1 \notin Places(queue, n)
    BY <1>1, <1>2 DEF Places
  <2> QED
    BY <1>2, <2>1, PlacesFinite, FS_AddElement
<1>3. CASE m # n
  <2>1. Places(Append(queue, m), n) = Places(queue, n)
    BY <1>1, <1>3 DEF Places
  <2> QED
    BY <1>3, <2>1, PlacesFinite
<1> QED
  BY <1>2, <1>3

LEMMA CountTail ==
  ASSUME NEW S, NEW queue \in Seq(S), queue # <<>>, NEW n
  PROVE  Cardinality(Places(queue, n))
            = Cardinality(Places(Tail(queue), n)) + IF Head(queue) = n THEN 1 ELSE 0
<1> DEFINE A == Places(Tail(queue), n)
           B == Places(queue, n)
           f == [i \in A |-> i + 1]
<1>1. /\ Len(queue) \in Nat /\ Len(queue) >= 1 /\ DOMAIN queue = 1 .. Len(queue)
      /\ DOMAIN Tail(queue) = 1 .. Len(queue) - 1
      /\ \A i \in 1 .. Len(queue) - 1 : Tail(queue)[i] = queue[i + 1]
      /\ Head(queue) = queue[1] /\ Tail(queue) \in Seq(S)
  OBVIOUS
<1>2. /\ \A i \in A : i \in Nat /\ i >= 1 /\ i + 1 \in B \ {1}
      /\ \A i \in B \ {1} : i \in Nat /\ i - 1 \in A /\ (i - 1) + 1 = i
  BY <1>1 DEF Places
<1>3. f \in Bijection(A, B \ {1})
  <2>1. f \in Injection(A, B \ {1})
    BY <1>2 DEF Injection, IsInjective
  <2>2. f \in Surjection(A, B \ {1})
    BY <1>2 DEF Surjection
  <2> QED
    BY <2>1, <2>2 DEF Bijection
<1>4. IsFiniteSet(A) /\ IsFiniteSet(B)
  BY <1>1, PlacesFinite
<1>5. Cardinality(B \ {1}) = Cardinality(A)
  BY <1>3, <1>4, FS_Bijection DEF ExistsBijection
<1>6. 1 \in B <=> Head(queue) = n
  BY <1>1 DEF Places
<1> HIDE DEF A, B, f
<1>7. CASE 1 \in B
  <2>1. Cardinality(B \ {1}) = Cardinality(B) - 1 /\ Cardinality(B) \in Nat
    BY <1>4, <1>7, FS_RemoveElement, FS_CardinalityType
  <2>2. Cardinality(B) = Cardinality(A) + 1
    BY <1>5, <2>1
  <2> QED
    BY <1>6, <1>7, <2>2 DEF A, B
<1>8. CASE 1 \notin B
  <2>1. B \ {1} = B /\ Cardinality(A) \in Nat
    BY <1>4, <1>8, FS_CardinalityType
  <2>2. Cardinality(B) = Cardinality(A)
    BY <1>5, <2>1
  <2> QED
    BY <1>6, <1>8, <2>1, <2>2 DEF A, B
<1> QED
  BY <1>7, <1>8

LEMMA PendingIs ==
  ASSUME NEW n
  PROVE  Pending(n) = Cardinality(Places(interrupt_queue, n))
  BY DEF Pending, Places

LEMMA SendCounts ==
  ASSUME TypeOK, NEW m \in SystemInterrupts, Send(m), NEW n
  PROVE  Pending(n)' = Pending(n) + IF m = n THEN 1 ELSE 0
<1>1. interrupt_queue \in Seq(SystemInterrupts) /\ interrupt_queue' = Append(interrupt_queue, m)
  BY DEF TypeOK, SharedTypeOK, Send
<1>2. Pending(n)' = Cardinality(Places(interrupt_queue', n))
  BY DEF Pending, Places
<1> QED
  BY <1>1, <1>2, PendingIs, CountAppend

LEMMA CheckCounts ==
  ASSUME TypeOK, Check, NEW n
  PROVE  Pending(n) = Pending(n)' + IF Head(interrupt_queue) = n THEN 1 ELSE 0
<1>1. /\ interrupt_queue \in Seq(SystemInterrupts) /\ interrupt_queue # <<>>
      /\ interrupt_queue' = Tail(interrupt_queue)
  BY DEF TypeOK, SharedTypeOK, Check
<1>2. Pending(n)' = Cardinality(Places(interrupt_queue', n))
  BY DEF Pending, Places
<1> QED
  BY <1>1, <1>2, PendingIs, CountTail

LEMMA PendingType ==
  ASSUME TypeOK, NEW n
  PROVE  Pending(n) \in Nat
<1>1. interrupt_queue \in Seq(SystemInterrupts)
  BY DEF TypeOK, SharedTypeOK
<1> QED
  BY <1>1, PendingIs, PlacesFinite

\* No two of the interrupts have the same number.
LEMMA InterruptsDiffer ==
  ASSUME NEW p \in Ports, NEW q \in Ports
  PROVE  /\ IOPortIn(p) \notin {DeviceRegistered, DeviceUnregistered, DeviceStatusChanged(q)}
         /\ DeviceStatusChanged(p) \notin {DeviceRegistered, DeviceUnregistered}
         /\ DeviceRegistered # DeviceUnregistered
         /\ IOPortIn(p) = IOPortIn(q) <=> p = q
<1>1. p \in Int /\ 0 <= p /\ p <= 15 /\ q \in Int /\ 0 <= q /\ q <= 15
  BY DeviceControllerAssumption DEF Ports
<1> QED
  BY <1>1 DEF IOPortIn, DeviceStatusChanged, DeviceRegistered, DeviceUnregistered

\* The input thread does not come to a send that is counted, nor leaves one.
Elsewhere == \/ UNCHANGED input
             \/ /\ input.pc \notin {"ioport_in", "announce"}
                /\ input'.pc \notin {"ioport_in", "announce"}

Quiet == UNCHANGED <<input_queue, registered, history>> /\ Elsewhere

LEMMA QuietSteps ==
  ASSUME TypeOK, [Next]_vars
  PROVE  \/ Quiet /\ UNCHANGED interrupt_queue
         \/ Quiet /\ \E p \in Ports : Send(DeviceStatusChanged(p))
         \/ \E p \in Ports : ReceiveData(p) /\ registered[p]
         \/ SendIOPortIn \/ WriteRegistered \/ SendRegistered \/ TakeInterrupt
         \/ \E p \in Ports : In(p)
<1>t. input \in InputType /\ input.port \in Ports /\ ping.port \in Ports
  BY DEF TypeOK, ThreadsTypeOK, InputType
<1> USE <1>t DEF Quiet, Elsewhere, InputType, ports, tables, history
<1>1. CASE (PingStep \/ PingEnds) /\ ~PingSendStatusChanged
  BY <1>1 DEF PingStep, PingEnds, CheckRegistered, ReadAddress, Pong, NoPong, PingFails,
     ReadStatus, PingCompareStatus, PingWriteStatus, PingWait, PingReads, PingOnly
<1>2. CASE PingSendStatusChanged
  BY <1>2 DEF PingSendStatusChanged, PingOnly
<1>3. CASE OutputStep \/ OutputEnds
  BY <1>3 DEF OutputStep, OutputEnds, GetOutput, OutputEmpty, OutputStopCheck, DataSent,
              DataFailed,
     OutputOnly
<1>4. CASE CpuFinish \/ Shutdown \/ (\E p \in Ports : OutCheck(p))
  BY <1>4 DEF CpuFinish, OutPut, JoinInput, JoinOutputAndPing, Shutdown, OutCheck, CpuOnly
<1>5. CASE UNCHANGED vars
  BY <1>5 DEF vars
<1> USE DEF InputOnly, InputGoto
<1>6. CASE ServeLoop \/ NoRequest \/ RequestArrives \/ NothingToDo \/ CompareStatus
  BY <1>6 DEF ServeLoop, NoRequest, RequestArrives, NothingToDo, CompareStatus
<1>7. CASE WriteRegistry \/ ResetStatus \/ WriteAddress
  BY <1>7 DEF WriteRegistry, ResetStatus, WriteAddress
<1>8. CASE SendStatusChanged
  BY <1>8 DEF SendStatusChanged
<1>9. ASSUME NEW p \in Ports, NEW dev \in Devices, Register(p, dev)
      PROVE  Quiet /\ UNCHANGED interrupt_queue
  BY <1>9 DEF Register
<1>10. ASSUME NEW p \in Ports, Unregister(p)
       PROVE  Quiet /\ UNCHANGED interrupt_queue
  BY <1>10 DEF Unregister
<1>11. ASSUME NEW p \in Ports, ReceiveData(p), ~registered[p]
       PROVE  Quiet /\ UNCHANGED interrupt_queue
  BY <1>11 DEF ReceiveData
<1> QED
  BY <1>1, <1>2, <1>3, <1>4, <1>5, <1>6, <1>7, <1>8, <1>9, <1>10, <1>11
     DEF Next, InputStep, Request, Handle, PingStep, PingEnds, CpuProgram, Stopped

\* What the input thread has put into the queue and not announced yet.
Unsent(p) == IF input.pc = "ioport_in" /\ input.port = p THEN 1 ELSE 0

InputCounted(p) == Len(input_queue[p]) = unread[p] + Pending(IOPortIn(p)) + Unsent(p)

LEMMA InputCountedStep ==
  ASSUME TypeOK, [Next]_vars, NEW p \in Ports, InputCounted(p)
  PROVE  InputCounted(p)'
<1> DEFINE n == IOPortIn(p)
<1>t. /\ input \in InputType /\ input.port \in Ports
      /\ input_queue \in [Ports -> Seq(Addresses)] /\ unread \in [Ports -> Int]
      /\ address \in [Ports -> Addresses]
      /\ input_queue[p] \in Seq(Addresses) /\ Len(input_queue[p]) \in Nat /\ unread[p] \in Int
      /\ Pending(n) \in Nat
  BY PendingType DEF TypeOK, ThreadsTypeOK, IOPortTypeOK, HistoryTypeOK, InputType
<1>u. Unsent(p) \in {0, 1}
  BY DEF Unsent
<1>s. ASSUME NEW m \in SystemInterrupts, Send(m)
      PROVE  Pending(n)' = Pending(n) + IF m = n THEN 1 ELSE 0
  BY <1>s, SendCounts
<1>1. CASE Quiet /\ Pending(n)' = Pending(n)
  <2>1. UNCHANGED <<input_queue, unread>> /\ Unsent(p)' = Unsent(p)
    BY <1>1 DEF Quiet, history, Elsewhere, Unsent
  <2> QED
    BY <1>1, <2>1 DEF InputCounted
<1>2. CASE UNCHANGED interrupt_queue /\ Quiet
  BY <1>1, <1>2 DEF Pending
<1>3. ASSUME NEW q \in Ports, Send(DeviceStatusChanged(q)), Quiet
      PROVE  InputCounted(p)'
  <2>1. Pending(n)' = Pending(n)
    BY <1>t, <1>s, <1>3, Interrupts, InterruptsDiffer
  <2> QED
    BY <1>1, <1>3, <2>1
<1>4. ASSUME NEW q \in Ports, ReceiveData(q), registered[q]
      PROVE  InputCounted(p)'
  <2>1. /\ input_queue' = [input_queue EXCEPT ![q] = Append(@, address[q])]
        /\ input.pc = "body" /\ input'.pc = "ioport_in" /\ input'.port = q
        /\ Pending(n)' = Pending(n) /\ unread' = unread
    BY <1>4, <1>t DEF ReceiveData, InputOnly, history, Pending, InputType
  <2>2. Unsent(p) = 0 /\ Unsent(p)' = IF q = p THEN 1 ELSE 0
    BY <2>1 DEF Unsent
  <2>3. Len(input_queue'[p]) = Len(input_queue[p]) + IF q = p THEN 1 ELSE 0
    <3>1. CASE q = p
      BY <1>t, <2>1, <3>1
    <3>2. CASE q # p
      BY <1>t, <2>1, <3>2
    <3> QED
      BY <3>1, <3>2
  <2> QED
    BY <1>t, <2>1, <2>2, <2>3 DEF InputCounted
<1>5. CASE SendIOPortIn
  <2>1. /\ Send(IOPortIn(input.port)) /\ input.pc = "ioport_in" /\ input'.pc = "loop"
        /\ UNCHANGED <<input_queue, unread>>
    BY <1>5 DEF SendIOPortIn, InputIdle, InputOnly, ports, history
  <2>2. Pending(n)' = Pending(n) + IF input.port = p THEN 1 ELSE 0
    BY <1>t, <1>s, <2>1, Interrupts, InterruptsDiffer
  <2>3. Unsent(p)' = 0 /\ Unsent(p) = IF input.port = p THEN 1 ELSE 0
    BY <2>1 DEF Unsent
  <2> QED
    BY <1>t, <2>1, <2>2, <2>3 DEF InputCounted
<1>6. CASE WriteRegistered
  <2>1. /\ UNCHANGED <<input_queue, unread, interrupt_queue>>
        /\ Unsent(p)' = 0 /\ Unsent(p) = 0
    BY <1>6, <1>t DEF WriteRegistered, InputGoto, InputOnly, history, Unsent, InputType
  <2> QED
    BY <2>1 DEF InputCounted, Pending
<1>7. CASE SendRegistered
  <2>1. /\ UNCHANGED <<input_queue, unread>> /\ Unsent(p)' = 0 /\ Unsent(p) = 0
        /\ (Send(DeviceRegistered) \/ Send(DeviceUnregistered))
    BY <1>7 DEF SendRegistered, InputIdle, InputOnly, ports, history, Unsent
  <2>2. Pending(n)' = Pending(n)
    BY <1>t, <1>s, <2>1, Interrupts, InterruptsDiffer
  <2> QED
    BY <2>1, <2>2 DEF InputCounted
<1>8. CASE TakeInterrupt
  <2>1. /\ UNCHANGED <<input_queue, input>> /\ Check
        /\ unread'[p] = IF Head(interrupt_queue) = n THEN unread[p] + 1 ELSE unread[p]
    BY <1>8 DEF TakeInterrupt, CpuOnly
  <2>2. Pending(n) = Pending(n)' + IF Head(interrupt_queue) = n THEN 1 ELSE 0
    BY <2>1, CheckCounts
  <2>3. Pending(n)' \in Nat
    <3>1. interrupt_queue \in Seq(SystemInterrupts)
      BY DEF TypeOK, SharedTypeOK
    <3>2. interrupt_queue' \in Seq(SystemInterrupts)
      BY <2>1, <3>1 DEF Check
    <3>3. Pending(n)' = Cardinality(Places(interrupt_queue', n))
      BY DEF Pending, Places
    <3> QED
      BY <3>2, <3>3, PlacesFinite
  <2>4. Unsent(p)' = Unsent(p)
    BY <2>1 DEF Unsent
  <2> QED
    BY <1>t, <1>u, <2>1, <2>2, <2>3, <2>4 DEF InputCounted
<1>9. ASSUME NEW q \in Ports, In(q)
      PROVE  InputCounted(p)'
  <2>1. /\ input_queue' = [input_queue EXCEPT ![q] = Tail(@)] /\ input_queue[q] # <<>>
        /\ unread' = [unread EXCEPT ![q] = @ - 1]
        /\ UNCHANGED <<interrupt_queue, input>>
    BY <1>9 DEF In, CpuOnly
  <2>2. Pending(n)' = Pending(n) /\ Unsent(p)' = Unsent(p)
    BY <2>1 DEF Pending, Unsent
  <2>3. CASE q = p
    <3>1. Len(input_queue'[p]) = Len(input_queue[p]) - 1 /\ unread'[p] = unread[p] - 1
      BY <1>t, <2>1, <2>3
    <3> QED
      BY <1>t, <1>u, <2>2, <3>1 DEF InputCounted
  <2>4. CASE q # p
    BY <1>t, <2>1, <2>2, <2>4 DEF InputCounted
  <2> QED
    BY <2>3, <2>4
<1> QED
  BY <1>2, <1>3, <1>4, <1>5, <1>6, <1>7, <1>8, <1>9, QuietSteps

\* Input and ioport_in interrupts match one to one, whatever the other two threads
\* and the program do meanwhile (_send_data_to_ioport, IOPort.read_input): IN, once
\* for each interrupt, never finds the queue empty and leaves nothing in it.
THEOREM DeviceControllerInputMatchesInterrupts == Spec => []InputMatchesInterrupts
<1> DEFINE Inv == \A p \in Ports : InputCounted(p)
<1>1. Init => Inv
  <2> SUFFICES ASSUME Init, NEW p \in Ports PROVE InputCounted(p)
    OBVIOUS
  <2>1. /\ input_queue[p] = <<>> /\ unread[p] = 0 /\ interrupt_queue = <<>> /\ input.pc = "loop"
    BY DEF Init, InterruptInit, InputIdle
  <2>2. Pending(IOPortIn(p)) = 0
    <3>1. Places(interrupt_queue, IOPortIn(p)) = {}
      BY <2>1 DEF Places
    <3> QED
      BY <3>1, PendingIs, FS_EmptySet
  <2> QED
    BY <2>1, <2>2 DEF InputCounted, Unsent
<1>2. TypeOK /\ Inv /\ [Next]_vars => Inv'
  BY InputCountedStep
<1>3. Inv => InputMatchesInterrupts
  BY DEF InputMatchesInterrupts, InputCounted, Unsent
<1> QED
  <2> HIDE DEF Inv
  <2> QED
    BY <1>1, <1>2, <1>3, DeviceControllerTypeOK, PTL DEF Spec

-----------------------------------------------------------------------------
(* Counting devices *)

Present == {p \in Ports : registered[p]}

\* The registration that is done and not announced yet.
Unannounced == IF input.pc # "announce" THEN 0 ELSE IF input.dev # NoDevice THEN 1 ELSE -1

DevicesCounted ==
  Cardinality(Present) =
      announced + Pending(DeviceRegistered) - Pending(DeviceUnregistered) + Unannounced

LEMMA PresentFinite ==
  IsFiniteSet(Present) /\ Cardinality(Present) \in Nat
<1>1. IsFiniteSet(Ports)
  BY DeviceControllerAssumption, FS_Interval DEF Ports
<1>2. IsFiniteSet(Present)
  BY <1>1, FS_Subset DEF Present
<1> QED
  BY <1>2, FS_CardinalityType

LEMMA DevicesCountedStep ==
  ASSUME TypeOK, \A p \in Ports : PortInv(p), [Next]_vars, DevicesCounted
  PROVE  DevicesCounted'
<1> DEFINE r == DeviceRegistered
           u == DeviceUnregistered
<1>t. /\ input \in InputType /\ input.port \in Ports /\ announced \in Int
      /\ registered \in [Ports -> BOOLEAN]
      /\ Pending(r) \in Nat /\ Pending(u) \in Nat /\ Cardinality(Present) \in Nat
  BY PendingType, PresentFinite DEF TypeOK, ThreadsTypeOK, IOPortTypeOK, HistoryTypeOK, InputType
<1>u. Unannounced \in Int
  BY DEF Unannounced
<1>s. ASSUME NEW m \in SystemInterrupts, Send(m)
      PROVE  /\ Pending(r)' = Pending(r) + IF m = r THEN 1 ELSE 0
             /\ Pending(u)' = Pending(u) + IF m = u THEN 1 ELSE 0
  BY <1>s, SendCounts
<1>1. ASSUME UNCHANGED <<registered, announced>>, Unannounced' = Unannounced,
             Pending(r)' = Pending(r), Pending(u)' = Pending(u)
      PROVE  DevicesCounted'
  BY <1>1 DEF DevicesCounted, Present
<1>2. ASSUME Quiet
      PROVE  UNCHANGED <<registered, announced>> /\ Unannounced' = Unannounced
  BY <1>2 DEF Quiet, history, Elsewhere, Unannounced
<1>3. CASE UNCHANGED interrupt_queue /\ Quiet
  BY <1>1, <1>2, <1>3 DEF Pending
<1>4. ASSUME NEW q \in Ports, Send(DeviceStatusChanged(q)), Quiet
      PROVE  DevicesCounted'
  <2>1. Pending(r)' = Pending(r) /\ Pending(u)' = Pending(u)
    BY <1>t, <1>s, <1>4, Interrupts, InterruptsDiffer
  <2> QED
    BY <1>1, <1>2, <1>4, <2>1
<1>5. ASSUME NEW q \in Ports, ReceiveData(q), registered[q]
      PROVE  DevicesCounted'
  <2>1. /\ UNCHANGED <<registered, announced, interrupt_queue>>
        /\ input.pc = "body" /\ input'.pc = "ioport_in"
    BY <1>5, <1>t DEF ReceiveData, InputOnly, history, InputType
  <2>2. Unannounced' = Unannounced
    BY <2>1 DEF Unannounced
  <2> QED
    BY <1>1, <2>1, <2>2 DEF Pending
<1>6. CASE SendIOPortIn
  <2>1. /\ UNCHANGED <<registered, announced>> /\ Send(IOPortIn(input.port))
        /\ input.pc = "ioport_in" /\ input'.pc = "loop"
    BY <1>6 DEF SendIOPortIn, InputIdle, InputOnly, ports, history
  <2>2. Pending(r)' = Pending(r) /\ Pending(u)' = Pending(u)
    BY <1>t, <1>s, <2>1, Interrupts, InterruptsDiffer
  <2>3. Unannounced' = Unannounced
    BY <2>1 DEF Unannounced
  <2> QED
    BY <1>1, <2>1, <2>2, <2>3
<1>7. CASE WriteRegistered
  <2>1. /\ UNCHANGED <<announced, interrupt_queue>> /\ input.pc = "flag"
        /\ registered' = [registered EXCEPT ![input.port] = input.dev # NoDevice]
        /\ input'.pc = "announce" /\ input'.dev = input.dev
    BY <1>7, <1>t DEF WriteRegistered, InputGoto, InputOnly, history, InputType
  <2>2. registered[input.port] <=> input.dev = NoDevice
    BY <1>t, <2>1 DEF PortInv
  <2>3. Unannounced = 0 /\ Unannounced' = IF input.dev # NoDevice THEN 1 ELSE -1
    BY <2>1 DEF Unannounced
  <2>4. Cardinality(Present') = Cardinality(Present) + IF input.dev # NoDevice THEN 1 ELSE -1
    <3>1. CASE input.dev # NoDevice
      <4>1. Present' = Present \union {input.port} /\ input.port \notin Present
        BY <1>t, <2>1, <2>2, <3>1 DEF Present
      <4> QED
        BY <3>1, <4>1, PresentFinite, FS_AddElement
    <3>2. CASE input.dev = NoDevice
      <4>1. Present' = Present \ {input.port} /\ input.port \in Present
        BY <1>t, <2>1, <2>2, <3>2 DEF Present
      <4>2. Cardinality(Present \ {input.port}) = Cardinality(Present) - 1
        BY <4>1, PresentFinite, FS_RemoveElement
      <4> QED
        BY <1>t, <3>2, <4>1, <4>2
    <3> QED
      BY <3>1, <3>2
  <2>5. Pending(r)' = Pending(r) /\ Pending(u)' = Pending(u)
    BY <2>1 DEF Pending
  <2> QED
    BY <1>t, <2>1, <2>3, <2>4, <2>5 DEF DevicesCounted
<1>8. CASE SendRegistered
  <2>1. /\ UNCHANGED <<registered, announced>> /\ input.pc = "announce" /\ input'.pc = "loop"
        /\ Send(IF input.dev # NoDevice THEN r ELSE u)
    BY <1>8 DEF SendRegistered, InputIdle, InputOnly, ports, history
  <2>2. Unannounced' = 0 /\ Present' = Present
    BY <2>1 DEF Unannounced, Present
  <2>3. CASE input.dev # NoDevice
    <3>1. Pending(r)' = Pending(r) + 1 /\ Pending(u)' = Pending(u) /\ Unannounced = 1
      BY <1>t, <1>s, <2>1, <2>3, Interrupts, InterruptsDiffer DEF Unannounced
    <3> QED
      BY <1>t, <2>1, <2>2, <3>1 DEF DevicesCounted
  <2>4. CASE input.dev = NoDevice
    <3>1. Pending(u)' = Pending(u) + 1 /\ Pending(r)' = Pending(r) /\ Unannounced = -1
      BY <1>t, <1>s, <2>1, <2>4, Interrupts, InterruptsDiffer DEF Unannounced
    <3> QED
      BY <1>t, <2>1, <2>2, <3>1 DEF DevicesCounted
  <2> QED
    BY <2>3, <2>4
<1>9. CASE TakeInterrupt
  <2>1. /\ UNCHANGED <<registered, input>> /\ Check
        /\ announced' = CASE Head(interrupt_queue) = r -> announced + 1
                          [] Head(interrupt_queue) = u -> announced - 1
                          [] OTHER -> announced
    BY <1>9 DEF TakeInterrupt, CpuOnly
  <2>2. /\ Pending(r) = Pending(r)' + IF Head(interrupt_queue) = r THEN 1 ELSE 0
        /\ Pending(u) = Pending(u)' + IF Head(interrupt_queue) = u THEN 1 ELSE 0
    BY <2>1, CheckCounts
  <2>3. Pending(r)' \in Nat /\ Pending(u)' \in Nat
    <3>1. interrupt_queue \in Seq(SystemInterrupts)
      BY DEF TypeOK, SharedTypeOK
    <3>2. interrupt_queue' \in Seq(SystemInterrupts)
      BY <2>1, <3>1 DEF Check
    <3>3. /\ Pending(r)' = Cardinality(Places(interrupt_queue', r))
          /\ Pending(u)' = Cardinality(Places(interrupt_queue', u))
      BY DEF Pending, Places
    <3> QED
      BY <3>2, <3>3, PlacesFinite
  <2>4. Unannounced' = Unannounced /\ Present' = Present
    BY <2>1 DEF Unannounced, Present
  <2>5. r # u
    BY DEF DeviceRegistered, DeviceUnregistered
  <2> HIDE DEF r, u
  <2>6. CASE Head(interrupt_queue) = r
    BY <1>t, <1>u, <2>1, <2>2, <2>3, <2>4, <2>5, <2>6 DEF DevicesCounted, r, u
  <2>7. CASE Head(interrupt_queue) = u
    BY <1>t, <1>u, <2>1, <2>2, <2>3, <2>4, <2>5, <2>7 DEF DevicesCounted, r, u
  <2>8. CASE Head(interrupt_queue) \notin {r, u}
    BY <1>t, <1>u, <2>1, <2>2, <2>3, <2>4, <2>5, <2>8 DEF DevicesCounted, r, u
  <2> QED
    BY <2>6, <2>7, <2>8
<1>10. ASSUME NEW q \in Ports, In(q)
       PROVE  DevicesCounted'
  <2>1. UNCHANGED <<registered, announced, interrupt_queue, input>>
    BY <1>10 DEF In, CpuOnly
  <2> QED
    BY <1>1, <2>1 DEF Pending, Unannounced
<1> QED
  BY <1>3, <1>4, <1>5, <1>6, <1>7, <1>8, <1>9, <1>10, QuietSteps

\* A program that counts the devices by their interrupts is right as soon as it has
\* taken those that are pending or about to be sent (_register_device,
\* _unregister_device): no registration goes unannounced or is announced twice.
THEOREM DeviceControllerRegistrationsAnnounced == Spec => []RegistrationsAnnounced
<1> DEFINE Inv == \A p \in Ports : PortInv(p)
<1>1. Init => Inv
  BY PortInductive
<1>2. TypeOK /\ Inv /\ [Next]_vars => Inv'
  BY PortInductive
<1>3. Init => DevicesCounted
  <2> SUFFICES ASSUME Init PROVE DevicesCounted
    OBVIOUS
  <2>1. /\ interrupt_queue = <<>> /\ announced = 0 /\ input.pc = "loop"
        /\ Present = {}
    BY DEF Init, InterruptInit, InputIdle, Present
  <2>2. \A n : Places(interrupt_queue, n) = {}
    BY <2>1 DEF Places
  <2>3. Pending(DeviceRegistered) = 0 /\ Pending(DeviceUnregistered) = 0
    BY <2>2, PendingIs, FS_EmptySet
  <2> QED
    BY <2>1, <2>3, FS_EmptySet DEF DevicesCounted, Unannounced
<1>4. TypeOK /\ Inv /\ DevicesCounted /\ [Next]_vars => DevicesCounted'
  BY DevicesCountedStep
<1>5. DevicesCounted => RegistrationsAnnounced
  BY DEF DevicesCounted, RegistrationsAnnounced, Present, Unannounced
<1> QED
  <2> HIDE DEF Inv
  <2> QED
    BY <1>1, <1>2, <1>3, <1>4, <1>5, DeviceControllerTypeOK, PTL DEF Spec
=============================================================================

--------------------------- MODULE DeviceController ---------------------------
(***************************************************************************)
(* hardware/device_controller: the Device Controller with its IOPorts, the *)
(* three threads it runs and the CPU thread that uses it:                  *)
(*   - the input thread, a single-threaded HTTP server, handles one request*)
(*     at a time (register, unregister, data);                             *)
(*   - the ping thread asks every registered device whether it is there;   *)
(*   - the output thread sends the queued data to the devices;             *)
(*   - the CPU takes interrupts, executes IN and OUT, and at the end stops *)
(*     the controller.                                                     *)
(* There is no lock: what a thread does to a field another thread uses is  *)
(* a step of its own.  Host and port of a device are one address: reading  *)
(* them while one of them is None is reading NoAddress.                    *)
(***************************************************************************)
EXTENDS InterruptController, Integers, FiniteSets

CONSTANTS
    NumberOfIOPorts,
    Devices,            \* what a device registers with: type, id and address
    NoDevice,           \* zeros in the registry; no address
    MaxStatus,          \* 255 in the code
    MaxPending,         \* BOUND: interrupts pending when more work is begun
    MaxInput,           \* BOUND: items in an input queue when more are accepted
    MaxOutput           \* BOUND: items in the output queue when OUT is executed

Ports == 0 .. NumberOfIOPorts - 1

\* config.system_interrupts
DeviceRegistered == 30
DeviceUnregistered == 31
IOPortIn(p) == 32 + p
DeviceStatusChanged(p) == 48 + p
SystemInterrupts == {DeviceRegistered, DeviceUnregistered}
    \union {IOPortIn(p) : p \in Ports} \union {DeviceStatusChanged(p) : p \in Ports}

ASSUME DeviceControllerAssumption ==
    /\ NumberOfIOPorts \in 1..16
    /\ NoDevice \notin Devices
    /\ MaxStatus \in Nat \ {0}
    /\ MaxPending \in Nat /\ MaxInput \in Nat /\ MaxOutput \in Nat

VARIABLES
    registered, address, input_queue,   \* the fields of each IOPort
    device_registry,    \* the device whose type and id the registry holds
    device_status_table,
    output_queue,
    shutdown_request,   \* of the HTTP server
    stop_event,
    input,      \* the input thread: where it is and the request it handles
    ping,       \* the ping thread: where it is, port, address and new status
    output,     \* the output thread: where it is and the item it sends
    cpu,        \* the CPU thread: where it is and the port of OUT
    unread,     \* history: ioport_in interrupts taken minus items read by IN
    announced   \* history: devices registered, according to the interrupts taken

ports    == <<registered, address, input_queue>>
tables   == <<device_registry, device_status_table>>
stopping == <<shutdown_request, stop_event>>
history  == <<unread, announced>>
vars == <<interrupt_queue, ports, tables, output_queue, stopping,
          input, ping, output, cpu, history>>

InputIdle  == [pc |-> "loop", port |-> 0, dev |-> NoDevice, changed |-> FALSE]
PingAt(pc, p) == [pc |-> pc, port |-> p, addr |-> NoDevice, status |-> 0, changed |-> FALSE]
OutputIdle == [pc |-> "get", addr |-> NoDevice]

Init ==
    /\ InterruptInit
    /\ registered = [p \in Ports |-> FALSE]
    /\ address = [p \in Ports |-> NoDevice]
    /\ input_queue = [p \in Ports |-> <<>>]
    /\ device_registry = [p \in Ports |-> NoDevice]
    /\ device_status_table = [p \in Ports |-> 0]
    /\ output_queue = <<>>
    /\ shutdown_request = FALSE /\ stop_event = FALSE
    /\ input = InputIdle
    /\ ping = PingAt("registered", 0)
    /\ output = OutputIdle
    /\ cpu = [pc |-> "run", port |-> 0]
    /\ unread = [p \in Ports |-> 0]
    /\ announced = 0

\* BOUND: a request is accepted only when few interrupts are pending; a ping,
\* also when a request has just added its two.
RequestRoom == Len(interrupt_queue) <= MaxPending
PingRoom == Len(interrupt_queue) <= MaxPending + 2

-----------------------------------------------------------------------------
(* The input thread: serve_forever, _handle_incoming_request, _handle_input *)

InputOnly == UNCHANGED <<output_queue, stopping, ping, output, cpu, history>>
InputGoto(pc) == input' = [input EXCEPT !.pc = pc]

\* serve_forever looks at shutdown_request, then waits for a request.
ServeLoop ==
    /\ input.pc = "loop"
    /\ InputGoto(IF shutdown_request THEN "done" ELSE "select")
    /\ InputOnly /\ UNCHANGED <<interrupt_queue, ports, tables>>

\* No request within the poll interval.
NoRequest ==
    /\ input.pc = "select"
    /\ InputGoto("loop")
    /\ InputOnly /\ UNCHANGED <<interrupt_queue, ports, tables>>

\* Somebody has connected; rfile.read(request_body_length) waits for the body.
RequestArrives ==
    /\ input.pc = "select"
    /\ InputGoto("body")
    /\ InputOnly /\ UNCHANGED <<interrupt_queue, ports, tables>>

\* A request that is answered without any change: a ping, a malformed request,
\* too much data.
NothingToDo ==
    /\ input.pc = "body"
    /\ InputGoto("loop")
    /\ InputOnly /\ UNCHANGED <<interrupt_queue, ports, tables>>

\* Faulty variants of Register: data of the last device left in the queue; a
\* second device accepted.
RegisterStaleInput(p, dev) ==
    /\ input.pc = "body" /\ RequestRoom
    /\ IF registered[p]
       THEN InputGoto("loop")
       ELSE input' = [pc |-> "register", port |-> p, dev |-> dev, changed |-> FALSE]
    /\ InputOnly /\ UNCHANGED <<interrupt_queue, ports, tables>>

RegisterTwice(p, dev) ==
    /\ input.pc = "body" /\ RequestRoom
    /\ IF input_queue[p] # <<>>
       THEN InputGoto("loop")
       ELSE input' = [pc |-> "register", port |-> p, dev |-> dev, changed |-> FALSE]
    /\ InputOnly /\ UNCHANGED <<interrupt_queue, ports, tables>>

\* _register_device up to the point where the request is accepted; 403 when a
\* device is registered or the input queue still holds data of the last one.
Register(p, dev) ==
    /\ input.pc = "body" /\ RequestRoom
    /\ IF registered[p] \/ input_queue[p] # <<>>
       THEN InputGoto("loop")
       ELSE input' = [pc |-> "register", port |-> p, dev |-> dev, changed |-> FALSE]
    /\ InputOnly /\ UNCHANGED <<interrupt_queue, ports, tables>>

\* Faulty variant of Unregister: it does not look whether there is a device.
UnregisterTwice(p) ==
    /\ input.pc = "body" /\ RequestRoom
    /\ input' = [pc |-> "unregister", port |-> p, dev |-> NoDevice, changed |-> FALSE]
    /\ InputOnly /\ UNCHANGED <<interrupt_queue, ports, tables>>

\* _unregister_device: the same, 403 when no device is registered.
Unregister(p) ==
    /\ input.pc = "body" /\ RequestRoom
    /\ IF registered[p]
       THEN input' = [pc |-> "unregister", port |-> p, dev |-> NoDevice, changed |-> FALSE]
       ELSE InputGoto("loop")
    /\ InputOnly /\ UNCHANGED <<interrupt_queue, ports, tables>>

\* Faulty variant of ReceiveData: no interrupt while there is still data to read.
ReceiveDataCoalesced(p) ==
    /\ input.pc = "body" /\ RequestRoom
    /\ registered[p] /\ Len(input_queue[p]) < MaxInput
    /\ input_queue' = [input_queue EXCEPT ![p] = Append(@, address[p])]
    /\ input' = IF input_queue[p] = <<>> THEN [input EXCEPT !.pc = "ioport_in", !.port = p]
                                         ELSE InputIdle
    /\ InputOnly /\ UNCHANGED <<interrupt_queue, registered, address, tables>>

\* _send_data_to_ioport: 403 when no device is registered, else the data is put
\* into the queue of the IOPort, and then announced.  The request does not say who
\* it comes from: data is taken from anybody, as that of the device registered.
ReceiveData(p) ==
    /\ input.pc = "body" /\ RequestRoom
    /\ \/ /\ ~registered[p]
          /\ InputGoto("loop")
          /\ UNCHANGED input_queue
       \/ /\ registered[p]
          /\ Len(input_queue[p]) < MaxInput
          /\ input_queue' = [input_queue EXCEPT ![p] = Append(@, address[p])]
          /\ input' = [input EXCEPT !.pc = "ioport_in", !.port = p]
    /\ InputOnly /\ UNCHANGED <<interrupt_queue, registered, address, tables>>

SendIOPortIn ==
    /\ input.pc = "ioport_in"
    /\ Send(IOPortIn(input.port))
    /\ input' = InputIdle
    /\ InputOnly /\ UNCHANGED <<ports, tables>>

\* Faulty variant of WriteRegistry: the registry is not cleared.
WriteRegistryKept ==
    /\ input.pc \in {"register", "unregister"}
    /\ device_registry' = IF input.dev = NoDevice THEN device_registry
                          ELSE [device_registry EXCEPT ![input.port] = input.dev]
    /\ InputGoto("compare")
    /\ InputOnly /\ UNCHANGED <<interrupt_queue, ports, device_status_table>>

WriteRegistry ==
    /\ input.pc \in {"register", "unregister"}
    /\ device_registry' = [device_registry EXCEPT ![input.port] = input.dev]
    /\ InputGoto("compare")
    /\ InputOnly /\ UNCHANGED <<interrupt_queue, ports, device_status_table>>

\* _set_device_status(ioport_number, 0): compare, write, send if changed.
CompareStatus ==
    /\ input.pc = "compare"
    /\ input' = [input EXCEPT !.pc = "write",
                              !.changed = device_status_table[input.port] # 0]
    /\ InputOnly /\ UNCHANGED <<interrupt_queue, ports, tables>>

ResetStatus ==
    /\ input.pc = "write"
    /\ device_status_table' = [device_status_table EXCEPT ![input.port] = 0]
    /\ InputGoto(IF input.changed THEN "status" ELSE "address")
    /\ InputOnly /\ UNCHANGED <<interrupt_queue, ports, device_registry>>

SendStatusChanged ==
    /\ input.pc = "status"
    /\ Send(DeviceStatusChanged(input.port))
    /\ InputGoto("address")
    /\ InputOnly /\ UNCHANGED <<ports, tables>>

\* IOPort.register_device and unregister_device: the address first, then the flag.
WriteAddress ==
    /\ input.pc = "address"
    /\ address' = [address EXCEPT ![input.port] = input.dev]
    /\ InputGoto("flag")
    /\ InputOnly /\ UNCHANGED <<interrupt_queue, registered, input_queue, tables>>

WriteRegistered ==
    /\ input.pc = "flag"
    /\ registered' = [registered EXCEPT ![input.port] = input.dev # NoDevice]
    /\ InputGoto("announce")
    /\ InputOnly /\ UNCHANGED <<interrupt_queue, address, input_queue, tables>>

SendRegistered ==
    /\ input.pc = "announce"
    /\ Send(IF input.dev # NoDevice THEN DeviceRegistered ELSE DeviceUnregistered)
    /\ input' = InputIdle
    /\ InputOnly /\ UNCHANGED <<ports, tables>>

\* What devices, and others, do: a request, and its body.
Request == \/ RequestArrives \/ NothingToDo
           \/ \E p \in Ports : \/ \E dev \in Devices : Register(p, dev)
                               \/ Unregister(p)
                               \/ ReceiveData(p)

\* What the thread does of itself.
Handle == \/ ServeLoop \/ NoRequest \/ SendIOPortIn \/ WriteRegistry
          \/ CompareStatus \/ ResetStatus \/ SendStatusChanged
          \/ WriteAddress \/ WriteRegistered \/ SendRegistered

InputStep == Request \/ Handle

-----------------------------------------------------------------------------
(* The ping thread: _ping_thread_run, _check_and_update_device_status      *)

PingOnly == UNCHANGED <<ports, device_registry, output_queue, stopping,
                        input, output, cpu, history>>
PingReads == PingOnly /\ UNCHANGED <<interrupt_queue, device_status_table>>

NextPort == ping' = IF ping.port + 1 \in Ports THEN PingAt("registered", ping.port + 1)
                                               ELSE PingAt("wait", 0)

\* Faulty variant of CheckRegistered: a device that never answers is given up.
CheckRegisteredGivesUp ==
    /\ ping.pc = "registered"
    /\ PingRoom \/ stop_event
    /\ IF registered[ping.port] /\ device_status_table[ping.port] < MaxStatus
       THEN ping' = [ping EXCEPT !.pc = "address"] ELSE NextPort
    /\ PingReads

CheckRegistered ==
    /\ ping.pc = "registered"
    /\ PingRoom \/ stop_event
    /\ IF registered[ping.port] THEN ping' = [ping EXCEPT !.pc = "address"] ELSE NextPort
    /\ PingReads

\* The URL of the request.
ReadAddress ==
    /\ ping.pc = "address"
    /\ ping' = [ping EXCEPT !.pc = "request", !.addr = address[ping.port]]
    /\ PingReads

\* The device answers, or it does not: no connection, or not with 200.
Pong ==
    /\ ping.pc = "request" /\ ping.addr # NoDevice
    /\ ping' = [ping EXCEPT !.pc = "compare", !.status = 0]
    /\ PingReads

NoPong ==
    /\ ping.pc = "request"
    /\ ping' = [ping EXCEPT !.pc = "read"]
    /\ PingReads

\* Whatever else requests raises is neither a ConnectionError nor an
\* AldebaranError, and the thread dies: InvalidURL for the port "None" of a device
\* that has unregistered since, or for a host or port that is none (registrations
\* are not checked for that); an answer that breaks off.
PingFails ==
    /\ ping.pc = "request"
    /\ ping' = [ping EXCEPT !.pc = "crashed"]
    /\ PingReads

ReadStatus ==
    /\ ping.pc = "read"
    /\ ping' = [ping EXCEPT !.pc = "compare",
                            !.status = device_status_table[ping.port] + 1]
    /\ PingReads

\* Faulty variant of PingCompareStatus: the status is not clamped.
PingCompareStatusUnclamped ==
    /\ ping.pc = "compare"
    /\ ping' = [ping EXCEPT !.pc = "write",
                            !.changed = ping.status # device_status_table[ping.port]]
    /\ PingReads

\* _set_device_status(ioport_number, new_status): clamp and compare, write, send.
PingCompareStatus ==
    /\ ping.pc = "compare"
    /\ LET status == IF ping.status > MaxStatus THEN MaxStatus ELSE ping.status
       IN  ping' = [ping EXCEPT !.pc = "write", !.status = status,
                                !.changed = status # device_status_table[ping.port]]
    /\ PingReads

PingWriteStatus ==
    /\ ping.pc = "write"
    /\ device_status_table' = [device_status_table EXCEPT ![ping.port] = ping.status]
    /\ IF ping.changed THEN ping' = [ping EXCEPT !.pc = "status"] ELSE NextPort
    /\ PingOnly /\ UNCHANGED interrupt_queue

PingSendStatusChanged ==
    /\ ping.pc = "status"
    /\ Send(DeviceStatusChanged(ping.port))
    /\ NextPort
    /\ PingOnly /\ UNCHANGED device_status_table

\* Faulty variant of PingWait: the thread sleeps without looking at the event.
PingWaitSleeps ==
    /\ ping.pc = "wait"
    /\ ping' = PingAt("registered", 0)
    /\ PingReads

\* stop_event.wait(ping_period)
PingWait ==
    /\ ping.pc = "wait"
    /\ ping' = PingAt(IF stop_event THEN "done" ELSE "registered", 0)
    /\ PingReads

PingStep == \/ CheckRegistered \/ ReadAddress \/ ReadStatus \/ PingCompareStatus
            \/ PingWriteStatus \/ PingSendStatusChanged \/ PingWait

\* requests.post returns, or raises; it has no timeout.
PingEnds == Pong \/ NoPong \/ PingFails

-----------------------------------------------------------------------------
(* The output thread: _output_thread_run *)

OutputOnly == UNCHANGED <<interrupt_queue, ports, tables, stopping,
                          input, ping, cpu, history>>

GetOutput ==
    /\ output.pc = "get" /\ output_queue # <<>>
    /\ output_queue' = Tail(output_queue)
    /\ output' = [pc |-> "request", addr |-> Head(output_queue)]
    /\ OutputOnly

\* queue.Empty after the timeout; only then is stop_event looked at.
OutputEmpty ==
    /\ output.pc = "get" /\ output_queue = <<>>
    /\ output' = [output EXCEPT !.pc = "empty"]
    /\ OutputOnly /\ UNCHANGED output_queue

OutputStopCheck ==
    /\ output.pc = "empty"
    /\ output' = [output EXCEPT !.pc = IF stop_event THEN "done" ELSE "get"]
    /\ OutputOnly /\ UNCHANGED output_queue

DataSent ==
    /\ output.pc = "request" /\ output.addr # NoDevice
    /\ output' = OutputIdle
    /\ OutputOnly /\ UNCHANGED output_queue

\* No connection, a status other than 200, no valid address: any exception ends
\* the thread.
DataFailed ==
    /\ output.pc = "request"
    /\ output' = [OutputIdle EXCEPT !.pc = "crashed"]
    /\ OutputOnly /\ UNCHANGED output_queue

OutputStep == GetOutput \/ OutputEmpty \/ OutputStopCheck

OutputEnds == DataSent \/ DataFailed

-----------------------------------------------------------------------------
(* The CPU thread *)

CpuOnly == UNCHANGED <<registered, address, tables, input, ping, output>>
CpuGoto(pc) == cpu' = [cpu EXCEPT !.pc = pc]

\* CPU.step finds an interrupt while the interrupt flag is set.
TakeInterrupt ==
    /\ cpu.pc = "run"
    /\ Check
    /\ LET n == Head(interrupt_queue)
       IN  /\ unread' = [p \in Ports |-> IF n = IOPortIn(p) THEN unread[p] + 1 ELSE unread[p]]
           /\ announced' = CASE n = DeviceRegistered -> announced + 1
                             [] n = DeviceUnregistered -> announced - 1
                             [] OTHER -> announced
    /\ CpuOnly /\ UNCHANGED <<cpu, input_queue, output_queue, stopping>>

\* IN: IOPort.read_input. When the queue is empty it returns no data: no step.
\* An item of the queue is the device that was registered when it was accepted.
In(p) ==
    /\ cpu.pc = "run" /\ input_queue[p] # <<>>
    /\ input_queue' = [input_queue EXCEPT ![p] = Tail(@)]
    /\ unread' = [unread EXCEPT ![p] = @ - 1]
    /\ CpuOnly /\ UNCHANGED <<cpu, interrupt_queue, output_queue, stopping, announced>>

\* OUT: IOPort.send_data does nothing unless a device is registered: no step.
OutCheck(p) ==
    /\ cpu.pc = "run" /\ registered[p]
    /\ Len(output_queue) < MaxOutput
    /\ cpu' = [pc |-> "out", port |-> p]
    /\ CpuOnly /\ UNCHANGED <<interrupt_queue, input_queue, output_queue, stopping, history>>

OutPut ==
    /\ cpu.pc = "out"
    /\ output_queue' = Append(output_queue, address[cpu.port])
    /\ cpu' = [pc |-> "run", port |-> 0]
    /\ CpuOnly /\ UNCHANGED <<interrupt_queue, input_queue, stopping, history>>

\* SHUTDOWN, or an error that ends Clock.run (IN and OUT of a port that does not
\* exist raise IndexError); then DeviceController.stop.
Shutdown ==
    /\ cpu.pc = "run"
    /\ CpuGoto("server") /\ shutdown_request' = TRUE
    /\ CpuOnly /\ UNCHANGED <<interrupt_queue, input_queue, output_queue, stop_event, history>>

JoinInput ==
    /\ cpu.pc = "server" /\ input.pc = "done"
    /\ CpuGoto("join") /\ stop_event' = TRUE
    /\ CpuOnly /\ UNCHANGED <<interrupt_queue, input_queue, output_queue,
                              shutdown_request, history>>

JoinOutputAndPing ==
    /\ cpu.pc = "join"
    /\ output.pc \in {"done", "crashed"} /\ ping.pc \in {"done", "crashed"}
    /\ CpuGoto("stopped")
    /\ CpuOnly /\ UNCHANGED <<interrupt_queue, input_queue, output_queue, stopping, history>>

CpuProgram == \/ TakeInterrupt \/ Shutdown
              \/ \E p \in Ports : In(p) \/ OutCheck(p)

CpuFinish == OutPut \/ JoinInput \/ JoinOutputAndPing

\* The machine is off and its threads have ended.
Stopped == cpu.pc = "stopped" /\ UNCHANGED vars

Next == \/ InputStep \/ PingStep \/ PingEnds \/ OutputStep \/ OutputEnds
        \/ CpuProgram \/ CpuFinish \/ Stopped

\* No thread is starved.  Nothing is assumed of the program or of the devices: a
\* device may keep a thread waiting for ever, with a request that it does not
\* answer or one that it does not finish.
Fairness == /\ WF_vars(Handle) /\ WF_vars(PingStep)
            /\ WF_vars(OutputStep) /\ WF_vars(CpuFinish)

Spec == Init /\ [][Next]_vars /\ Fairness

-----------------------------------------------------------------------------
(* Properties *)

InputPcs == {"loop", "select", "body", "register", "unregister", "ioport_in", "compare",
             "write", "status", "address", "flag", "announce", "done"}
PingPcs == {"registered", "address", "request", "read", "compare", "write", "status",
            "wait", "done", "crashed"}
OutputPcs == {"get", "request", "empty", "done", "crashed"}
CpuPcs == {"run", "out", "server", "join", "stopped"}
Addresses == Devices \union {NoDevice}

IOPortTypeOK ==
    /\ registered \in [Ports -> BOOLEAN]
    /\ address \in [Ports -> Addresses]
    /\ input_queue \in [Ports -> Seq(Addresses)]
    /\ device_registry \in [Ports -> Addresses]
    /\ device_status_table \in [Ports -> 0..MaxStatus]

SharedTypeOK ==
    /\ interrupt_queue \in Seq(SystemInterrupts)
    /\ output_queue \in Seq(Addresses)
    /\ shutdown_request \in BOOLEAN
    /\ stop_event \in BOOLEAN

ThreadsTypeOK ==
    /\ input \in [pc : InputPcs, port : Ports, dev : Addresses, changed : BOOLEAN]
    /\ ping \in [pc : PingPcs, port : Ports, addr : Addresses,
                 status : 0 .. MaxStatus + 1, changed : BOOLEAN]
    /\ ping.pc \in {"write", "status"} => ping.status <= MaxStatus
    /\ output \in [pc : OutputPcs, addr : Addresses]
    /\ cpu \in [pc : CpuPcs, port : Ports]

HistoryTypeOK ==
    /\ unread \in [Ports -> Int]
    /\ announced \in Int

\* Every variable has its type; in particular a status stays a byte and only
\* the interrupts of config.system_interrupts are sent.
TypeOK == IOPortTypeOK /\ SharedTypeOK /\ ThreadsTypeOK /\ HistoryTypeOK

\* The input thread is in the middle of registering or unregistering at p.
Changing(p) == input.port = p /\ input.pc \in {"compare", "write", "status", "address", "flag"}

\* The IOPort and the registry agree on the device whenever no registration or
\* unregistration is half done, and a registered IOPort is without an address
\* only in the last step of unregister_device.
PortConsistent ==
    \A p \in Ports :
        /\ ~Changing(p) => /\ device_registry[p] = address[p]
                           /\ registered[p] <=> address[p] # NoDevice
        /\ registered[p] /\ address[p] = NoDevice => input.pc = "flag" /\ input.port = p

\* What IN reads from an IOPort with a device was accepted while that device was
\* registered: nothing is left over from the one before it.  (Who sent it is not
\* asked by the code, so not said here; see DeviceSession.)
FreshInput ==
    \A p \in Ports : address[p] # NoDevice =>
        \A i \in DOMAIN input_queue[p] : input_queue[p][i] = address[p]

Pending(n) == Cardinality({i \in DOMAIN interrupt_queue : interrupt_queue[i] = n})

\* Input and ioport_in interrupts match one to one: a program that executes IN
\* once for each interrupt never finds the queue empty and leaves nothing in it.
InputMatchesInterrupts ==
    \A p \in Ports :
        Len(input_queue[p]) =
            unread[p] + Pending(IOPortIn(p))
            + IF input.pc = "ioport_in" /\ input.port = p THEN 1 ELSE 0

\* A program that counts the devices by their interrupts is right as soon as it
\* has taken those that are pending or about to be sent.
RegistrationsAnnounced ==
    Cardinality({p \in Ports : registered[p]}) =
        announced + Pending(DeviceRegistered) - Pending(DeviceUnregistered)
        + IF input.pc # "announce" THEN 0 ELSE IF input.dev # NoDevice THEN 1 ELSE -1

\* A device keeps its IOPort until it is unregistered: no request of another
\* device replaces it.
NoDisplacement ==
    [][\A p \in Ports : address[p] # NoDevice => address'[p] \in {address[p], NoDevice}]_vars

\* The threads together do to an IOPort what IOPortQueue promises: registering,
\* unregistering, accepting and reading happen as single steps, each only when
\* it may, and nothing else happens to it.
IOPorts == INSTANCE IOPortQueue WITH owner <- address, queue <- input_queue
ImplementsIOPort == IOPorts!Spec

\* No request is pending for ever: the devices answer, and finish what they send.
PingsEnd == []<>(ping.pc # "request")
OutputsEnd == []<>(output.pc # "request")
BodiesEnd == []<>(input.pc # "body")

\* DeviceController.stop returns, with all the threads ended, whichever thread has
\* died and whatever is still to be done: of the devices it needs only that none
\* keeps a request pending for ever (there are no timeouts).
StopEnds == (PingsEnd /\ OutputsEnd /\ BodiesEnd) => (cpu.pc = "server" ~> cpu.pc = "stopped")

\* A device that stays registered is pinged again and again, whatever its status,
\* its answers and the other IOPorts are, as long as the ping thread lives and no
\* device, at any IOPort, keeps a ping pending for ever (and the bound on the
\* interrupts leaves room).
PingsGoOn ==
    \A p \in Ports :
        /\ <>[](registered[p] /\ ping.pc # "crashed" /\ ~stop_event)
        /\ PingsEnd
        /\ []<>PingRoom
        => []<>(ping.pc = "request" /\ ping.port = p)

-----------------------------------------------------------------------------
(* What the documentation says and the code does not always do. *)

\* docs/overview.md: "pings all registered devices every second"; a device that
\* unregisters does not end that for the others.
PingThreadLives == ping.pc = "crashed" => ping.addr # NoDevice

\* docs/how-does-it-work.md: "Device Controller sends the data to the device":
\* an item in the output queue gets its turn, if those before it end.
OutputGetsItsTurn ==
    OutputsEnd => \A dev \in Devices :
        (\E i \in DOMAIN output_queue : output_queue[i] = dev)
            ~> (output.pc = "request" /\ output.addr = dev)
=============================================================================

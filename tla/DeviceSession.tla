---------------------------- MODULE DeviceSession ----------------------------
(***************************************************************************)
(* devices/device.py and run_device.py: the processes of devices that use  *)
(* one IOPort, against a machine that is switched off and on.  A device has*)
(* a main thread (register until it works, run, unregister, stop), an      *)
(* output thread that sends its data, and an HTTP server that answers the  *)
(* pings.  The requests of all of them wait in line for the single-threaded*)
(* server of the Device Controller, of which this module uses what it      *)
(* promises (IOPortQueue).  A process may be killed, a connection may break*)
(* before the answer is read, the user may press Ctrl-C.                   *)
(***************************************************************************)
EXTENDS Integers, Sequences

CONSTANTS
    Devices,      \* an address each: one process at a time
    Port,         \* the IOPort they are started with
    NoDevice,
    MaxRuns(_),   \* BOUND: processes started for a device
    MaxSent(_, _),\* BOUND: its calls of send_data in a run
    MaxDisturbances \* BOUND: machine switched off, process killed, link broken

ASSUME DeviceSessionAssumption ==
    /\ NoDevice \notin Devices
    /\ MaxDisturbances \in Nat
    /\ \A d \in Devices :
          MaxRuns(d) \in Nat /\ \A r \in 1 .. MaxRuns(d) : MaxSent(d, r) \in Nat

VARIABLES
    on,          \* the machine
    owner, queue,\* its IOPort
    backlog,     \* requests the machine has not handled, in the order of their connections
    main,        \* per device: where the main thread is, and the answer to its request
    out,         \* the same of the output thread
    output_queue, stop_event,
    listening,   \* the server accepts connections
    sent,        \* items given to send_data in this run
    run,         \* history: processes started so far
    registrations, \* history: how many it accepted
    known,       \* history: which of them was that of this run, or 0
    last,        \* history: run and number of the last data accepted
    fault,       \* history: since the machine is on, a request of the main thread
                 \* was left without its answer, or the process was killed
    disturbances \* how many there were

machine == <<on, owner, queue, registrations>>
process == <<main, out, output_queue, stop_event, listening, sent, run, known>>
vars == <<machine, backlog, process, last, fault, disturbances>>

IOPort == INSTANCE IOPortQueue WITH Ports <- {Port}

Threads == {"main", "out"}
At(pc) == [pc |-> pc, reply |-> "none"]

Init ==
    /\ on = TRUE /\ registrations = 0
    /\ IOPort!Init
    /\ backlog = <<>>
    /\ main = [d \in Devices |-> At("off")]
    /\ out = [d \in Devices |-> At("done")]
    /\ output_queue = [d \in Devices |-> <<>>]
    /\ stop_event = [d \in Devices |-> FALSE]
    /\ listening = [d \in Devices |-> FALSE]
    /\ sent = [d \in Devices |-> 0]
    /\ run = [d \in Devices |-> 0]
    /\ known = [d \in Devices |-> 0]
    /\ last = [d \in Devices |-> [run |-> 0, number |-> 0]]
    /\ fault = [d \in Devices |-> FALSE]
    /\ disturbances = 0

\* A process begins: the server listens and both threads run before it registers.
Start(d) ==
    /\ main[d].pc = "off" /\ run[d] < MaxRuns(d)
    /\ main' = [main EXCEPT ![d] = At("register")]
    /\ out' = [out EXCEPT ![d] = At("get")]
    /\ output_queue' = [output_queue EXCEPT ![d] = <<>>]
    /\ stop_event' = [stop_event EXCEPT ![d] = FALSE]
    /\ listening' = [listening EXCEPT ![d] = TRUE]
    /\ sent' = [sent EXCEPT ![d] = 0]
    /\ run' = [run EXCEPT ![d] = @ + 1]
    /\ known' = [known EXCEPT ![d] = 0]
    /\ UNCHANGED <<machine, backlog, last, fault, disturbances>>

-----------------------------------------------------------------------------
(* Requests and answers *)

\* requests.post connects and waits; a machine that is off refuses it.
Post(d, thread, command, number) ==
    backlog' = IF on THEN Append(backlog,
                   [command |-> command, dev |-> d, thread |-> thread, number |-> number,
                    wanted |-> TRUE, run |-> run[d], known |-> known[d]])
               ELSE backlog
Waiting(pc) == [pc |-> pc, reply |-> IF on THEN "none" ELSE "error"]

\* The sender no longer waits; its request is still there.
Unwanted(d, threads) ==
    [i \in DOMAIN backlog |->
        IF backlog[i].dev = d /\ backlog[i].thread \in threads
        THEN [backlog[i] EXCEPT !.wanted = FALSE] ELSE backlog[i]]

\* The answer of the machine, to the thread that waits for it.
Answer(r, reply) ==
    /\ main' = IF r.wanted /\ r.thread = "main"
               THEN [main EXCEPT ![r.dev].reply = reply] ELSE main
    /\ out' = IF r.wanted /\ r.thread = "out"
              THEN [out EXCEPT ![r.dev].reply = reply] ELSE out

ServeOnly == /\ backlog' = Tail(backlog)
             /\ UNCHANGED <<on, output_queue, stop_event, listening, sent, run,
                            fault, disturbances>>

\* The server of the Device Controller takes the next request. Only a
\* registration says who sends it.
ServeRegister ==
    /\ on /\ backlog # <<>> /\ Head(backlog).command = "register"
    /\ LET r == Head(backlog)
       IN  \/ /\ IOPort!Register(Port, r.dev)
              /\ Answer(r, "ok")
              /\ registrations' = registrations + 1
              /\ known' = [known EXCEPT ![r.dev] =
                             IF r.run = run[r.dev] THEN registrations' ELSE @]
           \/ /\ ~IOPort!Free(Port)
              /\ Answer(r, "forbidden")
              /\ UNCHANGED <<owner, queue, registrations, known>>
    /\ ServeOnly /\ UNCHANGED last

ServeUnregister ==
    /\ on /\ backlog # <<>> /\ Head(backlog).command = "unregister"
    /\ \/ IOPort!Unregister(Port) /\ Answer(Head(backlog), "ok")
       \/ /\ owner[Port] = NoDevice
          /\ Answer(Head(backlog), "forbidden")
          /\ UNCHANGED <<owner, queue>>
    /\ ServeOnly /\ UNCHANGED <<registrations, known, last>>

\* Data is refused when nobody is registered, or when it is too long.
ServeData ==
    /\ on /\ backlog # <<>> /\ Head(backlog).command = "data"
    /\ LET r == Head(backlog)
       IN  \/ /\ IOPort!Accept(Port, r.dev)
              /\ Answer(r, "ok")
              /\ last' = [last EXCEPT ![r.dev] = [run |-> r.run, number |-> r.number]]
           \/ Answer(r, "forbidden") /\ UNCHANGED <<owner, queue, last>>
    /\ ServeOnly /\ UNCHANGED <<registrations, known>>

Serve == ServeRegister \/ ServeUnregister \/ ServeData

-----------------------------------------------------------------------------
(* The main thread *)

MainGoto(d, pc) == main' = [main EXCEPT ![d] = At(pc)]
MainOnly == UNCHANGED <<machine, out, output_queue, stop_event, listening, sent, run, known,
                        last, disturbances>>

Register(d) ==
    /\ main[d].pc = "register"
    /\ Post(d, "main", "register", 0)
    /\ main' = [main EXCEPT ![d] = Waiting("registering")]
    /\ MainOnly /\ UNCHANGED fault

\* Faulty variants of Registered: the status of the response is not looked at; the
\* loop does not ask again.
RegisteredUnchecked(d) ==
    /\ main[d].pc = "registering" /\ main[d].reply # "none"
    /\ MainGoto(d, IF main[d].reply = "error" THEN "register" ELSE "running")
    /\ MainOnly /\ UNCHANGED <<backlog, fault>>

RegisteredAskedOnce(d) ==
    /\ main[d].pc = "registering" /\ main[d].reply \in {"ok", "error"}
    /\ MainGoto(d, IF main[d].reply = "ok" THEN "running" ELSE "register")
    /\ MainOnly /\ UNCHANGED <<backlog, fault>>

\* _register: after any failure it sleeps a second and tries again.
Registered(d) ==
    /\ main[d].pc = "registering" /\ main[d].reply # "none"
    /\ MainGoto(d, IF main[d].reply = "ok" THEN "running" ELSE "register")
    /\ MainOnly /\ UNCHANGED <<backlog, fault>>

\* Faulty variant of InterruptRegistering: it unregisters, as after a run.
InterruptUnregisters(d) ==
    /\ main[d].pc = "register"
    /\ Post(d, "main", "unregister", 0)
    /\ main' = [main EXCEPT ![d] = Waiting("unregistering")]
    /\ MainOnly /\ UNCHANGED fault

\* Ctrl-C before it is registered: it stops. A request on its way is not undone.
InterruptRegistering(d) ==
    /\ main[d].pc \in {"register", "registering"}
    /\ MainGoto(d, "stop")
    /\ backlog' = Unwanted(d, {"main"})
    /\ fault' = [fault EXCEPT ![d] = @ \/ main[d].pc = "registering"]
    /\ MainOnly

\* run of the device gives an item to send_data.
SendData(d) ==
    /\ main[d].pc = "running" /\ sent[d] < MaxSent(d, run[d])
    /\ sent' = [sent EXCEPT ![d] = @ + 1]
    /\ output_queue' = [output_queue EXCEPT ![d] = Append(@, sent[d] + 1)]
    /\ UNCHANGED <<machine, backlog, main, out, stop_event, listening, run, known, last,
                   fault, disturbances>>

\* Faulty variant of RunEnds: the server is closed first.
RunEndsClosed(d) ==
    /\ main[d].pc = "running"
    /\ Post(d, "main", "unregister", 0)
    /\ main' = [main EXCEPT ![d] = Waiting("unregistering")]
    /\ listening' = [listening EXCEPT ![d] = FALSE]
    /\ UNCHANGED <<machine, out, output_queue, stop_event, sent, run, known, last,
                   fault, disturbances>>

\* run returns, or is left by an exception or Ctrl-C: it unregisters.
RunEnds(d) ==
    /\ main[d].pc = "running"
    /\ Post(d, "main", "unregister", 0)
    /\ main' = [main EXCEPT ![d] = Waiting("unregistering")]
    /\ MainOnly /\ UNCHANGED fault

\* Whatever the answer: an error is logged.
Unregistered(d) ==
    /\ main[d].pc = "unregistering" /\ main[d].reply # "none"
    /\ MainGoto(d, "stop")
    /\ MainOnly /\ UNCHANGED <<backlog, fault>>

\* Device.stop: end the server and its thread, then set the event, then join.
Stop(d) ==
    /\ main[d].pc = "stop"
    /\ MainGoto(d, "join")
    /\ listening' = [listening EXCEPT ![d] = FALSE]
    /\ stop_event' = [stop_event EXCEPT ![d] = TRUE]
    /\ UNCHANGED <<machine, backlog, out, output_queue, sent, run, known, last,
                   fault, disturbances>>

JoinOutput(d) ==
    /\ main[d].pc = "join" /\ out[d].pc \in {"done", "crashed"}
    /\ MainGoto(d, "off")
    /\ MainOnly /\ UNCHANGED <<backlog, fault>>

\* What the thread does of itself; Ctrl-C, data and the end of run come from outside.
MainStep(d) == \/ Register(d) \/ Registered(d) \/ Unregistered(d)
               \/ Stop(d) \/ JoinOutput(d)

User(d) == Start(d) \/ InterruptRegistering(d) \/ SendData(d) \/ RunEnds(d)

-----------------------------------------------------------------------------
(* The output thread: _output_thread_run *)

OutOnly == UNCHANGED <<machine, main, stop_event, listening, sent, run, known, last,
                       fault, disturbances>>

Send(d) ==
    /\ out[d].pc = "get" /\ output_queue[d] # <<>>
    /\ Post(d, "out", "data", Head(output_queue[d]))
    /\ out' = [out EXCEPT ![d] = Waiting("sending")]
    /\ output_queue' = [output_queue EXCEPT ![d] = Tail(@)]
    /\ OutOnly

\* Faulty variant of Sent: an error is logged and the next item sent.
SentOrLogged(d) ==
    /\ out[d].pc = "sending" /\ out[d].reply # "none"
    /\ out' = [out EXCEPT ![d] = At("get")]
    /\ OutOnly /\ UNCHANGED <<backlog, output_queue>>

\* An answer other than 200, or none, ends the thread with an exception.
Sent(d) ==
    /\ out[d].pc = "sending" /\ out[d].reply # "none"
    /\ out' = [out EXCEPT ![d] = At(IF out[d].reply = "ok" THEN "get" ELSE "crashed")]
    /\ OutOnly /\ UNCHANGED <<backlog, output_queue>>

\* Faulty variant of StopCheck: the thread ends only when it has sent something.
StopCheckAfterData(d) ==
    /\ out[d].pc = "get" /\ output_queue[d] = <<>> /\ stop_event[d] /\ sent[d] > 0
    /\ out' = [out EXCEPT ![d] = At("done")]
    /\ OutOnly /\ UNCHANGED <<backlog, output_queue>>

\* The event is looked at only when nothing is left to send. Only the main thread
\* puts, and it sets the event afterwards, so the two looks are one.
StopCheck(d) ==
    /\ out[d].pc = "get" /\ output_queue[d] = <<>> /\ stop_event[d]
    /\ out' = [out EXCEPT ![d] = At("done")]
    /\ OutOnly /\ UNCHANGED <<backlog, output_queue>>

OutStep(d) == Send(d) \/ Sent(d) \/ StopCheck(d)

-----------------------------------------------------------------------------
(* The machine, and what may go wrong *)

Read ==
    /\ on /\ IOPort!Read(Port)
    /\ UNCHANGED <<on, registrations, backlog, process, last, fault, disturbances>>

Disturb == disturbances < MaxDisturbances /\ disturbances' = disturbances + 1

\* The server is closed: whoever waits gets no answer. What the IOPort knew is gone.
SwitchOff ==
    /\ on /\ on' = FALSE
    /\ Disturb
    /\ owner' = [owner EXCEPT ![Port] = NoDevice]
    /\ queue' = [queue EXCEPT ![Port] = <<>>]
    /\ backlog' = <<>>
    /\ LET Unanswered(t, pcs) ==
             [d \in Devices |-> IF t[d].pc \in pcs /\ t[d].reply = "none"
                                THEN [t[d] EXCEPT !.reply = "error"] ELSE t[d]]
       IN  /\ main' = Unanswered(main, {"registering", "unregistering"})
           /\ out' = Unanswered(out, {"sending"})
    /\ fault' = [d \in Devices |-> FALSE]
    /\ UNCHANGED <<registrations, output_queue, stop_event, listening, sent, run, known, last>>

SwitchOn ==
    /\ ~on /\ on' = TRUE
    /\ UNCHANGED <<owner, queue, registrations, backlog, process, last, fault, disturbances>>

\* The connection breaks before the headers of the answer are read: requests raises
\* ConnectionError, whether the request is handled or not. (A break after them raises
\* what _send_request lets through: the output thread ends as here, but a main thread
\* ends without device.stop, and that is not followed.)
BreakConnection(d) ==
    /\ Disturb
    /\ \/ /\ main[d].pc \in {"registering", "unregistering"} /\ main[d].reply # "error"
          /\ main' = [main EXCEPT ![d].reply = "error"]
          /\ backlog' = Unwanted(d, {"main"})
          /\ fault' = [fault EXCEPT ![d] = TRUE]
          /\ UNCHANGED out
       \/ /\ out[d].pc = "sending" /\ out[d].reply # "error"
          /\ out' = [out EXCEPT ![d].reply = "error"]
          /\ backlog' = Unwanted(d, {"out"})
          /\ UNCHANGED <<main, fault>>
    /\ UNCHANGED <<machine, output_queue, stop_event, listening, sent, run, known, last>>

\* The process is killed.
Kill(d) ==
    /\ main[d].pc # "off"
    /\ Disturb
    /\ main' = [main EXCEPT ![d] = At("off")]
    /\ out' = [out EXCEPT ![d] = At("done")]
    /\ listening' = [listening EXCEPT ![d] = FALSE]
    /\ backlog' = Unwanted(d, Threads)
    /\ fault' = [fault EXCEPT ![d] = TRUE]
    /\ UNCHANGED <<machine, output_queue, stop_event, sent, run, known, last>>

Disturbance == SwitchOff \/ SwitchOn \/ \E d \in Devices : BreakConnection(d) \/ Kill(d)

Next == \/ Serve \/ Read \/ Disturbance
        \/ \E d \in Devices : MainStep(d) \/ OutStep(d) \/ User(d)

\* No thread is starved and the machine, while it is on, handles what is waiting.
\* Nothing is assumed of the user, of the program or of the disturbances.
Fairness == /\ WF_vars(Serve)
            /\ \A d \in Devices : WF_vars(MainStep(d)) /\ WF_vars(OutStep(d))

Spec == Init /\ [][Next]_vars /\ Fairness

-----------------------------------------------------------------------------
(* Properties *)

Replies == {"none", "ok", "forbidden", "error"}
MainPcs == {"off", "register", "registering", "running", "unregistering", "stop", "join"}
OutPcs == {"get", "sending", "done", "crashed"}
Commands == {"register", "unregister", "data"}
Requests == [command : Commands, dev : Devices, thread : Threads, number : Nat,
             wanted : BOOLEAN, run : Nat, known : Nat]

\* Every variable has its type.
TypeOK ==
    /\ on \in BOOLEAN /\ registrations \in Nat /\ disturbances \in Nat
    /\ owner \in [{Port} -> Devices \union {NoDevice}]
    /\ queue \in [{Port} -> Seq(Devices)]
    /\ backlog \in Seq(Requests)
    /\ main \in [Devices -> [pc : MainPcs, reply : Replies]]
    /\ out \in [Devices -> [pc : OutPcs, reply : Replies]]
    /\ output_queue \in [Devices -> Seq(Nat)]
    /\ stop_event \in [Devices -> BOOLEAN]
    /\ listening \in [Devices -> BOOLEAN]
    /\ sent \in [Devices -> Nat] /\ run \in [Devices -> Nat] /\ known \in [Devices -> Nat]
    /\ last \in [Devices -> [run : Nat, number : Nat]]
    /\ fault \in [Devices -> BOOLEAN]

\* A device that the machine takes as registered answers its pings: it listens
\* before it registers, and its registration is gone before it stops listening.
\* Only a request whose answer it did not wait for, or a kill, can break this.
RegisteredAnswers ==
    \A d \in Devices : owner[Port] = d /\ ~fault[d] => listening[d]

\* What the machine gets of a run is what was sent, in order, each item once and
\* without a gap: a failed delivery is the last one.
SentInOrder ==
    [][\A d \in Devices :
          LET r == last[d] n == last'[d]
          IN  n # r => IF n.run = r.run THEN n.number = r.number + 1
                                        ELSE n.run > r.run /\ n.number = 1]_vars

\* The sender of r was registered, and somebody has been since: the machine was
\* switched off and on, or the sender's registration was ended by another.
Outdated(r) == r.known \notin {0, registrations}

\* A device loses its registration only by its own request, by that of an
\* outdated one, or with the machine.
KeepsRegistration ==
    [][\A d \in Devices :
          owner[Port] = d /\ owner'[Port] # d /\ on' =>
              Head(backlog).dev = d \/ Outdated(Head(backlog))]_vars

\* Data that is taken as that of another device comes from an outdated one: never
\* from one whose registration is the latest, running or with data left from its run.
RunningSendsAsItself ==
    [][\A d \in Devices :
          last'[d] # last[d] /\ owner[Port] # d => Outdated(Head(backlog))]_vars

\* Device.stop returns, whatever is left to send and whatever the machine does.
StopReturns ==
    \A d \in Devices : main[d].pc = "stop" ~> main[d].pc = "off"

Trying(d) == main[d].pc \in {"register", "registering"}

\* A device that tries to register is not left waiting for an IOPort that is free.
FreePortIsTaken ==
    \A d \in Devices :
        Trying(d) /\ on /\ IOPort!Free(Port) ~> ~Trying(d) \/ ~on \/ ~IOPort!Free(Port)
=============================================================================

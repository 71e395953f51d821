------------------------------ MODULE Debugger ------------------------------
(***************************************************************************)
(* A machine from its start to its stop, and the debugger on it.  The main *)
(* thread is Aldebaran.run with Clock.run in it; the debugger's server     *)
(* thread answers one request after the other; its frontend (App.tsx) asks *)
(* for the state now and then, and for steps when the user clicks.         *)
(* Programs are reduced to the number of steps the CPU has done.           *)
(***************************************************************************)
EXTENDS Integers, Sequences, SequencesExt

CONSTANTS
    StepCounts, Invalid, \* what a request can ask for; Invalid is no number
    NoQueue, Nothing,
    Unreadable,   \* after how many steps the next instruction or the stack cannot be read
    MaxClicks,    \* BOUND: requests of the user
    MaxOpen,      \* BOUND: requests and answers on their way when the interval polls
    MaxCycles     \* BOUND: cycles of a machine without debugger

ASSUME DebuggerAssumption ==
    /\ StepCounts \ {Invalid} \subseteq Nat /\ NoQueue \notin Seq(StepCounts)
    /\ Unreadable \subseteq Nat
    /\ MaxClicks \in Nat /\ MaxOpen \in Nat /\ MaxCycles \in Nat

VARIABLES
    debug,        \* started with -d
    main,         \* where the main thread is
    timer, controller, \* threads
    debugger_queue,
    remaining,    \* what is left of the steps of a command
    cycle_count, shutdown,
    steps,        \* of the CPU: its registers and the memory are those after so many
    server,       \* the debugger's server thread, and the IP it has read
    requests,     \* connections that wait for the server
    answers,      \* on their way to the frontend
    screen,       \* the state of the React component
    clicks,
    granted       \* history: steps asked for and accepted

clock == <<debugger_queue, remaining, cycle_count, shutdown, steps>>
threads == <<timer, controller>>
frontend == <<screen, clicks>>
vars == <<debug, main, threads, clock, server, requests, answers, frontend, granted>>

At(pc) == [pc |-> pc, ip |-> 0]
Get(kind) == [kind |-> kind, count |-> 0]
Failed == [kind |-> "failed", content |-> Nothing]

Init ==
    /\ debug \in BOOLEAN
    /\ main = "start" /\ timer = "new" /\ controller = "new"
    /\ debugger_queue = NoQueue /\ remaining = 0
    /\ cycle_count = 0 /\ shutdown = FALSE /\ steps = 0
    /\ server = At(IF debug THEN "new" ELSE "closed")
    /\ requests = <<>> /\ answers = <<>>
    /\ screen = [online |-> FALSE, internal |-> Nothing]
    /\ clicks = 0 /\ granted = 0

-----------------------------------------------------------------------------
(* The main thread *)

Goto(from, to) == main = from /\ main' = to

\* Aldebaran.run: the threads are started one after the other.
StartDebugger ==
    /\ Goto("start", "start_controller")
    /\ server' = IF debug THEN At("idle") ELSE server
    /\ UNCHANGED <<debug, threads, clock, requests, answers, frontend, granted>>

StartController ==
    /\ Goto("start_controller", "start_timer") /\ controller' = "alive"
    /\ UNCHANGED <<debug, timer, clock, server, requests, answers, frontend, granted>>

StartTimer ==
    /\ Goto("start_timer", "run") /\ timer' = "alive"
    /\ UNCHANGED <<debug, controller, clock, server, requests, answers, frontend, granted>>

\* Only now there is a queue for the commands of the debugger.
RunClock ==
    /\ Goto("run", IF debug THEN "get" ELSE "cycle")
    /\ debugger_queue' = IF debug THEN <<>> ELSE NoQueue
    /\ UNCHANGED <<debug, threads, remaining, cycle_count, shutdown, steps, server,
                   requests, answers, frontend, granted>>

\* Faulty variant of TakeCommand: commands are executed after SHUTDOWN too.
TakeCommandAfterShutdown ==
    /\ main = "get" /\ debugger_queue # <<>>
    /\ debugger_queue' = Tail(debugger_queue)
    /\ LET count == Head(debugger_queue)
       IN  IF count = Invalid THEN main' = "stop_timer" /\ UNCHANGED remaining
           ELSE /\ remaining' = count
                /\ main' = IF count > 0 THEN "cycle" ELSE "get"
    /\ UNCHANGED <<debug, threads, cycle_count, shutdown, steps, server, requests,
                   answers, frontend, granted>>

\* Faulty variant of TakeCommand: the count is taken as it comes.
TakeCommandUnchecked ==
    /\ main = "get" /\ debugger_queue # <<>>
    /\ debugger_queue' = Tail(debugger_queue)
    /\ remaining' = Head(debugger_queue) /\ main' = "cycle"
    /\ UNCHANGED <<debug, threads, cycle_count, shutdown, steps, server, requests,
                   answers, frontend, granted>>

\* A count that is none raises what nothing in the clock catches.
TakeCommand ==
    /\ main = "get" /\ debugger_queue # <<>>
    /\ debugger_queue' = Tail(debugger_queue)
    /\ LET count == Head(debugger_queue)
       IN  IF shutdown THEN UNCHANGED <<main, remaining>>
           ELSE IF count = Invalid THEN main' = "stop_timer" /\ UNCHANGED remaining
           ELSE /\ remaining' = count
                /\ main' = IF count > 0 THEN "cycle" ELSE "get"
    /\ UNCHANGED <<debug, threads, cycle_count, shutdown, steps, server, requests,
                   answers, frontend, granted>>

Cycle ==
    /\ Goto("cycle", "step") /\ (debug \/ cycle_count < MaxCycles)
    /\ cycle_count' = cycle_count + 1
    /\ remaining' = IF debug THEN remaining - 1 ELSE 0
    /\ UNCHANGED <<debug, threads, debugger_queue, shutdown, steps, server, requests,
                   answers, frontend, granted>>

\* CPU.step; an instruction can be SHUTDOWN, or raise.
Step ==
    /\ main = "step"
    /\ \/ /\ main' = "check" /\ steps' = steps + 1
          /\ shutdown' \in BOOLEAN
       \/ main' = "stop_timer" /\ UNCHANGED <<steps, shutdown>>
    /\ UNCHANGED <<debug, threads, debugger_queue, remaining, cycle_count, server, requests,
                   answers, frontend, granted>>

\* The CPU is looked at before the timer. With the debugger the loop goes on after
\* SHUTDOWN, for the user to look at the machine.
Check ==
    /\ main = "check"
    /\ main' = IF shutdown THEN (IF debug THEN "get" ELSE "stop_timer")
               ELSE IF timer = "dead" THEN "stop_timer"
               ELSE IF debug /\ remaining = 0 THEN "get" ELSE "cycle"
    /\ remaining' = IF shutdown THEN 0 ELSE remaining
    /\ UNCHANGED <<debug, threads, debugger_queue, cycle_count, shutdown, steps, server, requests, answers, frontend, granted>>

\* Timer.stop
StopTimer ==
    /\ Goto("stop_timer", "join_timer")
    /\ UNCHANGED <<debug, threads, clock, server, requests, answers, frontend, granted>>

JoinTimer ==
    /\ Goto("join_timer", "stop_controller") /\ timer = "dead"
    /\ UNCHANGED <<debug, threads, clock, server, requests, answers, frontend, granted>>

\* DeviceController.stop returns. A silent device can hold it for ever: see StopEnds of
\* module DeviceController.
StopController ==
    /\ Goto("stop_controller", IF debug THEN "stop_debugger" ELSE "off")
    /\ controller' = "dead"
    /\ UNCHANGED <<debug, timer, clock, server, requests, answers, frontend, granted>>

\* Faulty variant of ShutdownServer: the thread is joined first.
ShutdownServerAfterJoin ==
    /\ Goto("stop_debugger", "join_server") /\ server.pc = "closed"
    /\ UNCHANGED <<debug, threads, clock, server, requests, answers, frontend, granted>>

\* Debugger.stop: the server is told, and closed when its thread is done.
ShutdownServer ==
    /\ Goto("stop_debugger", "join_server")
    /\ UNCHANGED <<debug, threads, clock, server, requests, answers, frontend, granted>>

JoinServer ==
    /\ Goto("join_server", "off") /\ server.pc = "closed"
    /\ UNCHANGED <<debug, threads, clock, server, requests, answers, frontend, granted>>

\* What the main thread does without waiting for anything outside the machine.
MainStep ==
    \/ StartDebugger \/ StartController \/ StartTimer \/ RunClock
    \/ TakeCommand \/ Cycle \/ Step \/ Check
    \/ StopTimer \/ JoinTimer \/ ShutdownServer \/ JoinServer

\* Ctrl-C ends the clock, and the machine is stopped. While it is started or stopped
\* nothing catches it but main, which leaves; whether its threads end is not followed.
Interrupt ==
    /\ main \notin {"off", "left"}
    /\ main' = IF main \in {"run", "get", "cycle", "step", "check"} THEN "stop_timer"
               ELSE "left"
    /\ UNCHANGED <<debug, threads, clock, server, requests, answers, frontend, granted>>

-----------------------------------------------------------------------------
(* The timer thread, as far as the machine looks at it *)

EndTimer ==
    /\ timer = "alive" /\ main = "join_timer"
    /\ timer' = "dead"
    /\ UNCHANGED <<debug, main, controller, clock, server, requests, answers, frontend, granted>>

\* See module Timer.
CrashTimer ==
    /\ timer = "alive" /\ timer' = "dead"
    /\ UNCHANGED <<debug, main, controller, clock, server, requests, answers, frontend, granted>>

-----------------------------------------------------------------------------
(* The debugger's server thread *)

Answer(kind, content) == answers' = Append(answers, [kind |-> kind, content |-> content])

\* After shutdown() no request is taken any more.
Idle == server.pc = "idle" /\ main # "join_server"
NextIs(kind) == requests # <<>> /\ Head(requests).kind = kind

\* _handle_post reads the body. The one thread waits for it as long as it takes.
ReadBody ==
    /\ Idle /\ NextIs("step")
    /\ server' = At("body")
    /\ UNCHANGED <<debug, main, threads, clock, requests, answers, frontend, granted>>

\* Without a queue the handler raises, and the connection is closed.
HandleStep ==
    /\ server.pc = "body" /\ NextIs("step")
    /\ LET count == Head(requests).count
       IN  IF debugger_queue = NoQueue
           THEN answers' = Append(answers, Failed) /\ UNCHANGED <<debugger_queue, granted>>
           ELSE /\ debugger_queue' = Append(debugger_queue, count)
                /\ granted' = IF count = Invalid THEN granted ELSE granted + count
                /\ Answer("step", Nothing)
    /\ requests' = Tail(requests) /\ server' = At("idle")
    /\ UNCHANGED <<debug, main, threads, remaining, cycle_count, shutdown, steps,
                   frontend>>

\* The body breaks off, or is no JSON.
RefuseStep ==
    /\ server.pc = "body" /\ NextIs("step")
    /\ answers' = Append(answers, Failed)
    /\ requests' = Tail(requests) /\ server' = At("idle")
    /\ UNCHANGED <<debug, main, threads, clock, frontend, granted>>

\* _get_internal_state: the registers and IP first, all the rest later.
ReadRegisters ==
    /\ Idle /\ NextIs("internal")
    /\ requests' = Tail(requests)
    /\ server' = [pc |-> "registers", ip |-> steps]
    /\ UNCHANGED <<debug, main, threads, clock, answers, frontend, granted>>

Internal(ip) == [ip |-> ip, shutdown |-> shutdown, cycle_count |-> cycle_count]

\* The instructions and the stack that IP and SP have been led to exist in the memory.
Readable == steps \notin Unreadable

\* The last and the next instruction and the stack are read one after the other, while
\* the CPU may go on.
Moved == server.ip # steps

AnswerInternal ==
    /\ server.pc = "registers" /\ (Readable \/ Moved)
    /\ Answer("internal", Internal(server.ip))
    /\ server' = At("idle")
    /\ UNCHANGED <<debug, main, threads, clock, requests, frontend, granted>>

\* A SegfaultError ends the handler, and the connection is closed.
FailInternal ==
    /\ server.pc = "registers" /\ (~Readable \/ Moved)
    /\ answers' = Append(answers, Failed)
    /\ server' = At("idle")
    /\ UNCHANGED <<debug, main, threads, clock, requests, frontend, granted>>

\* serve_forever ends, and the waiting connections are closed.
CloseServer ==
    /\ server.pc = "idle" /\ main = "join_server"
    /\ server' = At("closed")
    /\ requests' = <<>> /\ answers' = answers \o [k \in DOMAIN requests |-> Failed]
    /\ UNCHANGED <<debug, main, threads, clock, frontend, granted>>

ServerStep == ReadBody \/ ReadRegisters \/ AnswerInternal \/ FailInternal \/ CloseServer

\* What somebody else has to do for a thread to go on, and perhaps never does.
OthersAct == StopController \/ HandleStep \/ RefuseStep

-----------------------------------------------------------------------------
(* The frontend *)

\* fetch: a connection that waits, or none.
Ask(rs) == IF server.pc = "closed" THEN UNCHANGED requests ELSE requests' = requests \o rs

\* tick, which asks for a part of the memory in the same way.
Tick == <<Get("internal")>>

\* Faulty variant of Poll: no interval, only what componentDidMount asks.
PollOnce ==
    /\ screen.internal = Nothing
    /\ Len(requests) + Len(answers) < MaxOpen
    /\ Ask(Tick)
    /\ screen' = [screen EXCEPT !.online = @ /\ server.pc # "closed"]
    /\ UNCHANGED <<debug, main, threads, clock, server, answers, clicks, granted>>

\* When it is mounted, and every three seconds.
Poll ==
    /\ Len(requests) + Len(answers) < MaxOpen
    /\ Ask(Tick)
    /\ screen' = [screen EXCEPT !.online = @ /\ server.pc # "closed"]
    /\ UNCHANGED <<debug, main, threads, clock, server, answers, clicks, granted>>

\* cpuStep, or a request of another client.
Click ==
    /\ clicks < MaxClicks /\ server.pc # "closed"
    /\ clicks' = clicks + 1
    /\ \E count \in StepCounts : requests' = Append(requests, [kind |-> "step", count |-> count])
    /\ UNCHANGED <<debug, main, threads, clock, server, answers, screen, granted>>

\* The answers come in any order. One to a step makes a tick.
Receive(k) ==
    /\ k \in DOMAIN answers
    /\ answers' = RemoveAt(answers, k)
    /\ LET answer == answers[k]
       IN  /\ screen' = [online   |-> answer # Failed,
                         internal |-> IF answer.kind = "internal" THEN answer.content
                                      ELSE screen.internal]
           /\ IF answer.kind = "step" THEN Ask(Tick) ELSE UNCHANGED requests
    /\ UNCHANGED <<debug, main, threads, clock, server, clicks, granted>>

Next == \/ MainStep \/ Interrupt \/ EndTimer \/ CrashTimer \/ ServerStep \/ OthersAct
        \/ Poll \/ Click \/ \E k \in DOMAIN answers : Receive(k)

\* Every thread runs, the page stays open, and every answer comes some time. Whether the
\* body of a request comes, and whether the devices let the controller stop, is not
\* theirs: the properties below say when they count on it.
Fairness ==
    /\ WF_vars(MainStep) /\ WF_vars(EndTimer) /\ WF_vars(ServerStep)
    /\ WF_vars(Poll) /\ WF_vars(Receive(1))

Spec == Init /\ [][Next]_vars /\ Fairness

-----------------------------------------------------------------------------
(* Properties *)

\* Every variable has its type; there is a queue exactly when there is a debugger and
\* its clock has been started.
TypeOK ==
    /\ debug \in BOOLEAN /\ shutdown \in BOOLEAN
    /\ timer \in {"new", "alive", "dead"} /\ controller \in {"new", "alive", "dead"}
    /\ remaining \in Nat /\ steps \in Nat /\ cycle_count \in steps .. steps + 1
    /\ debugger_queue # NoQueue =>
          debug /\ \A k \in DOMAIN debugger_queue : debugger_queue[k] \in StepCounts
    /\ main \in {"get", "cycle", "step", "check"} => debug = (debugger_queue # NoQueue)
    /\ server.pc \in {"new", "idle", "body", "registers", "closed"} /\ server.ip \in 0 .. steps
    /\ granted \in Nat /\ clicks \in 0 .. MaxClicks

\* The CPU is driven between the start and the stop of the other threads, never after
\* SHUTDOWN, and with the debugger not a step further than was asked for.
StepsAsAsked ==
    [][cycle_count' # cycle_count =>
          /\ ~shutdown /\ timer # "new" /\ controller = "alive"
          /\ debug => server.pc # "new" /\ cycle_count' + remaining' <= granted]_vars

\* No client leaves the server waiting for a body for ever, and the devices let the
\* controller stop.
BodiesEnd == []<>(server.pc # "body")
ControllerStops == []<>(main # "stop_controller")

Stopping == {"stop_timer", "join_timer", "stop_controller", "stop_debugger", "join_server"}

\* When the user leaves the buttons alone and no body stays away, all steps that were
\* accepted are executed while the clock runs (unless the program shut the machine
\* down), and the page comes to show the state they led to, whatever answers were read
\* between two steps or overtook each other; unless they led to where the next
\* instruction or the stack cannot be read: then the page never shows it.
ScreenCatchesUp ==
    debug /\ BodiesEnd =>
      <>[](\/ main \in Stopping \union {"off", "left"}
           \/ /\ shutdown \/ cycle_count = granted
              /\ Readable => screen = [online |-> TRUE, internal |-> Internal(steps)])

\* The machine whose clock has ended, by whatever error, or without debugger by
\* SHUTDOWN, goes off, and all its threads end. Three things keep it: Ctrl-C while it
\* stops, a device that does not let the controller stop, and a client of the debugger
\* whose body never comes.
MachineStops ==
    ControllerStops /\ BodiesEnd =>
      (\/ main \in Stopping
       \/ shutdown /\ ~debug)
      ~> \/ main = "left"
         \/ main = "off" /\ timer = "dead" /\ controller = "dead" /\ server.pc = "closed"
=============================================================================

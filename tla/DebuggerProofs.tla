---------------------------- MODULE DebuggerProofs ----------------------------
(***************************************************************************)
(* The machine under the debugger, for any requests, any number of clicks  *)
(* and any step counts: type correctness, and that the CPU is driven only  *)
(* while the machine is up, and not a step further than was asked for.     *)
(***************************************************************************)
EXTENDS Debugger, TLAPS

-----------------------------------------------------------------------------
(* The invariant *)

Requests == [kind : {"step"}, count : StepCounts] \union {Get("internal")}

Starting == {"start", "start_controller", "start_timer", "run"}
Running == {"get", "cycle", "step", "check"}

\* What TypeOK leaves open: the requests, and the commands in the queue.
Typed ==
    /\ TypeOK
    /\ main \in Starting \union Running \union Stopping \union {"off", "left"}
    /\ requests \in Seq(Requests)
    /\ debugger_queue # NoQueue => debugger_queue \in Seq(StepCounts)

\* Each thread is started at its place, and none ends before the clock, but the timer.
StartedInOrder ==
    /\ server.pc = "new" => debug /\ main \in {"start", "left"}
    /\ main \in Running => timer # "new" /\ controller = "alive"
    /\ main = "run" => timer # "new" /\ controller = "alive"
    /\ main = "start_timer" => controller = "alive"

\* The CPU is between two steps, or in one; a step that raises ends the clock.
Counted ==
    /\ main = "step" => cycle_count = steps + 1
    /\ main \in Starting \union {"get", "cycle", "check"} => cycle_count = steps

\* The clock asks for a command when nothing is left of the one before, and drives
\* the CPU only when there is something left, and not after SHUTDOWN.
RunsCommands ==
    /\ main = "get" => debug
    /\ main \in Starting \union {"cycle", "step"} => ~shutdown
    /\ main = "cycle" /\ debug => remaining > 0
    /\ main \in Starting \union {"get"} => remaining = 0
    /\ main \in Starting => cycle_count = 0 /\ debugger_queue = NoQueue

\* The account of the steps: what the CPU has done and still has to do when it
\* takes the k-th command that waits is within what has been granted.
Steps(count) == IF count = Invalid THEN 0 ELSE count
Balance(account, queue, done, all) ==
    /\ account[0] = done
    /\ \A k \in 1 .. Len(queue) : account[k] >= account[k - 1] + Steps(queue[k])
    /\ \A k \in 0 .. Len(queue) : account[k] \in 0 .. all
WithinGranted ==
    debugger_queue # NoQueue =>
        \E account \in [0 .. Len(debugger_queue) -> Nat] :
            Balance(account, debugger_queue, cycle_count + remaining, granted)

Shape == Typed /\ StartedInOrder /\ Counted /\ RunsCommands
DebuggerInv == Shape /\ WithinGranted

-----------------------------------------------------------------------------
(* The account *)

\* A step after which the CPU has no more to do, and that changes no command. (What is
\* left of one at SHUTDOWN is never done.)
LEMMA AccountKept ==
  ASSUME WithinGranted, UNCHANGED <<debugger_queue, granted>>,
         debugger_queue # NoQueue =>
            /\ debugger_queue \in Seq(StepCounts) /\ granted \in Nat
            /\ cycle_count + remaining \in Nat /\ cycle_count' + remaining' \in Nat
            /\ cycle_count' + remaining' <= cycle_count + remaining
  PROVE  WithinGranted'
<1> SUFFICES ASSUME debugger_queue # NoQueue
             PROVE  \E account \in [0 .. Len(debugger_queue') -> Nat] :
                       Balance(account, debugger_queue', cycle_count' + remaining', granted')
  BY DEF WithinGranted
<1>1. PICK account \in [0 .. Len(debugger_queue) -> Nat] :
         Balance(account, debugger_queue, cycle_count + remaining, granted)
  BY DEF WithinGranted
<1> DEFINE now == [account EXCEPT ![0] = cycle_count' + remaining']
<1>2. now \in [0 .. Len(debugger_queue) -> Nat] /\ now[0] = cycle_count' + remaining'
  OBVIOUS
<1>3. /\ \A k \in 1 .. Len(debugger_queue) : now[k] = account[k]
      /\ DOMAIN debugger_queue = 1 .. Len(debugger_queue) /\ Len(debugger_queue) \in Nat
      /\ \A k \in 1 .. Len(debugger_queue) : k - 1 \in 0 .. Len(debugger_queue)
  OBVIOUS
<1>4. now[0] <= account[0]
  BY <1>1, <1>2 DEF Balance
<1> HIDE DEF now
<1>5. \A k \in 1 .. Len(debugger_queue) : now[k] >= now[k - 1] + Steps(debugger_queue[k])
  <2>1. TAKE k \in 1 .. Len(debugger_queue)
  <2>2. account[k] >= account[k - 1] + Steps(debugger_queue[k])
    BY <1>1, <1>3 DEF Balance
  <2>3. now[k - 1] <= account[k - 1]
    <3>1. CASE k = 1
      BY <1>4, <3>1
    <3>2. CASE k # 1
      <4>1. k - 1 \in 1 .. Len(debugger_queue)
        BY <3>2
      <4> QED BY <1>3, <4>1
    <3> QED BY <3>1, <3>2
  <2>4. Steps(debugger_queue[k]) \in Int
    BY <1>3, DebuggerAssumption DEF Steps
  <2> QED BY <1>2, <1>3, <2>2, <2>3, <2>4, SMTT(20)
<1>6. \A k \in 0 .. Len(debugger_queue) : now[k] \in 0 .. granted
  <2>1. TAKE k \in 0 .. Len(debugger_queue)
  <2>2. account[k] \in 0 .. granted
    BY <1>1 DEF Balance
  <2>3. now[k] <= account[k]
    BY <1>1, <1>3, <1>4
  <2> QED BY <1>2, <2>2, <2>3
<1>7. Balance(now, debugger_queue', cycle_count' + remaining', granted')
  BY <1>2, <1>3, <1>5, <1>6 DEF Balance
<1> QED
  BY <1>2, <1>7

\* A command that is taken is what the next balance counts on.
LEMMA AccountTail ==
  ASSUME WithinGranted, debugger_queue \in Seq(StepCounts), debugger_queue # NoQueue,
         debugger_queue # <<>>, debugger_queue' = Tail(debugger_queue), granted' = granted,
         cycle_count + remaining \in Nat, granted \in Nat, cycle_count' + remaining' \in Nat,
         cycle_count' + remaining' <= cycle_count + remaining + Steps(Head(debugger_queue))
  PROVE  WithinGranted'
<1>1. PICK account \in [0 .. Len(debugger_queue) -> Nat] :
         Balance(account, debugger_queue, cycle_count + remaining, granted)
  BY DEF WithinGranted
<1> DEFINE n == Len(debugger_queue)
           after == [k \in 0 .. n - 1 |-> IF k = 0 THEN cycle_count' + remaining'
                                          ELSE account[k + 1]]
<1>2. /\ n \in Nat /\ n > 0 /\ Len(debugger_queue') = n - 1
      /\ \A k \in 1 .. n - 1 : debugger_queue'[k] = debugger_queue[k + 1]
      /\ DOMAIN debugger_queue = 1 .. n /\ DOMAIN debugger_queue' = 1 .. n - 1
      /\ Head(debugger_queue) = debugger_queue[1]
  OBVIOUS
<1>3. /\ after \in [0 .. n - 1 -> Nat] /\ after[0] = cycle_count' + remaining'
      /\ \A k \in 1 .. n - 1 : after[k] = account[k + 1]
  BY <1>2
<1> HIDE DEF after, n
<1>4. /\ account[0] = cycle_count + remaining
      /\ \A k \in 1 .. n : account[k] >= account[k - 1] + Steps(debugger_queue[k])
      /\ \A k \in 0 .. n : account[k] \in 0 .. granted
  BY <1>1, <1>2 DEF Balance, n
<1>s. \A k \in 1 .. n : Steps(debugger_queue[k]) \in Int
  BY <1>2, DebuggerAssumption DEF Steps, n
<1>5. after[0] <= account[1]
  <2>1. 1 \in 1 .. n /\ 1 - 1 = 0 /\ account[1] \in Nat
    BY <1>2, <1>4
  <2>2. account[1] >= account[0] + Steps(debugger_queue[1])
    BY <1>4, <2>1
  <2> QED BY <1>2, <1>3, <1>4, <1>s, <2>1, <2>2
<1>6. \A k \in 1 .. n - 1 : after[k] >= after[k - 1] + Steps(debugger_queue'[k])
  <2>1. TAKE k \in 1 .. n - 1
  <2>2. k + 1 \in 1 .. n /\ k + 1 - 1 = k /\ k \in 1 .. n /\ k \in 0 .. n
    BY <1>2
  <2>3. account[k + 1] >= account[k] + Steps(debugger_queue[k + 1])
    BY <1>4, <2>2
  <2>4. after[k - 1] <= account[k]
    <3>1. CASE k = 1
      BY <1>5, <3>1
    <3>2. CASE k # 1
      <4>1. k - 1 \in 1 .. n - 1 /\ k - 1 + 1 = k
        BY <1>2, <3>2
      <4>2. account[k] \in Nat
        BY <1>4, <2>2
      <4> QED BY <1>3, <4>1, <4>2
    <3> QED BY <3>1, <3>2
  <2>5. k - 1 \in 0 .. n - 1 /\ k + 1 \in 0 .. n
    BY <1>2
  <2>6. after[k - 1] \in Nat /\ account[k] \in Nat /\ account[k + 1] \in Nat
    BY <1>3, <1>4, <2>2, <2>5
  <2>7. after[k] = account[k + 1] /\ Steps(debugger_queue'[k]) \in Int
        /\ Steps(debugger_queue'[k]) = Steps(debugger_queue[k + 1])
    BY <1>2, <1>3, <1>s, <2>2
  <2> QED BY <1>2, <2>3, <2>4, <2>6, <2>7
<1>7. \A k \in 0 .. n - 1 : after[k] \in 0 .. granted
  <2>1. TAKE k \in 0 .. n - 1
  <2>2. k + 1 \in 0 .. n
    BY <1>2
  <2>3. account[k + 1] \in 0 .. granted
    BY <1>4, <2>2
  <2>4. after[k] <= account[k + 1]
    BY <1>2, <1>3, <1>5, <2>3
  <2>5. after[k] \in Nat
    BY <1>3
  <2> QED BY <2>3, <2>4, <2>5
<1>8. Balance(after, debugger_queue', cycle_count' + remaining', granted')
  BY <1>2, <1>3, <1>6, <1>7 DEF Balance, n
<1>9. after \in [0 .. Len(debugger_queue') -> Nat]
  BY <1>2, <1>3 DEF n
<1> QED
  BY <1>8, <1>9 DEF WithinGranted

\* A command that is accepted: its balance is all that is granted then.
LEMMA AccountAppend ==
  ASSUME WithinGranted, debugger_queue \in Seq(StepCounts), debugger_queue # NoQueue,
         NEW count \in StepCounts, debugger_queue' = Append(debugger_queue, count),
         granted \in Nat, granted' = granted + Steps(count),
         UNCHANGED <<cycle_count, remaining>>
  PROVE  WithinGranted'
<1>1. PICK account \in [0 .. Len(debugger_queue) -> Nat] :
         Balance(account, debugger_queue, cycle_count + remaining, granted)
  BY DEF WithinGranted
<1> DEFINE n == Len(debugger_queue)
           after == [k \in 0 .. n + 1 |-> IF k = n + 1 THEN granted' ELSE account[k]]
<1>2. /\ n \in Nat /\ Len(debugger_queue') = n + 1
      /\ \A k \in 1 .. n : debugger_queue'[k] = debugger_queue[k]
      /\ debugger_queue'[n + 1] = count
      /\ DOMAIN debugger_queue = 1 .. n /\ DOMAIN debugger_queue' = 1 .. n + 1
  OBVIOUS
<1>s. Steps(count) \in Nat
  BY DebuggerAssumption DEF Steps
<1>3. /\ after \in [0 .. n + 1 -> Nat] /\ after[n + 1] = granted'
      /\ \A k \in 0 .. n : after[k] = account[k]
  <2>1. granted' \in Nat
    BY <1>s
  <2> QED BY <1>2, <2>1
<1> HIDE DEF after, n
<1>4. /\ account[0] = cycle_count + remaining
      /\ \A k \in 1 .. n : account[k] >= account[k - 1] + Steps(debugger_queue[k])
      /\ \A k \in 0 .. n : account[k] \in 0 .. granted
  BY <1>1, <1>2 DEF Balance, n
<1>5. \A k \in 1 .. n + 1 : after[k] >= after[k - 1] + Steps(debugger_queue'[k])
  <2>1. TAKE k \in 1 .. n + 1
  <2>2. CASE k = n + 1
    <3>1. n \in 0 .. n /\ k - 1 = n
      BY <1>2, <2>2
    <3>2. after[k - 1] <= granted /\ after[k - 1] \in Nat
      BY <1>3, <1>4, <3>1
    <3> QED BY <1>2, <1>3, <1>s, <2>2, <3>2
  <2>3. CASE k # n + 1
    <3>1. k \in 1 .. n /\ k \in 0 .. n /\ k - 1 \in 0 .. n
      BY <1>2, <2>3
    <3> QED BY <1>2, <1>3, <1>4, <3>1
  <2> QED BY <2>2, <2>3
<1>6. \A k \in 0 .. n + 1 : after[k] \in 0 .. granted'
  <2>1. TAKE k \in 0 .. n + 1
  <2>2. CASE k = n + 1
    BY <1>3, <1>s, <2>2
  <2>3. CASE k # n + 1
    <3>1. k \in 0 .. n
      BY <1>2, <2>3
    <3>2. account[k] \in 0 .. granted
      BY <1>4, <3>1
    <3> QED BY <1>3, <1>s, <3>1, <3>2
  <2> QED BY <2>2, <2>3
<1>7. Balance(after, debugger_queue', cycle_count' + remaining', granted')
  <2>1. 0 \in 0 .. n
    BY <1>2
  <2> QED BY <1>2, <1>3, <1>4, <1>5, <1>6, <2>1 DEF Balance, n
<1>8. after \in [0 .. Len(debugger_queue') -> Nat]
  BY <1>2, <1>3 DEF n
<1> QED
  BY <1>7, <1>8 DEF WithinGranted

-----------------------------------------------------------------------------
(* Every step keeps the invariant *)

\* TypeOK without its equation of truth values.
Fields ==
    /\ debug \in BOOLEAN /\ shutdown \in BOOLEAN
    /\ timer \in {"new", "alive", "dead"} /\ controller \in {"new", "alive", "dead"}
    /\ remaining \in Nat /\ steps \in Nat /\ cycle_count \in steps .. steps + 1
    /\ debugger_queue # NoQueue =>
          debug /\ \A k \in DOMAIN debugger_queue : debugger_queue[k] \in StepCounts
    /\ server.pc \in {"new", "idle", "body", "registers", "closed"} /\ server.ip \in 0 .. steps
    /\ granted \in Nat /\ clicks \in 0 .. MaxClicks

\* The equation.
LEMMA QueueWhileRunning ==
  /\ TypeOK => (main \in Running => (debug <=> debugger_queue # NoQueue))
  /\ debug \in BOOLEAN /\ (main \in Running => (debug <=> debugger_queue # NoQueue)) =>
        (main \in Running => debug = (debugger_queue # NoQueue))
<1>1. ASSUME debug \in BOOLEAN, debug <=> debugger_queue # NoQueue
      PROVE  debug = (debugger_queue # NoQueue)
  BY <1>1, Zenon
<1>2. TypeOK => (main \in Running => (debug <=> debugger_queue # NoQueue))
  BY Zenon DEF TypeOK, Running
<1> QED BY <1>1, <1>2, Zenon

LEMMA MainKeepsShape ==
  ASSUME Shape, MainStep \/ StopController
  PROVE  Shape'
<1> USE DEF Shape, StartedInOrder, Counted, RunsCommands, Starting, Running, Stopping
<1>q. \A q : q \in Seq(StepCounts) /\ q # <<>> =>
             /\ Head(q) \in StepCounts /\ Tail(q) \in Seq(StepCounts)
             /\ Head(q) = Invalid \/ Head(q) \in Nat
             /\ \A k \in DOMAIN q : q[k] \in StepCounts
  BY DebuggerAssumption
<1>e. <<>> \in Seq(StepCounts) /\ DOMAIN <<>> = {} /\ <<>> # NoQueue
  <2>1. <<>> \in Seq(StepCounts) /\ DOMAIN <<>> = {}
    OBVIOUS
  <2> QED BY <2>1, DebuggerAssumption, Zenon
<1>n. \A q \in Seq(StepCounts) : q # NoQueue /\ \A k \in DOMAIN q : q[k] \in StepCounts
  BY DebuggerAssumption
<1>1. CASE StartDebugger
  BY <1>1 DEF StartDebugger, Goto, Typed, TypeOK, threads, clock, frontend, At
<1>2. CASE StartController \/ StartTimer
  BY <1>2 DEF StartController, StartTimer, Goto, Typed, TypeOK, threads, clock, frontend
<1>3. CASE RunClock
  <2>1. /\ debugger_queue' # NoQueue => debug /\ debugger_queue' = <<>>
        /\ debug => debugger_queue' # NoQueue
    BY <1>3, <1>e DEF RunClock
  <2>2. debugger_queue' # NoQueue =>
            /\ debug /\ debugger_queue' \in Seq(StepCounts)
            /\ \A k \in DOMAIN debugger_queue' : debugger_queue'[k] \in StepCounts
    BY <1>e, <2>1
  <2>3. main' \in Running => (debug' = (debugger_queue' # NoQueue))
    <3>1. debug' = debug /\ debug \in BOOLEAN /\ (debug <=> debugger_queue' # NoQueue)
      BY <1>3, <2>1 DEF RunClock, Typed, TypeOK
    <3> QED BY <3>1, Zenon
  <2>4. Fields'
    BY <1>3, <2>2 DEF RunClock, Typed, TypeOK, Fields, threads, frontend
  <2>5. TypeOK'
    BY <2>3, <2>4, Zenon DEF TypeOK, Fields, Running
  <2>6. StartedInOrder' /\ Counted' /\ RunsCommands'
    BY <1>3 DEF RunClock, Goto, Typed, threads
  <2> QED
    BY <1>3, <2>2, <2>5, <2>6 DEF RunClock, Goto, Typed
<1>4. CASE TakeCommand
  <2>1. debug /\ debugger_queue \in Seq(StepCounts) /\ remaining = 0
    BY <1>4 DEF TakeCommand, Typed, TypeOK
  <2>2. /\ debugger_queue' \in Seq(StepCounts)
        /\ Head(debugger_queue) = Invalid \/ Head(debugger_queue) \in Nat
    BY <1>4, <1>q, <2>1 DEF TakeCommand
  <2>3. /\ debugger_queue' # NoQueue
        /\ \A k \in DOMAIN debugger_queue' : debugger_queue'[k] \in StepCounts
    BY <1>n, <2>2
  <2>4. /\ main' \in {"get", "cycle", "stop_timer"} /\ remaining' \in Nat
        /\ main' = "cycle" => remaining' > 0 /\ ~shutdown
        /\ main' = "get" => remaining' = 0
    BY <1>4, <2>1, <2>2 DEF TakeCommand
  <2> QED
    BY <1>4, <2>1, <2>2, <2>3, <2>4 DEF TakeCommand, Typed, TypeOK, threads, frontend
<1>5. CASE Cycle
  BY <1>5 DEF Cycle, Goto, Typed, TypeOK, threads, frontend
<1>6. CASE Step
  BY <1>6 DEF Step, Typed, TypeOK, threads, frontend
<1>7. CASE Check
  BY <1>7 DEF Check, Typed, TypeOK, threads, frontend
<1>8. CASE StopTimer \/ JoinTimer \/ StopController \/ ShutdownServer \/ JoinServer
  BY <1>8 DEF StopTimer, JoinTimer, StopController, ShutdownServer, JoinServer, Goto, Typed,
     TypeOK, threads, clock, frontend
<1> QED
  BY <1>1, <1>2, <1>3, <1>4, <1>5, <1>6, <1>7, <1>8 DEF MainStep

LEMMA OthersKeepShape ==
  ASSUME Shape, \/ Interrupt \/ EndTimer \/ CrashTimer \/ ServerStep \/ HandleStep \/ RefuseStep
                \/ Poll \/ Click
                \/ (\E k \in DOMAIN answers : Receive(k))
                \/ UNCHANGED vars
  PROVE  Shape'
<1> USE DEF Shape, StartedInOrder, Counted, RunsCommands, Starting, Running, Stopping
<1>r. \A rs \in Seq(Requests) :
         /\ rs # <<>> => /\ Head(rs) \in Requests /\ Tail(rs) \in Seq(Requests)
                         /\ Head(rs).kind = "step" => Head(rs).count \in StepCounts
         /\ rs \o Tick \in Seq(Requests)
         /\ \A count \in StepCounts :
               Append(rs, [kind |-> "step", count |-> count]) \in Seq(Requests)
  <2> SUFFICES ASSUME NEW rs \in Seq(Requests)
               PROVE  /\ rs # <<>> => /\ Head(rs) \in Requests /\ Tail(rs) \in Seq(Requests)
                                      /\ Head(rs).kind = "step" => Head(rs).count \in StepCounts
                      /\ rs \o Tick \in Seq(Requests)
                      /\ \A count \in StepCounts :
                            Append(rs, [kind |-> "step", count |-> count]) \in Seq(Requests)
    OBVIOUS
  <2>1. \A r \in Requests : r.kind = "step" => r.count \in StepCounts
    BY DEF Requests, Get
  <2>2. Tick \in Seq(Requests)
    BY DEF Tick, Requests
  <2>3. \A count \in StepCounts : [kind |-> "step", count |-> count] \in Requests
    BY DEF Requests
  <2> QED BY <2>1, <2>2, <2>3
<1>a. ASSUME Ask(Tick) PROVE requests' \in Seq(Requests)
  BY <1>a, <1>r DEF Ask, Typed
<1>1. CASE Interrupt
  BY <1>1 DEF Interrupt, Typed, TypeOK, threads, clock, frontend
<1>2. CASE EndTimer \/ CrashTimer
  BY <1>2 DEF EndTimer, CrashTimer, Typed, TypeOK, clock, frontend
<1>3. CASE HandleStep
  <2>1. /\ UNCHANGED <<debug, main, threads, remaining, cycle_count, shutdown, steps,
                       frontend>>
        /\ server' = [pc |-> "idle", ip |-> 0]
        /\ requests' \in Seq(Requests) /\ Head(requests).count \in StepCounts
    BY <1>3, <1>r DEF HandleStep, NextIs, At, Typed
  <2>s. server'.pc = "idle" /\ server'.ip \in 0 .. steps
    BY <2>1 DEF Typed, TypeOK
  <2>2. CASE debugger_queue = NoQueue
    BY <1>3, <2>1, <2>s, <2>2 DEF HandleStep, Typed, TypeOK, threads, frontend
  <2>3. CASE debugger_queue # NoQueue
    <3>1. /\ debugger_queue' = Append(debugger_queue, Head(requests).count)
          /\ granted' = IF Head(requests).count = Invalid THEN granted
                        ELSE granted + Head(requests).count
      BY <1>3, <2>3 DEF HandleStep
    <3>2. debugger_queue' \in Seq(StepCounts) /\ debugger_queue' # NoQueue
      <4>1. debugger_queue \in Seq(StepCounts)
        BY <2>3 DEF Typed
      <4>2. debugger_queue' \in Seq(StepCounts)
        BY <2>1, <3>1, <4>1
      <4> QED BY <4>2, DebuggerAssumption
    <3>3. \A k \in DOMAIN debugger_queue' : debugger_queue'[k] \in StepCounts
      BY <3>2
    <3>4. granted' \in Nat
      BY <2>1, <3>1, DebuggerAssumption DEF Typed, TypeOK
    <3> QED
      BY <2>1, <2>s, <2>3, <3>2, <3>3, <3>4, ZenonT(30) DEF Typed, TypeOK, threads, frontend
  <2> QED BY <2>2, <2>3
<1>4. CASE ReadRegisters
  BY <1>4, <1>r DEF ReadRegisters, Idle, NextIs, Typed, TypeOK, threads, clock, frontend
<1>9. CASE AnswerInternal \/ FailInternal
  BY <1>9 DEF AnswerInternal, FailInternal, At, Typed, TypeOK, threads, clock, frontend
<1>11. CASE ReadBody
  BY <1>11 DEF ReadBody, At, Typed, TypeOK, threads, clock, frontend
<1>12. CASE RefuseStep
  BY <1>12, <1>r DEF RefuseStep, NextIs, At, Typed, TypeOK, threads, clock, frontend
<1>10. CASE CloseServer
  <2>1. <<>> \in Seq(Requests)
    OBVIOUS
  <2> QED
    BY <1>10, <2>1 DEF CloseServer, At, Typed, TypeOK, threads, clock, frontend
<1>5. CASE Poll
  BY <1>5, <1>a DEF Poll, Typed, TypeOK, threads, clock
<1>6. CASE Click
  <2>1. requests' \in Seq(Requests)
    BY <1>6, <1>r DEF Click, Typed
  <2>2. clicks' \in 0 .. MaxClicks
    BY <1>6, DebuggerAssumption DEF Click, Typed, TypeOK
  <2> QED
    BY <1>6, <2>1, <2>2 DEF Click, Typed, TypeOK, threads, clock
<1>7. ASSUME NEW k \in DOMAIN answers, Receive(k) PROVE Shape'
  BY <1>7, <1>a DEF Receive, Typed, TypeOK, threads, clock
<1>8. CASE UNCHANGED vars
  BY <1>8 DEF vars, Typed, TypeOK, threads, clock, frontend
<1> QED
  BY <1>1, <1>2, <1>3, <1>4, <1>5, <1>6, <1>7, <1>8, <1>9, <1>10, <1>11, <1>12
     DEF ServerStep

LEMMA StepsKeepAccount ==
  ASSUME DebuggerInv, [Next]_vars
  PROVE  WithinGranted'
<1>0. /\ Shape /\ WithinGranted
      /\ cycle_count \in Nat /\ remaining \in Nat /\ granted \in Nat
      /\ debugger_queue # NoQueue => debugger_queue \in Seq(StepCounts) /\ debug
  BY DEF DebuggerInv, Shape, Typed, TypeOK
<1>1. CASE TakeCommand
  <2>1. debugger_queue # NoQueue /\ debugger_queue \in Seq(StepCounts) /\ remaining = 0
    BY <1>0, <1>1 DEF TakeCommand, Shape, Typed, TypeOK, RunsCommands, Running
  <2>2. /\ debugger_queue # <<>> /\ debugger_queue' = Tail(debugger_queue)
        /\ granted' = granted /\ cycle_count' = cycle_count
        /\ remaining' \in Nat /\ remaining' <= Steps(Head(debugger_queue))
    <3>1. Head(debugger_queue) = Invalid \/ Head(debugger_queue) \in Nat
      BY <1>1, <2>1, DebuggerAssumption DEF TakeCommand
    <3> QED
      BY <1>1, <2>1, <3>1 DEF TakeCommand, Steps
  <2>3. Steps(Head(debugger_queue)) \in Nat
    BY <2>1, <2>2, DebuggerAssumption DEF Steps
  <2>4. \A c, r, s, left \in Nat :
            left <= s => c + r \in Nat /\ c + left \in Nat /\ c + left <= c + r + s
    OBVIOUS
  <2>5. /\ cycle_count + remaining \in Nat /\ cycle_count + remaining' \in Nat
        /\ cycle_count + remaining' <= cycle_count + remaining + Steps(Head(debugger_queue))
    BY <1>0, <2>2, <2>3, <2>4
  <2> QED
    BY <1>0, <2>1, <2>2, <2>5, AccountTail
<1>2. CASE HandleStep
  <2>1. CASE debugger_queue = NoQueue
    BY <1>2, <2>1 DEF HandleStep, WithinGranted
  <2>2. CASE debugger_queue # NoQueue
    <3>1. Head(requests).count \in StepCounts
      <4>1. Head(requests) \in Requests /\ Head(requests).kind = "step"
        BY <1>0, <1>2 DEF HandleStep, NextIs, Shape, Typed
      <4> QED BY <4>1 DEF Requests, Get
    <3>2. /\ debugger_queue' = Append(debugger_queue, Head(requests).count)
          /\ granted' = granted + Steps(Head(requests).count)
          /\ UNCHANGED <<cycle_count, remaining>>
      BY <1>0, <1>2, <2>2 DEF HandleStep, Steps
    <3> QED
      BY <1>0, <2>2, <3>1, <3>2, AccountAppend
  <2> QED BY <2>1, <2>2
<1>3. CASE RunClock
  <2>1. /\ remaining = 0 /\ cycle_count = 0 /\ UNCHANGED <<remaining, cycle_count, granted>>
        /\ debugger_queue' \in {<<>>, NoQueue}
    BY <1>0, <1>3 DEF RunClock, Goto, Shape, RunsCommands, Starting
  <2>2. CASE debugger_queue' = NoQueue
    BY <2>2 DEF WithinGranted
  <2>3. CASE debugger_queue' = <<>>
    <3> DEFINE account == [k \in 0 .. 0 |-> 0]
    <3>1. /\ account \in [0 .. Len(debugger_queue') -> Nat] /\ account[0] = 0
          /\ Len(debugger_queue') = 0 /\ 1 .. 0 = {} /\ 0 .. 0 = {0}
      BY <2>3
    <3> HIDE DEF account
    <3>2. Balance(account, debugger_queue', cycle_count' + remaining', granted')
      BY <1>0, <2>1, <3>1 DEF Balance
    <3> QED
      BY <3>1, <3>2 DEF WithinGranted
  <2> QED BY <2>1, <2>2, <2>3
<1>4. CASE Cycle
  <2>1. /\ UNCHANGED <<debugger_queue, granted>> /\ cycle_count' = cycle_count + 1
        /\ debug => remaining > 0 /\ remaining' = remaining - 1
    BY <1>0, <1>4 DEF Cycle, Goto, Shape, RunsCommands
  <2>2. debug => /\ cycle_count + remaining \in Nat
                 /\ cycle_count' + remaining' = cycle_count + remaining
    BY <1>0, <2>1
  <2>3. debugger_queue # NoQueue =>
            /\ cycle_count + remaining \in Nat /\ cycle_count' + remaining' \in Nat
            /\ cycle_count' + remaining' <= cycle_count + remaining
    BY <1>0, <2>2
  <2> QED
    BY <1>0, <2>1, <2>3, AccountKept
<1>5. ASSUME UNCHANGED <<debugger_queue, granted, cycle_count>>, remaining' \in {0, remaining}
      PROVE  WithinGranted'
  <2>1. /\ cycle_count + remaining \in Nat /\ cycle_count' + remaining' \in Nat
        /\ cycle_count' + remaining' <= cycle_count + remaining
    <3>1. CASE remaining' = 0
      BY <1>0, <1>5, <3>1
    <3>2. CASE remaining' = remaining
      BY <1>0, <1>5, <3>2
    <3> QED BY <1>5, <3>1, <3>2
  <2> QED
    BY <1>0, <1>5, <2>1, AccountKept
<1>6. CASE \/ StartDebugger \/ StartController \/ StartTimer \/ Step \/ Check
           \/ StopTimer \/ JoinTimer \/ StopController \/ ShutdownServer \/ JoinServer
  BY <1>5, <1>6 DEF StartDebugger, StartController, StartTimer, Step, Check, StopTimer,
     JoinTimer, StopController, ShutdownServer, JoinServer, clock
<1>7. CASE \/ Interrupt \/ EndTimer \/ CrashTimer \/ ReadBody \/ RefuseStep \/ ReadRegisters
           \/ AnswerInternal \/ FailInternal \/ CloseServer
  BY <1>5, <1>7 DEF Interrupt, EndTimer, CrashTimer, ReadBody, RefuseStep, ReadRegisters,
     AnswerInternal, FailInternal, CloseServer, clock
<1>8. CASE Poll \/ Click \/ (\E k \in DOMAIN answers : Receive(k)) \/ UNCHANGED vars
  BY <1>5, <1>8 DEF Poll, Click, Receive, vars, clock
<1> QED
  BY <1>1, <1>2, <1>3, <1>4, <1>6, <1>7, <1>8
     DEF Next, MainStep, ServerStep, OthersAct

LEMMA InitShape ==
  ASSUME Init
  PROVE  Shape
<1>1. main \in Starting /\ main \notin Running /\ debugger_queue = NoQueue
  BY DEF Init, Starting, Running
<1>2. /\ debug \in BOOLEAN /\ shutdown \in BOOLEAN
      /\ timer = "new" /\ controller = "new"
      /\ remaining = 0 /\ granted = 0 /\ steps = 0 /\ cycle_count = 0
  BY DEF Init
<1>3. server.ip = 0 /\ server.pc \in {"new", "closed"} /\ (server.pc = "new" => debug)
  BY DEF Init, At
<1>4. <<>> \in Seq(Requests) /\ clicks \in 0 .. MaxClicks
  BY DebuggerAssumption DEF Init
<1>5. Fields
  BY <1>1, <1>2, <1>3, <1>4 DEF Fields
<1>6. TypeOK
  BY <1>1, <1>5, Zenon DEF TypeOK, Fields, Running
<1>7. Typed
  BY <1>1, <1>4, <1>6 DEF Init, Typed
<1>8. StartedInOrder /\ Counted /\ RunsCommands
  BY <1>1, <1>2, <1>3 DEF Init, StartedInOrder, Counted, RunsCommands, Starting, Running
<1> QED
  BY <1>7, <1>8 DEF Shape

LEMMA DebuggerInvariant == Spec => []DebuggerInv
<1>1. Init => DebuggerInv
  BY InitShape DEF Init, WithinGranted, DebuggerInv
<1>2. DebuggerInv /\ [Next]_vars => DebuggerInv'
  <2> SUFFICES ASSUME DebuggerInv, [Next]_vars PROVE DebuggerInv'
    OBVIOUS
  <2>1. Shape'
    BY MainKeepsShape, OthersKeepShape DEF DebuggerInv, Next, OthersAct
  <2> QED
    BY <2>1, StepsKeepAccount DEF DebuggerInv
<1> QED
  BY <1>1, <1>2, PTL DEF Spec

\* Every reachable state has the types of TypeOK, and there is a queue for commands
\* exactly while a machine with debugger runs its clock.
THEOREM DebuggerTypeOK == Spec => []TypeOK
<1>1. DebuggerInv => TypeOK
  BY DEF DebuggerInv, Shape, Typed
<1> QED
  BY <1>1, DebuggerInvariant, PTL

\* The CPU is driven only by the clock, between the start and the stop of the other
\* threads and never after SHUTDOWN; with the debugger never further than the steps
\* that its commands were granted, however many wait and whatever they ask for.
THEOREM DebuggerStepsAsAsked == Spec => StepsAsAsked
<1>1. DebuggerInv /\ [Next]_vars =>
         [cycle_count' # cycle_count =>
             /\ ~shutdown /\ timer # "new" /\ controller = "alive"
             /\ debug => server.pc # "new" /\ cycle_count' + remaining' <= granted]_vars
  <2> SUFFICES ASSUME DebuggerInv, Next, cycle_count' # cycle_count
               PROVE  /\ ~shutdown /\ timer # "new" /\ controller = "alive"
                      /\ debug => server.pc # "new" /\ cycle_count' + remaining' <= granted
    BY DEF vars, clock
  <2>1. Cycle
    BY DEF Next, MainStep, ServerStep, OthersAct, StartDebugger, StartController,
       StartTimer, RunClock,
       TakeCommand, Step, Check, StopTimer, JoinTimer, StopController, ShutdownServer,
       JoinServer, Interrupt, EndTimer, CrashTimer, ReadBody, HandleStep,
       RefuseStep, ReadRegisters, AnswerInternal, FailInternal, CloseServer, Poll, Click,
       Receive, clock
  <2>2. ~shutdown /\ timer # "new" /\ controller = "alive" /\ server.pc # "new"
    BY <2>1 DEF Cycle, Goto, DebuggerInv, Shape, RunsCommands, StartedInOrder, Running
  <2>3. ASSUME debug PROVE cycle_count' + remaining' <= granted
    <3>0. /\ debugger_queue # NoQueue /\ debugger_queue \in Seq(StepCounts)
          /\ cycle_count \in Nat /\ remaining \in Nat /\ granted \in Nat
          /\ cycle_count' = cycle_count + 1 /\ remaining' = remaining - 1
      <4>1. debugger_queue # NoQueue
        BY <2>1, <2>3, QueueWhileRunning DEF Cycle, Goto, DebuggerInv, Shape, Typed, Running
      <4> QED
        BY <2>1, <2>3, <4>1 DEF Cycle, Goto, DebuggerInv, Shape, Typed, TypeOK
    <3>1. /\ debugger_queue # NoQueue /\ debugger_queue \in Seq(StepCounts)
          /\ granted \in Nat /\ cycle_count' + remaining' = cycle_count + remaining
      BY <3>0
    <3>2. PICK account \in [0 .. Len(debugger_queue) -> Nat] :
             Balance(account, debugger_queue, cycle_count + remaining, granted)
      BY <3>1 DEF DebuggerInv, WithinGranted
    <3>3. 0 \in 0 .. Len(debugger_queue)
      BY <3>1
    <3> QED
      BY <3>1, <3>2, <3>3 DEF Balance
  <2> QED BY <2>2, <2>3
<1> QED
  BY <1>1, DebuggerInvariant, PTL DEF Spec, StepsAsAsked
=============================================================================

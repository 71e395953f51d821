------------------------- MODULE DeviceSessionProofs -------------------------
(***************************************************************************)
(* What is proved of DeviceSession for any devices, any number of runs,    *)
(* items and disturbances: the type invariant, that a device which the     *)
(* machine takes as registered answers its pings, what a device can lose   *)
(* its registration by, whose data the machine takes as whose, and that    *)
(* the data of a run arrives in order, each item once.  The invariants say *)
(* of every request in line what it still says of its sender: SessionInv   *)
(* who waits for it, RunInv of which run it is, KnownInv which             *)
(* registration its sender knew of, ItemInv which item it carries.         *)
(***************************************************************************)
EXTENDS DeviceSession, TLAPS

-----------------------------------------------------------------------------
(* Type correctness *)

ThreadType(pcs) == [Devices -> [pc : pcs, reply : Replies]]

\* The machine's part of TypeOK, that of the processes, and the requests.
MachineType ==
    /\ on \in BOOLEAN /\ registrations \in Nat /\ disturbances \in Nat
    /\ owner \in [{Port} -> Devices \union {NoDevice}]
    /\ queue \in [{Port} -> Seq(Devices)]
ProcessType ==
    /\ output_queue \in [Devices -> Seq(Nat)]
    /\ stop_event \in [Devices -> BOOLEAN] /\ listening \in [Devices -> BOOLEAN]
    /\ sent \in [Devices -> Nat] /\ run \in [Devices -> Nat] /\ known \in [Devices -> Nat]
    /\ last \in [Devices -> [run : Nat, number : Nat]]
    /\ fault \in [Devices -> BOOLEAN]

LEMMA TypeParts ==
  TypeOK <=> /\ MachineType /\ ProcessType /\ backlog \in Seq(Requests)
             /\ main \in ThreadType(MainPcs) /\ out \in ThreadType(OutPcs)
  BY DEF TypeOK, MachineType, ProcessType, ThreadType

\* A request as Post makes it is one; the threads then wait.
LEMMA PostType ==
  ASSUME backlog \in Seq(Requests), ProcessType, NEW d \in Devices, NEW t \in Threads,
         NEW c \in Commands, NEW n \in Nat, Post(d, t, c, n)
  PROVE  backlog' \in Seq(Requests)
<1> DEFINE r == [command |-> c, dev |-> d, thread |-> t, number |-> n,
                 wanted |-> TRUE, run |-> run[d], known |-> known[d]]
<1>1. run[d] \in Nat /\ known[d] \in Nat
  BY DEF ProcessType
<1>2. r \in Requests
  BY <1>1 DEF Requests
<1>3. backlog' = IF on THEN Append(backlog, r) ELSE backlog
  BY DEF Post
<1> HIDE DEF r
<1> QED
  BY <1>2, <1>3

LEMMA WaitingType ==
  ASSUME NEW pcs, NEW pc \in pcs, on \in BOOLEAN
  PROVE  /\ Waiting(pc) \in [pc : pcs, reply : Replies]
         /\ At(pc) \in [pc : pcs, reply : Replies]
  BY DEF Waiting, At, Replies

LEMMA UpdateType ==
  ASSUME NEW S, NEW f \in [Devices -> S], NEW d \in Devices, NEW v \in S
  PROVE  [f EXCEPT ![d] = v] \in [Devices -> S]
  OBVIOUS

\* Unwanted changes nothing but the flags.
LEMMA UnwantedType ==
  ASSUME backlog \in Seq(Requests), NEW d, NEW threads
  PROVE  /\ Unwanted(d, threads) \in Seq(Requests)
         /\ Len(Unwanted(d, threads)) = Len(backlog)
         /\ \A i \in 1 .. Len(backlog) :
               LET r == Unwanted(d, threads)[i]
               IN  /\ r.dev = backlog[i].dev /\ r.thread = backlog[i].thread
                   /\ r.command = backlog[i].command /\ r.number = backlog[i].number
                   /\ r.run = backlog[i].run /\ r.known = backlog[i].known
                   /\ r.wanted <=> backlog[i].wanted
                                   /\ ~(backlog[i].dev = d /\ backlog[i].thread \in threads)
<1>1. DOMAIN backlog = 1 .. Len(backlog) /\ Len(backlog) \in Nat
  OBVIOUS
<1>2. \A i \in 1 .. Len(backlog) : backlog[i] \in Requests
  OBVIOUS
<1> DEFINE U == Unwanted(d, threads)
<1>3. U = [i \in 1 .. Len(backlog) |->
              IF backlog[i].dev = d /\ backlog[i].thread \in threads
              THEN [backlog[i] EXCEPT !.wanted = FALSE] ELSE backlog[i]]
  BY <1>1 DEF Unwanted
<1>u. \A r \in Requests :
         LET u == [r EXCEPT !.wanted = FALSE]
         IN  /\ u \in Requests /\ u.wanted = FALSE
             /\ u.dev = r.dev /\ u.thread = r.thread /\ u.command = r.command
             /\ u.number = r.number /\ u.run = r.run /\ u.known = r.known
  BY DEF Requests
<1>4. \A i \in 1 .. Len(backlog) :
         /\ U[i] \in Requests
         /\ U[i].dev = backlog[i].dev /\ U[i].thread = backlog[i].thread
         /\ U[i].command = backlog[i].command /\ U[i].number = backlog[i].number
         /\ U[i].run = backlog[i].run /\ U[i].known = backlog[i].known
         /\ U[i].wanted <=> backlog[i].wanted
                            /\ ~(backlog[i].dev = d /\ backlog[i].thread \in threads)
  <2> SUFFICES ASSUME NEW i \in 1 .. Len(backlog)
               PROVE  /\ U[i] \in Requests
                      /\ U[i].dev = backlog[i].dev /\ U[i].thread = backlog[i].thread
                      /\ U[i].command = backlog[i].command /\ U[i].number = backlog[i].number
                      /\ U[i].run = backlog[i].run /\ U[i].known = backlog[i].known
                      /\ U[i].wanted <=> backlog[i].wanted
                                         /\ ~(backlog[i].dev = d /\ backlog[i].thread \in threads)
    OBVIOUS
  <2>0. backlog[i] \in Requests
    BY <1>2
  <2>1. CASE backlog[i].dev = d /\ backlog[i].thread \in threads
    <3>1. U[i] = [backlog[i] EXCEPT !.wanted = FALSE]
      BY <2>1, <1>3
    <3> QED
      BY <2>0, <2>1, <3>1, <1>u
  <2>2. CASE ~(backlog[i].dev = d /\ backlog[i].thread \in threads)
    <3>1. U[i] = backlog[i]
      BY <2>2, <1>3
    <3> QED
      BY <2>0, <2>2, <3>1
  <2> QED
    BY <2>1, <2>2
<1>5. U \in Seq(Requests) /\ Len(U) = Len(backlog)
  BY <1>1, <1>3, <1>4
<1> QED
  BY <1>4, <1>5

\* What an answer does to the threads.
LEMMA AnswerType ==
  ASSUME TypeOK, backlog # <<>>, NEW reply \in Replies, Answer(Head(backlog), reply)
  PROVE  /\ main' \in ThreadType(MainPcs) /\ out' \in ThreadType(OutPcs)
         /\ Head(backlog) \in Requests /\ Tail(backlog) \in Seq(Requests)
<1>1. Head(backlog) \in Requests /\ Tail(backlog) \in Seq(Requests)
  BY DEF TypeOK
<1>2. main \in ThreadType(MainPcs) /\ out \in ThreadType(OutPcs)
  BY TypeParts
<1> QED
  BY <1>1, <1>2 DEF Answer, ThreadType, Requests

\* Every reachable state has the types of TypeOK.
THEOREM DeviceSessionTypeOK == Spec => []TypeOK
<1>1. Init => TypeOK
  BY DeviceSessionAssumption DEF Init, IOPort!Init, TypeOK, At, MainPcs, OutPcs, Replies
<1>2. TypeOK /\ [Next]_vars => TypeOK'
  <2> SUFFICES ASSUME TypeOK, [Next]_vars
               PROVE  /\ MachineType' /\ ProcessType' /\ backlog' \in Seq(Requests)
                      /\ main' \in ThreadType(MainPcs) /\ out' \in ThreadType(OutPcs)
    BY DEF TypeOK, MachineType, ProcessType, ThreadType
  <2>0. /\ MachineType /\ ProcessType /\ backlog \in Seq(Requests)
        /\ main \in ThreadType(MainPcs) /\ out \in ThreadType(OutPcs)
    BY TypeParts
  <2>p. /\ MainPcs = {"off", "register", "registering", "running", "unregistering", "stop", "join"}
        /\ OutPcs = {"get", "sending", "done", "crashed"}
        /\ Commands = {"register", "unregister", "data"} /\ Threads = {"main", "out"}
    BY DEF MainPcs, OutPcs, Commands, Threads
  <2>w. /\ on \in BOOLEAN
        /\ \A pc \in MainPcs : /\ At(pc) \in [pc : MainPcs, reply : Replies]
                               /\ Waiting(pc) \in [pc : MainPcs, reply : Replies]
        /\ \A pc \in OutPcs : /\ At(pc) \in [pc : OutPcs, reply : Replies]
                              /\ Waiting(pc) \in [pc : OutPcs, reply : Replies]
    BY <2>0, WaitingType DEF MachineType
  <2>1. CASE Serve
    <3>1. ASSUME NEW reply \in Replies, backlog # <<>>, Answer(Head(backlog), reply)
          PROVE  /\ main' \in ThreadType(MainPcs) /\ out' \in ThreadType(OutPcs)
                 /\ Head(backlog) \in Requests /\ Tail(backlog) \in Seq(Requests)
      BY <3>1, AnswerType
    <3>2. "ok" \in Replies /\ "forbidden" \in Replies
      BY DEF Replies
    <3>3. CASE ServeRegister
      <4>1. /\ main' \in ThreadType(MainPcs) /\ out' \in ThreadType(OutPcs)
            /\ Head(backlog) \in Requests /\ backlog' \in Seq(Requests)
        BY <3>1, <3>2, <3>3 DEF ServeRegister, ServeOnly
      <4>2. Head(backlog).dev \in Devices /\ Head(backlog).run \in Nat
        BY <4>1 DEF Requests
      <4>3. MachineType'
        BY <3>3, <4>2, <2>0 DEF ServeRegister, ServeOnly, IOPort!Register, MachineType
      <4>4. known' \in [Devices -> Nat]
        <5>1. known \in [Devices -> Nat] /\ registrations' \in Nat
          BY <2>0, <4>3 DEF ProcessType, MachineType
        <5> QED
          BY <3>3, <4>2, <5>1 DEF ServeRegister
      <4>5. ProcessType'
        BY <3>3, <4>4, <2>0 DEF ServeRegister, ServeOnly, ProcessType
      <4> QED
        BY <4>1, <4>3, <4>5
    <3>4. CASE ServeUnregister
      BY <3>1, <3>2, <3>4, <2>0 DEF ServeUnregister, ServeOnly, IOPort!Unregister, MachineType,
         ProcessType
    <3>5. CASE ServeData
      <4>1. /\ main' \in ThreadType(MainPcs) /\ out' \in ThreadType(OutPcs)
            /\ Head(backlog) \in Requests /\ backlog' \in Seq(Requests)
        BY <3>1, <3>2, <3>5 DEF ServeData, ServeOnly
      <4>2. /\ Head(backlog).dev \in Devices
            /\ [run |-> Head(backlog).run, number |-> Head(backlog).number]
                  \in [run : Nat, number : Nat]
        BY <4>1 DEF Requests
      <4>3. MachineType'
        <5>1. queue[Port] \in Seq(Devices)
          BY <2>0 DEF MachineType
        <5>2. Append(queue[Port], Head(backlog).dev) \in Seq(Devices)
          BY <4>2, <5>1
        <5> QED
          BY <3>5, <5>2, <2>0 DEF ServeData, ServeOnly, IOPort!Accept, MachineType
      <4>4. ProcessType'
        BY <3>5, <4>2, <2>0, ZenonT(30) DEF ServeData, ServeOnly, ProcessType
      <4> QED
        BY <4>1, <4>3, <4>4
    <3> QED
      BY <2>1, <3>3, <3>4, <3>5 DEF Serve
  <2>2. ASSUME NEW d \in Devices, MainStep(d)
        PROVE  /\ MachineType' /\ ProcessType' /\ backlog' \in Seq(Requests)
               /\ main' \in ThreadType(MainPcs) /\ out' \in ThreadType(OutPcs)
    <3>1. CASE Register(d)
      BY <3>1, <2>0, <2>p, <2>w, PostType DEF Register, MainOnly, machine, MachineType,
         ProcessType, ThreadType
    <3>2. ASSUME NEW pc \in MainPcs, MainGoto(d, pc)
          PROVE  main' \in ThreadType(MainPcs)
      BY <3>2, <2>0, <2>w, UpdateType DEF MainGoto, ThreadType
    <3>3. CASE Registered(d)
      <4>1. PICK pc \in {"running", "register"} : MainGoto(d, pc)
        BY <3>3 DEF Registered
      <4> QED
        BY <3>2, <3>3, <4>1, <2>0, <2>p DEF Registered, MainOnly,
           machine, MachineType, ProcessType
    <3>4. CASE Unregistered(d)
      BY <3>2, <3>4, <2>0, <2>p DEF Unregistered, MainOnly, machine, MachineType, ProcessType
    <3>5. CASE JoinOutput(d)
      BY <3>2, <3>5, <2>0, <2>p DEF JoinOutput, MainOnly, machine, MachineType, ProcessType
    <3>6. CASE Stop(d)
      BY <3>2, <3>6, <2>0, <2>p DEF Stop, machine, MachineType, ProcessType
    <3> QED
      BY <2>2, <3>1, <3>3, <3>4, <3>5, <3>6 DEF MainStep
  <2>3. ASSUME NEW d \in Devices, User(d)
        PROVE  /\ MachineType' /\ ProcessType' /\ backlog' \in Seq(Requests)
               /\ main' \in ThreadType(MainPcs) /\ out' \in ThreadType(OutPcs)
    <3>1. CASE Start(d)
      <4>1. main' \in ThreadType(MainPcs) /\ out' \in ThreadType(OutPcs)
        BY <3>1, <2>0, <2>p, <2>w, UpdateType DEF Start, ThreadType
      <4>2. MachineType' /\ backlog' \in Seq(Requests)
        BY <3>1, <2>0 DEF Start, machine, MachineType
      <4>3. run[d] + 1 \in Nat /\ <<>> \in Seq(Nat)
        BY <2>0 DEF ProcessType
      <4>4. ProcessType'
        BY <3>1, <4>3, <2>0 DEF Start, ProcessType
      <4> QED
        BY <4>1, <4>2, <4>4
    <3>2. CASE InterruptRegistering(d)
      BY <3>2, <2>0, <2>p, <2>w, UnwantedType DEF InterruptRegistering, MainGoto, MainOnly,
         machine, MachineType, ProcessType, ThreadType
    <3>3. CASE SendData(d)
      <4>1. Append(output_queue[d], sent[d] + 1) \in Seq(Nat) /\ sent[d] + 1 \in Nat
        BY <2>0 DEF ProcessType
      <4> QED
        BY <3>3, <4>1, <2>0 DEF SendData, machine, MachineType, ProcessType, ThreadType
    <3>4. CASE RunEnds(d)
      BY <3>4, <2>0, <2>p, <2>w, PostType DEF RunEnds, MainOnly, machine, MachineType,
         ProcessType, ThreadType
    <3> QED
      BY <2>3, <3>1, <3>2, <3>3, <3>4 DEF User
  <2>4. ASSUME NEW d \in Devices, OutStep(d)
        PROVE  /\ MachineType' /\ ProcessType' /\ backlog' \in Seq(Requests)
               /\ main' \in ThreadType(MainPcs) /\ out' \in ThreadType(OutPcs)
    <3>1. CASE Send(d)
      <4>1. Head(output_queue[d]) \in Nat /\ Tail(output_queue[d]) \in Seq(Nat)
        BY <3>1, <2>0 DEF Send, ProcessType
      <4>2. backlog' \in Seq(Requests)
        BY <3>1, <4>1, <2>0, <2>p, PostType DEF Send
      <4> QED
        BY <3>1, <4>1, <4>2, <2>0, <2>p, <2>w DEF Send, OutOnly, machine, MachineType,
           ProcessType, ThreadType
    <3>2. ASSUME NEW pc \in OutPcs, out' = [out EXCEPT ![d] = At(pc)]
          PROVE  out' \in ThreadType(OutPcs)
      BY <3>2, <2>0, <2>w, UpdateType DEF ThreadType
    <3>3. CASE Sent(d)
      <4>1. PICK pc \in {"get", "crashed"} : out' = [out EXCEPT ![d] = At(pc)]
        BY <3>3 DEF Sent
      <4> QED
        BY <3>2, <3>3, <4>1, <2>0, <2>p DEF Sent, OutOnly, machine, MachineType, ProcessType
    <3>4. CASE StopCheck(d)
      BY <3>2, <3>4, <2>0, <2>p DEF StopCheck, OutOnly, machine, MachineType, ProcessType
    <3> QED
      BY <2>4, <3>1, <3>3, <3>4 DEF OutStep
  <2>5. CASE Read
    <3>1. queue[Port] \in Seq(Devices) /\ queue[Port] # <<>>
      BY <2>5, <2>0 DEF Read, IOPort!Read, MachineType
    <3>2. Tail(queue[Port]) \in Seq(Devices)
      BY <3>1
    <3>3. MachineType'
      BY <2>5, <2>0, <3>2 DEF Read, IOPort!Read, MachineType
    <3> QED
      BY <2>5, <2>0, <3>3 DEF Read, process, ProcessType, ThreadType
  <2>6. CASE SwitchOff
    <3>1. ASSUME NEW t, NEW pcs, NEW waits, t \in ThreadType(pcs)
          PROVE  [d \in Devices |-> IF t[d].pc \in waits /\ t[d].reply = "none"
                                    THEN [t[d] EXCEPT !.reply = "error"] ELSE t[d]]
                    \in ThreadType(pcs)
      BY <3>1 DEF ThreadType, Replies
    <3>2. main' \in ThreadType(MainPcs) /\ out' \in ThreadType(OutPcs)
      BY <2>6, <2>0, <3>1 DEF SwitchOff
    <3>3. owner' \in [{Port} -> Devices \union {NoDevice}]
      BY <2>6, <2>0 DEF SwitchOff, MachineType
    <3>4. queue' \in [{Port} -> Seq(Devices)]
      <4>1. <<>> \in Seq(Devices)
        OBVIOUS
      <4> QED
        BY <2>6, <2>0, <4>1 DEF SwitchOff, MachineType
    <3>5. MachineType' /\ backlog' \in Seq(Requests)
      <4>1. <<>> \in Seq(Requests)
        OBVIOUS
      <4>2. backlog' \in Seq(Requests)
        BY <2>6, <4>1 DEF SwitchOff
      <4>3. MachineType'
        <5>1. on' = FALSE /\ disturbances' = disturbances + 1 /\ registrations' = registrations
          BY <2>6 DEF SwitchOff, Disturb
        <5> QED
          <6>1. on' \in BOOLEAN
            BY <5>1
          <6>2. disturbances' \in Nat
            BY <5>1, <2>0 DEF MachineType
          <6>3. registrations' \in Nat
            BY <5>1, <2>0 DEF MachineType
          <6> QED
            BY <6>1, <6>2, <6>3, <3>3, <3>4 DEF MachineType
      <4> QED
        BY <4>2, <4>3
    <3>6. ProcessType'
      BY <2>6, <2>0 DEF SwitchOff, ProcessType
    <3> QED
      BY <3>2, <3>5, <3>6
  <2>7. CASE SwitchOn
    BY <2>7, <2>0 DEF SwitchOn, process, MachineType, ProcessType, ThreadType
  <2>8. ASSUME NEW d \in Devices, BreakConnection(d)
        PROVE  /\ MachineType' /\ ProcessType' /\ backlog' \in Seq(Requests)
               /\ main' \in ThreadType(MainPcs) /\ out' \in ThreadType(OutPcs)
    <3>1. MachineType' /\ backlog' \in Seq(Requests)
      BY <2>8, <2>0, UnwantedType DEF BreakConnection, Disturb, machine, MachineType
    <3>2. ProcessType'
      BY <2>8, <2>0 DEF BreakConnection, ProcessType
    <3>3. ASSUME NEW t, NEW pcs, t \in ThreadType(pcs)
          PROVE  [t EXCEPT ![d].reply = "error"] \in ThreadType(pcs)
      BY <3>3 DEF ThreadType, Replies
    <3>4. main' \in ThreadType(MainPcs) /\ out' \in ThreadType(OutPcs)
      <4>1. CASE main' = [main EXCEPT ![d].reply = "error"] /\ UNCHANGED out
        BY <2>0, <3>3, <4>1
      <4>2. CASE out' = [out EXCEPT ![d].reply = "error"] /\ UNCHANGED main
        BY <2>0, <3>3, <4>2
      <4> QED
        BY <2>8, <4>1, <4>2 DEF BreakConnection
    <3> QED
      BY <3>1, <3>2, <3>4
  <2>9. ASSUME NEW d \in Devices, Kill(d)
        PROVE  /\ MachineType' /\ ProcessType' /\ backlog' \in Seq(Requests)
               /\ main' \in ThreadType(MainPcs) /\ out' \in ThreadType(OutPcs)
    <3>1. MachineType' /\ backlog' \in Seq(Requests)
      BY <2>9, <2>0, UnwantedType DEF Kill, Disturb, machine, MachineType
    <3>2. ProcessType'
      BY <2>9, <2>0 DEF Kill, ProcessType
    <3>3. main' \in ThreadType(MainPcs) /\ out' \in ThreadType(OutPcs)
      BY <2>9, <2>0, <2>p, <2>w, UpdateType DEF Kill, ThreadType
    <3> QED
      BY <3>1, <3>2, <3>3
  <2>10. CASE UNCHANGED vars
    BY <2>10, <2>0 DEF vars, machine, process, MachineType, ProcessType, ThreadType
  <2> QED
    BY <2>1, <2>2, <2>3, <2>4, <2>5, <2>6, <2>7, <2>8, <2>9, <2>10 DEF Next, Disturbance
<1> QED
  BY <1>1, <1>2, PTL DEF Spec

-----------------------------------------------------------------------------
(* Registered devices answer *)

ForMain(r) == r.wanted /\ r.thread = "main"
WaitsFor(command) == IF command = "register" THEN "registering" ELSE "unregistering"

\* What a request that is still to be handled says of its sender.
Fits(r, m, f) ==
    /\ r.thread = "main" <=> r.command # "data"
    /\ ForMain(r) => m[r.dev].pc = WaitsFor(r.command) /\ m[r.dev].reply = "none"
    /\ r.command = "register" /\ ~f[r.dev] => r.wanted
AllFit(b, m, f) == \A i \in 1 .. Len(b) : Fits(b[i], m, f)

\* The main thread of a device waits for at most one of them.
OneWaitedFor(b) ==
    \A i, j \in 1 .. Len(b) :
        ForMain(b[i]) /\ ForMain(b[j]) /\ b[i].dev = b[j].dev => i = j

\* Without a fault a device is registered only while it believes so, or is about to learn it.
Believes(m) == \/ m.pc = "registering" /\ m.reply = "ok"
               \/ m.pc = "running"
               \/ m.pc = "unregistering" /\ m.reply = "none"
OwnerBelieves ==
    \A d \in Devices : owner[Port] = d /\ ~fault[d] => Believes(main[d])

ListensWhileUp ==
    \A d \in Devices :
        main[d].pc \in {"register", "registering", "running", "unregistering"} => listening[d]

OffIsEmpty == ~on => owner[Port] = NoDevice /\ backlog = <<>>

SessionInv == /\ AllFit(backlog, main, fault) /\ OneWaitedFor(backlog)
              /\ OwnerBelieves /\ ListensWhileUp /\ OffIsEmpty

-----------------------------------------------------------------------------
(* The requests keep fitting: what the steps do to the backlog *)

\* A device whose main thread waits for nothing has no request it waits for.
LEMMA NoneWaits ==
  ASSUME backlog \in Seq(Requests), AllFit(backlog, main, fault), NEW d \in Devices,
         ~(main[d].pc \in {"registering", "unregistering"} /\ main[d].reply = "none")
  PROVE  \A i \in 1 .. Len(backlog) : ~(ForMain(backlog[i]) /\ backlog[i].dev = d)
  BY DEF AllFit, Fits, WaitsFor

\* Requests that stay where they are, some of them no longer waited for.
LEMMA FitStay ==
  ASSUME NEW b \in Seq(Requests), NEW c \in Seq(Requests), NEW m, NEW f, NEW m2, NEW f2,
         AllFit(b, m, f), OneWaitedFor(b), Len(c) = Len(b),
         \A i \in 1 .. Len(b) :
            /\ c[i].dev = b[i].dev /\ c[i].thread = b[i].thread /\ c[i].command = b[i].command
            /\ c[i].wanted => b[i].wanted
            /\ ForMain(c[i]) => m2[c[i].dev] = m[c[i].dev]
            /\ c[i].command = "register" /\ ~f2[c[i].dev] /\ b[i].wanted =>
                  c[i].wanted
            /\ c[i].command = "register" /\ ~f2[c[i].dev] => ~f[c[i].dev]
  PROVE  AllFit(c, m2, f2) /\ OneWaitedFor(c)
<1>1. ASSUME NEW i \in 1 .. Len(c) PROVE Fits(c[i], m2, f2)
  <2>1. Fits(b[i], m, f) /\ (ForMain(c[i]) => ForMain(b[i]))
    BY DEF AllFit, ForMain
  <2> QED
    BY <2>1 DEF Fits, ForMain
<1>2. OneWaitedFor(c)
  BY DEF OneWaitedFor, ForMain
<1> QED
  BY <1>1, <1>2 DEF AllFit

\* The oldest request is taken, and its sender told.
LEMMA FitTail ==
  ASSUME NEW b \in Seq(Requests), NEW m, NEW f, NEW m2, b # <<>>,
         AllFit(b, m, f), OneWaitedFor(b),
         \A d \in Devices : m2[d] = m[d] \/ (ForMain(Head(b)) /\ Head(b).dev = d)
  PROVE  AllFit(Tail(b), m2, f) /\ OneWaitedFor(Tail(b))
<1>1. /\ Tail(b) \in Seq(Requests) /\ Len(Tail(b)) = Len(b) - 1 /\ Head(b) = b[1]
      /\ Len(b) \in Nat \ {0}
      /\ \A i \in 1 .. Len(b) - 1 : Tail(b)[i] = b[i + 1]
  OBVIOUS
<1>2. ASSUME NEW i \in 1 .. Len(Tail(b)) PROVE Fits(Tail(b)[i], m2, f)
  <2>1. i + 1 \in 1 .. Len(b) /\ i + 1 # 1 /\ 1 \in 1 .. Len(b) /\ Tail(b)[i] = b[i + 1]
    BY <1>1
  <2>2. Fits(b[i + 1], m, f) /\ b[i + 1].dev \in Devices
    <3>1. b[i + 1] \in Requests
      BY <2>1
    <3> QED
      BY <2>1, <3>1 DEF AllFit, Requests
  <2>3. ForMain(b[i + 1]) => m2[b[i + 1].dev] = m[b[i + 1].dev]
    BY <1>1, <2>1, <2>2 DEF OneWaitedFor
  <2> QED
    BY <2>1, <2>2, <2>3 DEF Fits
<1>3. OneWaitedFor(Tail(b))
  <2> SUFFICES ASSUME NEW i \in 1 .. Len(Tail(b)), NEW j \in 1 .. Len(Tail(b)),
                      ForMain(Tail(b)[i]), ForMain(Tail(b)[j]), Tail(b)[i].dev = Tail(b)[j].dev
               PROVE  i = j
    BY DEF OneWaitedFor
  <2>1. i + 1 \in 1 .. Len(b) /\ j + 1 \in 1 .. Len(b)
        /\ Tail(b)[i] = b[i + 1] /\ Tail(b)[j] = b[j + 1]
    BY <1>1
  <2>2. i + 1 = j + 1
    BY <2>1 DEF OneWaitedFor
  <2> QED
    BY <2>2, <1>1
<1> QED
  BY <1>2, <1>3 DEF AllFit

\* A request joins the end of the line.
LEMMA FitAppend ==
  ASSUME NEW b \in Seq(Requests), NEW r \in Requests, NEW m, NEW f,
         AllFit(b, m, f), OneWaitedFor(b), Fits(r, m, f),
         ForMain(r) => \A i \in 1 .. Len(b) : ~(ForMain(b[i]) /\ b[i].dev = r.dev)
  PROVE  AllFit(Append(b, r), m, f) /\ OneWaitedFor(Append(b, r))
<1> DEFINE c == Append(b, r)
<1>1. /\ Len(c) = Len(b) + 1 /\ Len(b) \in Nat /\ c[Len(b) + 1] = r
      /\ \A i \in 1 .. Len(b) : c[i] = b[i]
      /\ \A i \in 1 .. Len(c) : i \in 1 .. Len(b) \/ i = Len(b) + 1
  OBVIOUS
<1> HIDE DEF c
<1>2. \A i \in 1 .. Len(c) : Fits(c[i], m, f)
  BY <1>1 DEF AllFit
<1>3. OneWaitedFor(c)
  BY <1>1 DEF OneWaitedFor
<1>4. AllFit(c, m, f) /\ OneWaitedFor(c)
  BY <1>2, <1>3 DEF AllFit
<1> QED
  BY <1>4 DEF c

\* The main thread of d, that waits for nothing, sends a request or moves on.
LEMMA FitMain ==
  ASSUME backlog \in Seq(Requests), ProcessType, main \in ThreadType(MainPcs),
         AllFit(backlog, main, fault), OneWaitedFor(backlog),
         NEW d \in Devices, NEW v, main' = [main EXCEPT ![d] = v],
         \A i \in 1 .. Len(backlog) : ~(ForMain(backlog[i]) /\ backlog[i].dev = d)
  PROVE  AllFit(backlog, main', fault)
<1>1. ASSUME NEW i \in 1 .. Len(backlog)
      PROVE  ForMain(backlog[i]) => main'[backlog[i].dev] = main[backlog[i].dev]
  <2>1. backlog[i].dev \in Devices
    <3>1. backlog[i] \in Requests
      OBVIOUS
    <3> QED
      BY <3>1 DEF Requests
  <2> QED
    BY <2>1 DEF ThreadType
<1>2. Len(backlog) = Len(backlog)
  OBVIOUS
<1> QED
  BY <1>1, FitStay

LEMMA FitPost ==
  ASSUME backlog \in Seq(Requests), ProcessType, main \in ThreadType(MainPcs), on \in BOOLEAN,
         AllFit(backlog, main, fault), OneWaitedFor(backlog),
         NEW d \in Devices, NEW c \in {"register", "unregister"},
         Post(d, "main", c, 0), main' = [main EXCEPT ![d] = Waiting(WaitsFor(c))],
         \A i \in 1 .. Len(backlog) : ~(ForMain(backlog[i]) /\ backlog[i].dev = d)
  PROVE  AllFit(backlog', main', fault) /\ OneWaitedFor(backlog')
<1> DEFINE r == [command |-> c, dev |-> d, thread |-> "main", number |-> 0,
                 wanted |-> TRUE, run |-> run[d], known |-> known[d]]
<1>1. AllFit(backlog, main', fault)
  BY FitMain
<1>2. CASE ~on
  BY <1>1, <1>2 DEF Post
<1>3. CASE on
  <2>1. r \in Requests
    <3>1. run[d] \in Nat /\ known[d] \in Nat
      BY DEF ProcessType
    <3> QED
      BY <3>1 DEF Requests, Commands, Threads
  <2>2. main'[d] = [pc |-> WaitsFor(c), reply |-> "none"]
    BY <1>3 DEF Waiting, ThreadType
  <2>3. Fits(r, main', fault)
    BY <2>2 DEF Fits, ForMain
  <2>4. backlog' = Append(backlog, r) /\ r.dev = d
    BY <1>3 DEF Post
  <2> HIDE DEF r
  <2> QED
    BY <1>1, <2>1, <2>3, <2>4, FitAppend
<1> QED
  BY <1>2, <1>3

\* The sender no longer waits for its request of these threads.
LEMMA FitUnwanted ==
  ASSUME backlog \in Seq(Requests), NEW d \in Devices, NEW threads, NEW m2, NEW f2,
         AllFit(backlog, main, fault), OneWaitedFor(backlog),
         \A e \in Devices \ {d} : m2[e] = main[e] /\ f2[e] = fault[e],
         "main" \in threads \/ (m2[d] = main[d] /\ threads = {"out"}),
         ~f2[d] => /\ ~fault[d]
                   /\ \/ threads = {"out"}
                      \/ \A i \in 1 .. Len(backlog) : ~(ForMain(backlog[i]) /\ backlog[i].dev = d)
  PROVE  AllFit(Unwanted(d, threads), m2, f2) /\ OneWaitedFor(Unwanted(d, threads))
<1> DEFINE U == Unwanted(d, threads)
<1>1. /\ U \in Seq(Requests) /\ Len(U) = Len(backlog)
      /\ \A i \in 1 .. Len(backlog) :
            /\ U[i].dev = backlog[i].dev /\ U[i].thread = backlog[i].thread
            /\ U[i].command = backlog[i].command
            /\ U[i].wanted <=> backlog[i].wanted
                               /\ ~(backlog[i].dev = d /\ backlog[i].thread \in threads)
  BY UnwantedType
<1> HIDE DEF U
<1>2. ASSUME NEW i \in 1 .. Len(backlog)
      PROVE  /\ U[i].wanted => backlog[i].wanted
             /\ ForMain(U[i]) => m2[U[i].dev] = main[U[i].dev]
             /\ U[i].command = "register" /\ ~f2[U[i].dev] /\ backlog[i].wanted => U[i].wanted
             /\ U[i].command = "register" /\ ~f2[U[i].dev] => ~fault[U[i].dev]
  <2>1. backlog[i].dev \in Devices
    <3>1. backlog[i] \in Requests
      OBVIOUS
    <3> QED
      BY <3>1 DEF Requests
  <2>2. Fits(backlog[i], main, fault)
    BY DEF AllFit
  <2> QED
    BY <1>1, <2>1, <2>2 DEF Fits, ForMain
<1>3. AllFit(U, m2, f2) /\ OneWaitedFor(U)
  BY <1>1, <1>2, FitStay
<1> QED
  BY <1>3 DEF U

-----------------------------------------------------------------------------
(* Every step keeps SessionInv *)

Typed == /\ MachineType /\ ProcessType /\ backlog \in Seq(Requests)
         /\ main \in ThreadType(MainPcs) /\ out \in ThreadType(OutPcs)

LEMMA TypedStep ==
  ASSUME TypeOK, TypeOK'
  PROVE  Typed /\ Typed'
<1>1. Typed
  BY TypeParts DEF Typed
<1>2. Typed'
  BY DEF TypeOK, Typed, MachineType, ProcessType, ThreadType
<1> QED
  BY <1>1, <1>2

\* Steps that touch neither a request nor what it fits.
LEMMA SessionQuiet ==
  ASSUME SessionInv, UNCHANGED <<on, owner, backlog, main, fault, listening>>
  PROVE  SessionInv'
  BY DEF SessionInv, OwnerBelieves, ListensWhileUp, OffIsEmpty

\* The machine handles a request: its sender is told, if it still waits.
LEMMA SessionServe ==
  ASSUME Typed, SessionInv, Serve
  PROVE  SessionInv'
<1> DEFINE r == Head(backlog)
<1>1. /\ backlog # <<>> /\ r \in Requests /\ r.dev \in Devices /\ backlog' = Tail(backlog)
      /\ UNCHANGED <<on, listening, fault>> /\ on
  <2>1. backlog # <<>> /\ backlog' = Tail(backlog) /\ UNCHANGED <<on, listening, fault>> /\ on
    BY DEF Serve, ServeRegister, ServeUnregister, ServeData, ServeOnly
  <2>2. r \in Requests
    BY <2>1 DEF Typed
  <2> QED
    BY <2>1, <2>2 DEF Requests
<1>2. PICK reply \in {"ok", "forbidden"} : Answer(r, reply)
  BY DEF Serve, ServeRegister, ServeUnregister, ServeData
<1>3. /\ \A d \in Devices : main'[d] = main[d] \/ (ForMain(r) /\ r.dev = d)
      /\ \A d \in Devices : main'[d].pc = main[d].pc
      /\ ForMain(r) => main'[r.dev].reply = reply
  BY <1>1, <1>2 DEF Answer, ForMain, Typed, ThreadType
<1>4. Fits(r, main, fault)
  <2>1. 1 \in 1 .. Len(backlog) /\ r = backlog[1]
    BY <1>1 DEF Typed
  <2> QED
    BY <2>1 DEF SessionInv, AllFit
<1>5. AllFit(backlog', main', fault') /\ OneWaitedFor(backlog')
  <2>1. AllFit(Tail(backlog), main', fault) /\ OneWaitedFor(Tail(backlog))
    BY <1>1, <1>3, FitTail DEF Typed, SessionInv
  <2> QED
    BY <2>1, <1>1
<1>6. OwnerBelieves'
  <2> SUFFICES ASSUME NEW d \in Devices, owner'[Port] = d, ~fault[d]
               PROVE  Believes(main'[d])
    BY <1>1 DEF OwnerBelieves
  <2>1. CASE ServeRegister
    <3>1. CASE owner' = owner
      <4>1. Believes(main[d])
        BY <3>1 DEF SessionInv, OwnerBelieves
      <4>2. ForMain(r) => r.dev # d
        BY <2>1, <1>4, <4>1 DEF Fits, WaitsFor, Believes, ServeRegister
      <4> QED
        BY <1>3, <4>1, <4>2
    <3>2. CASE owner' # owner
      <4>1. /\ IOPort!Register(Port, r.dev) /\ Answer(r, "ok") /\ r.command = "register"
        BY <2>1, <3>2 DEF ServeRegister
      <4>2. r.dev = d
        BY <4>1 DEF IOPort!Register, Typed, MachineType
      <4>3. ForMain(r) /\ main[d].pc = "registering"
        BY <4>1, <4>2, <1>4 DEF Fits, ForMain, WaitsFor
      <4>4. main'[d].pc = "registering" /\ main'[d].reply = "ok"
        <5>1. main' = [main EXCEPT ![d].reply = "ok"]
          BY <4>1, <4>2, <4>3 DEF Answer, ForMain
        <5> QED
          BY <5>1, <4>3 DEF Typed, ThreadType
      <4> QED
        BY <4>4 DEF Believes
    <3> QED
      BY <3>1, <3>2
  <2>2. CASE ServeUnregister
    <3>1. owner'[Port] = NoDevice
      BY <2>2 DEF ServeUnregister, IOPort!Unregister, Typed, MachineType
    <3> QED
      BY <3>1, DeviceSessionAssumption
  <2>3. CASE ServeData
    <3>1. owner' = owner /\ r.command = "data"
      BY <2>3 DEF ServeData, IOPort!Accept
    <3>2. main'[d] = main[d]
      BY <1>3, <1>4, <3>1 DEF Fits, ForMain
    <3> QED
      BY <3>1, <3>2 DEF SessionInv, OwnerBelieves
  <2> QED
    BY <2>1, <2>2, <2>3 DEF Serve
<1>7. ListensWhileUp'
  BY <1>1, <1>3 DEF SessionInv, ListensWhileUp
<1>8. OffIsEmpty'
  BY <1>1 DEF OffIsEmpty
<1> QED
  BY <1>5, <1>6, <1>7, <1>8 DEF SessionInv

\* The main thread of d moves on, or sends a request: it waits for no other.
LEMMA SessionMain ==
  ASSUME Typed, SessionInv, NEW d \in Devices, NEW v,
         main' = [main EXCEPT ![d] = v],
         ~(main[d].pc \in {"registering", "unregistering"} /\ main[d].reply = "none"),
         UNCHANGED <<on, owner, fault>>, listening' \in [Devices -> BOOLEAN],
         \A e \in Devices \ {d} : listening'[e] = listening[e],
         \/ backlog' = backlog
         \/ \E c \in {"register", "unregister"} :
               Post(d, "main", c, 0) /\ v = Waiting(WaitsFor(c)),
         v.pc \in {"register", "registering", "running", "unregistering"} => listening'[d],
         owner[Port] = d /\ ~fault[d] => Believes(v)
  PROVE  SessionInv'
<1>1. /\ \A i \in 1 .. Len(backlog) : ~(ForMain(backlog[i]) /\ backlog[i].dev = d)
      /\ on \in BOOLEAN
  BY NoneWaits DEF Typed, SessionInv, MachineType
<1>2. AllFit(backlog', main', fault') /\ OneWaitedFor(backlog')
  <2>1. CASE backlog' = backlog
    BY <2>1, <1>1, FitMain DEF Typed, SessionInv
  <2>2. CASE backlog' # backlog
    BY <2>2, <1>1, FitPost DEF Typed, SessionInv
  <2> QED
    BY <2>1, <2>2
<1>3. main'[d] = v /\ \A e \in Devices \ {d} : main'[e] = main[e]
  BY DEF Typed, ThreadType
<1>4. OwnerBelieves'
  BY <1>3 DEF SessionInv, OwnerBelieves
<1>5. ListensWhileUp'
  BY <1>3 DEF SessionInv, ListensWhileUp
<1>6. OffIsEmpty'
  BY DEF SessionInv, OffIsEmpty, Post
<1> QED
  BY <1>2, <1>4, <1>5, <1>6 DEF SessionInv

LEMMA SessionMainSteps ==
  ASSUME Typed, SessionInv, NEW d \in Devices, MainStep(d) \/ User(d)
  PROVE  SessionInv'
<1>0. /\ listening \in [Devices -> BOOLEAN]
      /\ owner[Port] = d /\ ~fault[d] => Believes(main[d])
      /\ main[d].pc \in {"register", "registering", "running", "unregistering"} => listening[d]
  BY DEF Typed, ProcessType, SessionInv, OwnerBelieves, ListensWhileUp
<1>p. /\ \A pc : At(pc).pc = pc /\ Waiting(pc).pc = pc
      /\ on => \A pc : Waiting(pc).reply = "none"
      /\ on \in BOOLEAN
      /\ ~on => owner[Port] = NoDevice
      /\ WaitsFor("register") = "registering" /\ WaitsFor("unregister") = "unregistering"
  BY DEF At, Waiting, WaitsFor, Typed, MachineType, SessionInv, OffIsEmpty
<1>1. CASE Register(d)
  BY <1>1, <1>0, <1>p, SessionMain DEF Register, MainOnly, machine, Believes
<1>2. CASE Registered(d)
  <2>1. PICK pc \in {"running", "register"} :
           /\ MainGoto(d, pc)
           /\ main[d].reply = "ok" <=> pc = "running"
    BY <1>2 DEF Registered
  <2> QED
    BY <1>2, <2>1, <1>0, <1>p, SessionMain DEF Registered, MainGoto, MainOnly, machine, Believes
<1>3. CASE Unregistered(d) \/ JoinOutput(d)
  BY <1>3, <1>0, <1>p, SessionMain DEF Unregistered, JoinOutput, MainGoto, MainOnly, machine,
     Believes
<1>4. CASE Stop(d)
  BY <1>4, <1>0, <1>p, SessionMain DEF Stop, MainGoto, machine, Believes
<1>5. CASE Start(d)
  BY <1>5, <1>0, <1>p, SessionMain DEF Start, machine, Believes
<1>6. CASE RunEnds(d)
  BY <1>6, <1>0, <1>p, SessionMain, DeviceSessionAssumption DEF RunEnds, MainOnly, machine, Believes
<1>7. CASE SendData(d)
  BY <1>7, SessionQuiet DEF SendData, machine
<1>8. CASE InterruptRegistering(d)
  <2>1. /\ main' = [main EXCEPT ![d] = At("stop")]
        /\ fault' = [fault EXCEPT ![d] = @ \/ main[d].pc = "registering"]
        /\ backlog' = Unwanted(d, {"main"})
        /\ UNCHANGED <<on, owner, listening>> /\ main[d].pc \in {"register", "registering"}
    BY <1>8 DEF InterruptRegistering, MainGoto, MainOnly, machine
  <2>2. /\ main'[d] = At("stop") /\ fault'[d] = (fault[d] \/ main[d].pc = "registering")
        /\ \A e \in Devices \ {d} : main'[e] = main[e] /\ fault'[e] = fault[e]
    BY <2>1 DEF Typed, ThreadType, ProcessType
  <2>3. main[d].pc = "register" =>
           \A i \in 1 .. Len(backlog) : ~(ForMain(backlog[i]) /\ backlog[i].dev = d)
    BY NoneWaits DEF Typed, SessionInv
  <2>4. AllFit(backlog', main', fault') /\ OneWaitedFor(backlog')
    <3>1. ~fault'[d] => ~fault[d] /\ main[d].pc = "register"
      BY <2>1, <2>2
    <3>2. /\ AllFit(Unwanted(d, {"main"}), main', fault')
          /\ OneWaitedFor(Unwanted(d, {"main"}))
      BY <2>2, <2>3, <3>1, FitUnwanted DEF Typed, SessionInv
    <3> QED
      BY <2>1, <3>2
  <2>5. OwnerBelieves'
    BY <2>1, <2>2, <1>0 DEF SessionInv, OwnerBelieves, Believes
  <2>6. ListensWhileUp'
    BY <2>1, <2>2, <1>p DEF SessionInv, ListensWhileUp
  <2>7. OffIsEmpty'
    <3>1. ~on => backlog' = <<>>
      BY <2>1 DEF SessionInv, OffIsEmpty, Unwanted
    <3> QED
      BY <2>1, <3>1 DEF SessionInv, OffIsEmpty
  <2> QED
    BY <2>4, <2>5, <2>6, <2>7 DEF SessionInv
<1> QED
  BY <1>1, <1>2, <1>3, <1>4, <1>5, <1>6, <1>7, <1>8 DEF MainStep, User

\* The output thread sends data: nobody is registered by it.
LEMMA SessionOut ==
  ASSUME Typed, SessionInv, NEW d \in Devices, Send(d)
  PROVE  SessionInv'
<1> DEFINE r == [command |-> "data", dev |-> d, thread |-> "out", number |-> Head(output_queue[d]),
                 wanted |-> TRUE, run |-> run[d], known |-> known[d]]
<1>1. /\ UNCHANGED <<on, owner, main, fault, listening>>
      /\ backlog' = IF on THEN Append(backlog, r) ELSE backlog
      /\ output_queue[d] # <<>>
  BY DEF Send, OutOnly, machine, Post
<1>2. r \in Requests
  <2>1. output_queue[d] \in Seq(Nat) /\ run[d] \in Nat /\ known[d] \in Nat
    BY DEF Typed, ProcessType
  <2>2. Head(output_queue[d]) \in Nat
    BY <1>1, <2>1
  <2> QED
    BY <2>1, <2>2 DEF Requests, Commands, Threads
<1>3. Fits(r, main, fault) /\ ~ForMain(r)
  BY DEF Fits, ForMain
<1> HIDE DEF r
<1>4. AllFit(backlog', main', fault') /\ OneWaitedFor(backlog')
  BY <1>1, <1>2, <1>3, FitAppend DEF Typed, SessionInv
<1> QED
  BY <1>1, <1>4 DEF SessionInv, OwnerBelieves, ListensWhileUp, OffIsEmpty

\* What goes wrong: a request left without its answer is remembered as a fault.
LEMMA SessionDisturbance ==
  ASSUME Typed, SessionInv, Disturbance
  PROVE  SessionInv'
<1>1. CASE SwitchOff
  <2>1. owner'[Port] = NoDevice /\ backlog' = <<>>
    BY <1>1 DEF SwitchOff, Typed, MachineType
  <2>2. AllFit(backlog', main', fault') /\ OneWaitedFor(backlog')
    BY <2>1 DEF AllFit, OneWaitedFor
  <2>3. OwnerBelieves'
    BY <2>1, DeviceSessionAssumption DEF OwnerBelieves
  <2>4. listening' = listening /\ \A d \in Devices : main'[d].pc = main[d].pc
    BY <1>1 DEF SwitchOff, Typed, ThreadType
  <2>5. ListensWhileUp'
    BY <2>4 DEF SessionInv, ListensWhileUp
  <2> QED
    BY <2>1, <2>2, <2>3, <2>5 DEF SessionInv, OffIsEmpty
<1>2. CASE SwitchOn
  BY <1>2 DEF SwitchOn, process, SessionInv, OwnerBelieves, ListensWhileUp, OffIsEmpty
<1>3. ASSUME NEW d \in Devices, BreakConnection(d) PROVE SessionInv'
  <2>0. UNCHANGED <<on, owner, listening>>
    BY <1>3 DEF BreakConnection, machine
  <2>1. /\ \A e \in Devices : main'[e].pc = main[e].pc
        /\ \A e \in Devices \ {d} : main'[e] = main[e] /\ fault'[e] = fault[e]
        /\ \A e \in Devices : ~fault'[e] => ~fault[e] /\ main'[e] = main[e]
    BY <1>3, ZenonT(30) DEF BreakConnection, Typed, ThreadType, ProcessType
  <2>2. AllFit(backlog', main', fault') /\ OneWaitedFor(backlog')
    <3>1. PICK t \in {"main", "out"} :
             /\ backlog' = Unwanted(d, {t})
             /\ t = "main" => fault'[d]
             /\ t = "out" => main' = main /\ fault' = fault
      BY <1>3 DEF BreakConnection, Typed, ProcessType
    <3>2. AllFit(Unwanted(d, {t}), main', fault') /\ OneWaitedFor(Unwanted(d, {t}))
      BY <2>1, <3>1, FitUnwanted DEF Typed, SessionInv
    <3> QED
      BY <3>1, <3>2
  <2>3. OwnerBelieves'
    BY <2>0, <2>1 DEF SessionInv, OwnerBelieves
  <2>4. ListensWhileUp'
    BY <2>0, <2>1 DEF SessionInv, ListensWhileUp
  <2>5. OffIsEmpty'
    BY <1>3, <2>0 DEF BreakConnection, SessionInv, OffIsEmpty, Unwanted
  <2> QED
    BY <2>2, <2>3, <2>4, <2>5 DEF SessionInv
<1>4. ASSUME NEW d \in Devices, Kill(d) PROVE SessionInv'
  <2>1. /\ UNCHANGED <<on, owner>> /\ backlog' = Unwanted(d, Threads)
        /\ main' = [main EXCEPT ![d] = At("off")]
        /\ listening' = [listening EXCEPT ![d] = FALSE]
        /\ fault' = [fault EXCEPT ![d] = TRUE]
    BY <1>4 DEF Kill, machine
  <2>2. /\ main'[d].pc = "off" /\ fault'[d]
        /\ \A e \in Devices \ {d} : /\ main'[e] = main[e] /\ fault'[e] = fault[e]
                                      /\ listening'[e] = listening[e]
    BY <2>1 DEF At, Typed, ThreadType, ProcessType
  <2>3. AllFit(backlog', main', fault') /\ OneWaitedFor(backlog')
    <3>1. "main" \in Threads /\ (~fault'[d] => FALSE)
      BY <2>2 DEF Threads
    <3>2. /\ AllFit(Unwanted(d, Threads), main', fault')
          /\ OneWaitedFor(Unwanted(d, Threads))
      BY <2>2, <3>1, FitUnwanted DEF Typed, SessionInv
    <3> QED
      BY <2>1, <3>2
  <2>4. OwnerBelieves'
    BY <2>1, <2>2 DEF SessionInv, OwnerBelieves
  <2>5. ListensWhileUp'
    BY <2>2 DEF SessionInv, ListensWhileUp
  <2>6. OffIsEmpty'
    BY <2>1 DEF SessionInv, OffIsEmpty, Unwanted
  <2> QED
    BY <2>3, <2>4, <2>5, <2>6 DEF SessionInv
<1> QED
  BY <1>1, <1>2, <1>3, <1>4 DEF Disturbance

LEMMA SessionInvariant == Spec => []SessionInv
<1>1. Init => SessionInv
  BY DeviceSessionAssumption DEF Init, IOPort!Init, SessionInv, AllFit, OneWaitedFor,
     OwnerBelieves, ListensWhileUp, OffIsEmpty, At
<1>2. TypeOK /\ SessionInv /\ [Next]_vars => SessionInv'
  <2> SUFFICES ASSUME TypeOK, SessionInv, [Next]_vars
               PROVE  SessionInv'
    OBVIOUS
  <2>0. Typed
    BY TypeParts DEF Typed
  <2>1. CASE Serve
    BY <2>0, <2>1, SessionServe
  <2>2. CASE Read
    BY <2>2, SessionQuiet DEF Read, IOPort!Read, process
  <2>3. CASE Disturbance
    BY <2>0, <2>3, SessionDisturbance
  <2>4. ASSUME NEW d \in Devices, MainStep(d) \/ User(d)
        PROVE  SessionInv'
    BY <2>0, <2>4, SessionMainSteps
  <2>5. ASSUME NEW d \in Devices, OutStep(d)
        PROVE  SessionInv'
    <3>1. CASE Send(d)
      BY <2>0, <3>1, SessionOut
    <3>2. CASE Sent(d) \/ StopCheck(d)
      BY <3>2, SessionQuiet DEF Sent, StopCheck, OutOnly, machine
    <3> QED
      BY <2>5, <3>1, <3>2 DEF OutStep
  <2>6. CASE UNCHANGED vars
    BY <2>6, SessionQuiet DEF vars, machine, process
  <2> QED
    BY <2>1, <2>2, <2>3, <2>4, <2>5, <2>6 DEF Next
<1> QED
  BY <1>1, <1>2, DeviceSessionTypeOK, PTL DEF Spec

\* A device that the machine takes as registered listens for its pings, unless it left
\* a request of its main thread unanswered, or was killed, since the machine is on.
THEOREM DeviceSessionRegisteredAnswers == Spec => []RegisteredAnswers
<1>1. SessionInv => RegisteredAnswers
  BY DEF SessionInv, OwnerBelieves, ListensWhileUp, Believes, RegisteredAnswers
<1> QED
  BY <1>1, SessionInvariant, PTL

-----------------------------------------------------------------------------
(* Runs: what a request that is still to be handled says of its process *)

\* A request that is waited for is of the present run. Its data is waited for by the
\* output thread, which sends nothing else meanwhile.
OfRun(r, rs, o) ==
    /\ r.run <= rs[r.dev] /\ (r.wanted => r.run = rs[r.dev])
    /\ r.wanted /\ r.thread = "out" => o[r.dev].pc = "sending" /\ o[r.dev].reply = "none"
    /\ r.command = "data" /\ r.run = rs[r.dev] =>
          o[r.dev].pc # "get" /\ (o[r.dev].pc = "sending" => o[r.dev].reply \in {"none", "error"})
AllOfRun(b, rs, o) == \A i \in 1 .. Len(b) : OfRun(b[i], rs, o)

\* There is at most one request with data of a run, and those of earlier runs are first.
RunsInOrder(b) ==
    \A i, j \in 1 .. Len(b) :
        i < j /\ b[i].command = "data" /\ b[j].command = "data" /\ b[i].dev = b[j].dev =>
            b[i].run < b[j].run

OutputEndsFirst == \A d \in Devices : main[d].pc = "off" => out[d].pc \in {"done", "crashed"}

RunInv == AllOfRun(backlog, run, out) /\ RunsInOrder(backlog) /\ OutputEndsFirst

\* The requests of c are those of b from the s-th on, some no longer waited for.
Same(q, r) == /\ q.command = r.command /\ q.dev = r.dev /\ q.thread = r.thread
              /\ q.number = r.number /\ q.run = r.run /\ q.known = r.known
              /\ q.wanted => r.wanted
Follows(b, c, s) ==
    \A j \in 1 .. Len(c) : j + s \in 1 .. Len(b) /\ Same(c[j], b[j + s])

LEMMA TailFollows ==
  ASSUME NEW b \in Seq(Requests), b # <<>>
  PROVE  Follows(b, Tail(b), 1)
<1>1. \A j \in 1 .. Len(Tail(b)) : j + 1 \in 1 .. Len(b) /\ Tail(b)[j] = b[j + 1]
  OBVIOUS
<1> QED
  BY <1>1 DEF Follows, Same

LEMMA SameFollows ==
  ASSUME NEW b \in Seq(Requests)
  PROVE  Follows(b, b, 0)
<1>1. \A j \in 1 .. Len(b) : j + 0 = j
  OBVIOUS
<1> QED
  BY <1>1 DEF Follows, Same

LEMMA UnwantedFollows ==
  ASSUME backlog \in Seq(Requests), NEW d, NEW threads
  PROVE  /\ Follows(backlog, Unwanted(d, threads), 0)
         /\ \A j \in 1 .. Len(Unwanted(d, threads)) :
               LET q == Unwanted(d, threads)[j]
               IN  q.wanted /\ q.thread \in threads => q.dev # d
<1> DEFINE U == Unwanted(d, threads)
<1>1. Len(U) = Len(backlog) /\ \A i \in 1 .. Len(backlog) : i + 0 = i
  BY UnwantedType
<1>2. \A i \in 1 .. Len(backlog) :
         /\ U[i].dev = backlog[i].dev /\ U[i].thread = backlog[i].thread
         /\ U[i].command = backlog[i].command /\ U[i].number = backlog[i].number
         /\ U[i].run = backlog[i].run /\ U[i].known = backlog[i].known
         /\ U[i].wanted <=> backlog[i].wanted
                            /\ ~(backlog[i].dev = d /\ backlog[i].thread \in threads)
  BY UnwantedType
<1> HIDE DEF U
<1>3. Follows(backlog, U, 0)
  BY <1>1, <1>2 DEF Follows, Same
<1>4. \A j \in 1 .. Len(U) : U[j].wanted /\ U[j].thread \in threads => U[j].dev # d
  BY <1>1, <1>2
<1> QED
  BY <1>3, <1>4 DEF U

LEMMA OrderFollows ==
  ASSUME NEW b \in Seq(Requests), NEW c \in Seq(Requests), NEW s \in {0, 1},
         RunsInOrder(b), Follows(b, c, s)
  PROVE  RunsInOrder(c)
<1> SUFFICES ASSUME NEW i \in 1 .. Len(c), NEW j \in 1 .. Len(c), i < j,
                    c[i].command = "data", c[j].command = "data", c[i].dev = c[j].dev
             PROVE  c[i].run < c[j].run
  BY DEF RunsInOrder
<1>1. /\ i + s \in 1 .. Len(b) /\ j + s \in 1 .. Len(b) /\ i + s < j + s
      /\ Same(c[i], b[i + s]) /\ Same(c[j], b[j + s])
  BY DEF Follows
<1> QED
  BY <1>1 DEF RunsInOrder, Same

LEMMA DisturbedFollows ==
  ASSUME Typed, Disturbance
  PROVE  Follows(backlog, backlog', 0)
<1>1. CASE SwitchOff
  BY <1>1 DEF SwitchOff, Follows
<1>2. CASE SwitchOn
  BY <1>2, SameFollows DEF SwitchOn, Typed
<1>3. ASSUME NEW d \in Devices, BreakConnection(d) \/ Kill(d)
      PROVE  Follows(backlog, backlog', 0)
  BY <1>3, UnwantedFollows DEF BreakConnection, Kill, Typed
<1> QED
  BY <1>1, <1>2, <1>3 DEF Disturbance

LEMMA OrderAppend ==
  ASSUME NEW b \in Seq(Requests), NEW r \in Requests, RunsInOrder(b),
         r.command = "data" => \A i \in 1 .. Len(b) :
             b[i].command = "data" /\ b[i].dev = r.dev => b[i].run < r.run
  PROVE  RunsInOrder(Append(b, r))
<1>1. /\ Len(Append(b, r)) = Len(b) + 1 /\ Append(b, r)[Len(b) + 1] = r
      /\ \A i \in 1 .. Len(b) : Append(b, r)[i] = b[i]
  OBVIOUS
<1> SUFFICES ASSUME NEW i \in 1 .. Len(b) + 1, NEW j \in 1 .. Len(b) + 1, i < j,
                    Append(b, r)[i].command = "data", Append(b, r)[j].command = "data",
                    Append(b, r)[i].dev = Append(b, r)[j].dev
             PROVE  Append(b, r)[i].run < Append(b, r)[j].run
  BY <1>1 DEF RunsInOrder
<1>2. i \in 1 .. Len(b)
  OBVIOUS
<1>3. CASE j \in 1 .. Len(b)
  BY <1>1, <1>2, <1>3 DEF RunsInOrder
<1>4. CASE j = Len(b) + 1
  BY <1>1, <1>2, <1>4
<1> QED
  BY <1>3, <1>4

LEMMA RequestFacts ==
  ASSUME Typed, SessionInv, RunInv, NEW i \in 1 .. Len(backlog)
  PROVE  LET r == backlog[i]
         IN  /\ r \in Requests /\ r.dev \in Devices /\ r.run \in Nat /\ run[r.dev] \in Nat
             /\ OfRun(r, run, out)
             /\ r.thread \in {"main", "out"} /\ (r.thread = "main" <=> r.command # "data")
             /\ r.wanted /\ r.thread = "main" => /\ main[r.dev].pc = WaitsFor(r.command)
                                                 /\ main[r.dev].reply = "none"
<1>1. backlog[i] \in Requests
  BY DEF Typed
<1>2. Fits(backlog[i], main, fault) /\ OfRun(backlog[i], run, out)
  BY DEF SessionInv, AllFit, RunInv, AllOfRun
<1> QED
  BY <1>1, <1>2 DEF Requests, Threads, Fits, ForMain, Typed, ProcessType

\* Requests that stay keep being of their runs when no run begins and the output
\* threads go on as they may; those of d that nobody waits for are left alone.
LEMMA RunStays ==
  ASSUME Typed, SessionInv, RunInv, backlog' \in Seq(Requests), run' = run,
         NEW s \in {0, 1}, Follows(backlog, backlog', s), OutputEndsFirst',
         \A j \in 1 .. Len(backlog') : LET q == backlog'[j] IN
            \/ out'[q.dev] = out[q.dev]
            \/ /\ q.wanted => q.thread = "main"
               /\ out'[q.dev].pc # "get" /\ (out'[q.dev].pc = "sending" => out'[q.dev].reply = "error")
            \/ /\ q.wanted => q.thread = "main"
               /\ q.command = "data" => q.run # run[q.dev]
  PROVE  RunInv'
<1>1. ASSUME NEW j \in 1 .. Len(backlog')
      PROVE  OfRun(backlog'[j], run', out')
  <2>1. j + s \in 1 .. Len(backlog) /\ Same(backlog'[j], backlog[j + s])
    BY DEF Follows
  <2>2. OfRun(backlog[j + s], run, out)
    BY <2>1, RequestFacts
  <2> QED
    BY <2>1, <2>2 DEF OfRun, Same
<1>2. RunsInOrder(backlog')
  BY OrderFollows DEF RunInv, Typed
<1> QED
  BY <1>1, <1>2 DEF RunInv, AllOfRun

LEMMA RunServe ==
  ASSUME Typed, Typed', SessionInv, RunInv, Serve
  PROVE  RunInv'
<1> DEFINE h == Head(backlog)
<1>1. backlog # <<>> /\ backlog' = Tail(backlog) /\ run' = run
  BY DEF Serve, ServeRegister, ServeUnregister, ServeData, ServeOnly
<1>2. PICK reply \in {"ok", "forbidden"} : Answer(h, reply)
  BY DEF Serve, ServeRegister, ServeUnregister, ServeData
<1>3. 1 \in 1 .. Len(backlog) /\ h = backlog[1]
  BY <1>1 DEF Typed
<1>4. /\ h.dev \in Devices /\ h.run \in Nat /\ OfRun(h, run, out)
      /\ (h.thread = "main" <=> h.command # "data")
  BY <1>3, RequestFacts
<1> HIDE DEF h
<1>5. /\ \A d \in Devices : main'[d].pc = main[d].pc /\ out'[d].pc = out[d].pc
      /\ \A d \in Devices : out'[d] = out[d] \/ (h.wanted /\ h.thread = "out" /\ h.dev = d)
  BY <1>2, <1>4 DEF Answer, Typed, ThreadType
<1>6. OutputEndsFirst'
  BY <1>5 DEF RunInv, OutputEndsFirst
<1>7. Follows(backlog, backlog', 1)
  BY <1>1, TailFollows DEF Typed
<1>8. ASSUME NEW j \in 1 .. Len(backlog')
      PROVE  LET q == backlog'[j] IN
             \/ out'[q.dev] = out[q.dev]
             \/ /\ q.wanted => q.thread = "main"
                /\ q.command = "data" => q.run # run[q.dev]
  <2> DEFINE q == backlog'[j]
  <2>1. j + 1 \in 1 .. Len(backlog) /\ q = backlog[j + 1] /\ 1 < j + 1
    BY <1>1 DEF Typed
  <2>2. /\ q.dev \in Devices /\ OfRun(q, run, out) /\ q.run \in Nat /\ run[q.dev] \in Nat
        /\ (q.thread = "main" <=> q.command # "data")
    BY <2>1, RequestFacts
  <2> HIDE DEF q
  <2>3. CASE h.wanted /\ h.thread = "out" /\ h.dev = q.dev
    <3>1. h.run = run[q.dev] /\ h.command = "data"
      BY <1>4, <2>3 DEF OfRun
    <3>2. ASSUME q.command = "data" PROVE FALSE
      <4>1. h.run < q.run
        BY <1>3, <2>1, <2>3, <3>1, <3>2 DEF RunInv, RunsInOrder
      <4> QED
        BY <2>2, <3>1, <4>1 DEF OfRun
    <3>3. q.command # "data" /\ q.thread = "main"
      BY <2>2, <3>2
    <3> QED
      BY <3>3 DEF q
  <2>4. CASE ~(h.wanted /\ h.thread = "out" /\ h.dev = q.dev)
    BY <1>5, <2>2, <2>4 DEF q
  <2> QED
    BY <2>3, <2>4
<1>9. backlog' \in Seq(Requests)
  BY DEF Typed
<1> QED
  BY <1>1, <1>6, <1>7, <1>8, <1>9, RunStays

LEMMA RunMain ==
  ASSUME Typed, Typed', SessionInv, RunInv, NEW d \in Devices, MainStep(d) \/ User(d)
  PROVE  RunInv'
<1>0. \A pc : At(pc).pc = pc /\ Waiting(pc).pc = pc
  BY DEF At, Waiting
<1>s. backlog \in Seq(Requests) /\ backlog' \in Seq(Requests)
  BY DEF Typed
\* A step that sends nothing and does not end the process.
<1>q. ASSUME UNCHANGED <<run, out>>, Follows(backlog, backlog', 0),
             main'[d].pc = "off" => out[d].pc \in {"done", "crashed"},
             \A e \in Devices \ {d} : main'[e] = main[e]
      PROVE  RunInv'
  <2>1. OutputEndsFirst'
    BY <1>q DEF RunInv, OutputEndsFirst
  <2> QED
    BY <1>q, <1>s, <2>1, RunStays
\* A step that sends a request of the main thread.
<1>p. ASSUME NEW c \in {"register", "unregister"}, Post(d, "main", c, 0), UNCHANGED <<run, out>>,
             main'[d].pc # "off", \A e \in Devices \ {d} : main'[e] = main[e]
      PROVE  RunInv'
  <2>1. OutputEndsFirst'
    BY <1>p DEF RunInv, OutputEndsFirst
  <2> DEFINE r == [command |-> c, dev |-> d, thread |-> "main", number |-> 0, wanted |-> TRUE,
                   run |-> run[d], known |-> known[d]]
  <2>2. run[d] \in Nat /\ known[d] \in Nat
    BY DEF Typed, ProcessType
  <2>3. r \in Requests
    BY <2>2 DEF Requests, Commands, Threads
  <2>4. OfRun(r, run, out)
    BY <2>2 DEF OfRun
  <2>5. r.command # "data" /\ backlog' = IF on THEN Append(backlog, r) ELSE backlog
    BY <1>p DEF Post
  <2> HIDE DEF r
  <2>6. AllOfRun(backlog', run', out')
    BY <1>p, <1>s, <2>4, <2>5 DEF RunInv, AllOfRun
  <2>7. RunsInOrder(backlog')
    BY <1>s, <2>3, <2>5, OrderAppend DEF RunInv
  <2> QED
    BY <2>1, <2>6, <2>7 DEF RunInv
<1>m. main \in ThreadType(MainPcs) /\ out \in ThreadType(OutPcs)
  BY DEF Typed
<1>f. Follows(backlog, backlog, 0)
  BY <1>s, SameFollows
<1>1. CASE Register(d)
  BY <1>1, <1>0, <1>m, <1>p DEF Register, MainOnly, ThreadType
<1>2. CASE RunEnds(d)
  BY <1>2, <1>0, <1>m, <1>p DEF RunEnds, MainOnly, ThreadType
<1>3. CASE Registered(d) \/ Unregistered(d)
  <2>1. PICK pc \in {"running", "register", "stop"} : MainGoto(d, pc)
    BY <1>3 DEF Registered, Unregistered
  <2>2. UNCHANGED <<run, out, backlog>>
    BY <1>3 DEF Registered, Unregistered, MainOnly
  <2> QED
    BY <2>1, <2>2, <1>0, <1>m, <1>f, <1>q DEF MainGoto, ThreadType
<1>4. CASE Stop(d)
  BY <1>4, <1>0, <1>m, <1>f, <1>q DEF Stop, MainGoto, ThreadType
<1>5. CASE JoinOutput(d)
  BY <1>5, <1>0, <1>m, <1>f, <1>q DEF JoinOutput, MainOnly, MainGoto, ThreadType
<1>6. CASE InterruptRegistering(d)
  <2>1. Follows(backlog, backlog', 0)
    BY <1>6, <1>s, UnwantedFollows DEF InterruptRegistering
  <2> QED
    BY <1>6, <2>1, <1>0, <1>m, <1>q DEF InterruptRegistering, MainOnly, MainGoto, ThreadType
<1>7. CASE SendData(d)
  <2>1. UNCHANGED <<run, out, backlog, main>>
    BY <1>7 DEF SendData
  <2> QED
    BY <2>1 DEF RunInv, OutputEndsFirst
<1>8. CASE Start(d)
  <2>1. /\ main[d].pc = "off" /\ main'[d].pc = "register" /\ out'[d].pc = "get"
        /\ run'[d] = run[d] + 1 /\ backlog' = backlog
        /\ \A e \in Devices \ {d} : main'[e] = main[e] /\ out'[e] = out[e] /\ run'[e] = run[e]
    BY <1>8, <1>0 DEF Start, Typed, ThreadType, ProcessType
  <2>2. OutputEndsFirst'
    BY <2>1 DEF RunInv, OutputEndsFirst
  <2>3. out[d].pc \in {"done", "crashed"}
    BY <2>1 DEF RunInv, OutputEndsFirst
  <2>4. ASSUME NEW i \in 1 .. Len(backlog)
        PROVE  OfRun(backlog[i], run', out')
    <3>1. CASE backlog[i].dev = d
      <4>1. ~backlog[i].wanted
        BY <2>1, <2>3, <3>1, RequestFacts DEF OfRun, WaitsFor
      <4>2. backlog[i].run < run'[d]
        BY <2>1, <3>1, RequestFacts DEF OfRun
      <4>3. backlog[i].run \in Nat /\ run'[d] \in Nat
        BY <2>1, <3>1, RequestFacts
      <4> QED
        BY <3>1, <4>1, <4>2, <4>3 DEF OfRun
    <3>2. CASE backlog[i].dev # d
      BY <2>1, <3>2, RequestFacts DEF OfRun
    <3> QED
      BY <3>1, <3>2
  <2> QED
    BY <2>1, <2>2, <2>4 DEF RunInv, AllOfRun
<1> QED
  BY <1>1, <1>2, <1>3, <1>4, <1>5, <1>6, <1>7, <1>8 DEF MainStep, User

LEMMA RunOut ==
  ASSUME Typed, Typed', SessionInv, RunInv, NEW d \in Devices, OutStep(d)
  PROVE  RunInv'
<1>s. backlog \in Seq(Requests) /\ backlog' \in Seq(Requests)
  BY DEF Typed
<1>0. /\ UNCHANGED <<main, run>> /\ \A e \in Devices \ {d} : out'[e] = out[e]
      /\ main[d].pc # "off" \/ out[d].pc \in {"done", "crashed"}
  BY DEF OutStep, Send, Sent, StopCheck, OutOnly, Typed, ThreadType, RunInv, OutputEndsFirst
<1>1. CASE Send(d)
  <2>1. /\ out[d].pc = "get" /\ out'[d] = Waiting("sending")
        /\ Post(d, "out", "data", Head(output_queue[d])) /\ output_queue[d] # <<>>
    BY <1>1 DEF Send, Typed, ThreadType
  <2>2. out'[d].pc = "sending" /\ out'[d].reply \in {"none", "error"} /\ (on => out'[d].reply = "none")
    BY <2>1 DEF Waiting
  <2>3. OutputEndsFirst'
    BY <1>0, <2>1 DEF RunInv, OutputEndsFirst
  <2> DEFINE r == [command |-> "data", dev |-> d, thread |-> "out",
                   number |-> Head(output_queue[d]), wanted |-> TRUE, run |-> run[d],
                   known |-> known[d]]
  <2>4. r \in Requests
    <3>1. output_queue[d] \in Seq(Nat) /\ run[d] \in Nat /\ known[d] \in Nat
      BY DEF Typed, ProcessType
    <3>2. Head(output_queue[d]) \in Nat
      BY <2>1, <3>1
    <3> QED
      BY <3>1, <3>2 DEF Requests, Commands, Threads
  <2>5. r.command = "data" /\ r.dev = d /\ r.thread = "out" /\ r.run = run[d]
    OBVIOUS
  <2>6. backlog' = IF on THEN Append(backlog, r) ELSE backlog
    BY <2>1 DEF Post
  <2> HIDE DEF r
  <2>7. ASSUME NEW i \in 1 .. Len(backlog)
        PROVE  /\ OfRun(backlog[i], run, out')
               /\ backlog[i].command = "data" /\ backlog[i].dev = d => backlog[i].run < run[d]
    <3>1. CASE backlog[i].dev = d
      <4>1. /\ backlog[i].command = "data" => backlog[i].run # run[d]
            /\ backlog[i].run \in Nat /\ run[d] \in Nat /\ backlog[i].run <= run[d]
            /\ ~(backlog[i].wanted /\ backlog[i].thread = "out")
            /\ backlog[i].wanted => backlog[i].run = run[d]
        BY <2>1, <3>1, RequestFacts DEF OfRun
      <4> QED
        BY <3>1, <4>1 DEF OfRun
    <3>2. CASE backlog[i].dev # d
      BY <1>0, <3>2, RequestFacts DEF OfRun
    <3> QED
      BY <3>1, <3>2
  <2>8. on => OfRun(r, run, out')
    <3>1. run[d] \in Nat
      BY DEF Typed, ProcessType
    <3> QED
      BY <2>2, <2>5, <3>1 DEF OfRun
  <2>9. AllOfRun(backlog', run', out')
    BY <1>0, <1>s, <2>6, <2>7, <2>8 DEF AllOfRun
  <2>10. RunsInOrder(backlog')
    BY <1>s, <2>4, <2>5, <2>6, <2>7, OrderAppend DEF RunInv
  <2> QED
    BY <2>3, <2>9, <2>10 DEF RunInv
<1>2. CASE Sent(d) \/ StopCheck(d)
  <2>1. /\ backlog' = backlog /\ out'[d].pc \in {"get", "crashed", "done"}
        /\ out[d].pc = "get" \/ (out[d].pc = "sending" /\ out[d].reply # "none")
        /\ out'[d].pc = "get" => out[d].pc = "sending" /\ out[d].reply = "ok"
    BY <1>2 DEF Sent, StopCheck, OutOnly, Typed, ThreadType, At
  <2>2. OutputEndsFirst'
    BY <1>0, <2>1 DEF RunInv, OutputEndsFirst
  <2>3. ASSUME NEW i \in 1 .. Len(backlog)
        PROVE  OfRun(backlog[i], run, out')
    <3>1. CASE backlog[i].dev = d
      BY <2>1, <3>1, RequestFacts DEF OfRun
    <3>2. CASE backlog[i].dev # d
      BY <1>0, <3>2, RequestFacts DEF OfRun
    <3> QED
      BY <3>1, <3>2
  <2> QED
    BY <1>0, <2>1, <2>2, <2>3 DEF RunInv, AllOfRun
<1> QED
  BY <1>1, <1>2 DEF OutStep

LEMMA RunDisturbance ==
  ASSUME Typed, Typed', SessionInv, RunInv, Disturbance
  PROVE  RunInv'
<1>s. backlog \in Seq(Requests) /\ backlog' \in Seq(Requests)
  BY DEF Typed
<1>1. CASE SwitchOff
  <2>1. backlog' = <<>> /\ \A d \in Devices : main'[d].pc = main[d].pc /\ out'[d].pc = out[d].pc
    BY <1>1 DEF SwitchOff, Typed, ThreadType
  <2> QED
    BY <2>1 DEF RunInv, AllOfRun, RunsInOrder, OutputEndsFirst
<1>2. CASE SwitchOn
  BY <1>2 DEF SwitchOn, process, RunInv, OutputEndsFirst
<1>3. ASSUME NEW d \in Devices, BreakConnection(d) PROVE RunInv'
  <2>1. /\ run' = run /\ \A e \in Devices : main'[e].pc = main[e].pc /\ out'[e].pc = out[e].pc
        /\ \A e \in Devices \ {d} : out'[e] = out[e]
    BY <1>3 DEF BreakConnection, Typed, ThreadType
  <2>2. OutputEndsFirst'
    BY <2>1 DEF RunInv, OutputEndsFirst
  <2>3. PICK t \in {"main", "out"} :
           /\ backlog' = Unwanted(d, {t})
           /\ t = "main" => out' = out
           /\ t = "out" => out[d].pc = "sending" /\ out'[d].reply = "error"
    BY <1>3 DEF BreakConnection, Typed, ThreadType
  <2>4. /\ Follows(backlog, backlog', 0)
        /\ \A j \in 1 .. Len(backlog') :
              backlog'[j].wanted /\ backlog'[j].thread \in {t} => backlog'[j].dev # d
    BY <1>s, <2>3, UnwantedFollows
  <2>5. ASSUME NEW j \in 1 .. Len(backlog')
        PROVE  LET q == backlog'[j] IN
               \/ out'[q.dev] = out[q.dev]
               \/ /\ q.wanted => q.thread = "main"
                  /\ out'[q.dev].pc # "get"
                  /\ out'[q.dev].pc = "sending" => out'[q.dev].reply = "error"
    <3>1. backlog'[j] \in Requests
      BY <1>s
    <3>2. backlog'[j].dev \in Devices /\ backlog'[j].thread \in {"main", "out"}
      BY <3>1 DEF Requests, Threads
    <3> QED
      BY <2>1, <2>3, <2>4, <3>2
  <2> QED
    BY <1>s, <2>1, <2>2, <2>4, <2>5, RunStays
<1>4. ASSUME NEW d \in Devices, Kill(d) PROVE RunInv'
  <2>1. /\ run' = run /\ out'[d].pc = "done" /\ \A e \in Devices \ {d} : out'[e] = out[e]
        /\ \A e \in Devices \ {d} : main'[e] = main[e]
        /\ backlog' = Unwanted(d, Threads)
    BY <1>4 DEF Kill, At, Typed, ThreadType
  <2>2. OutputEndsFirst'
    BY <2>1 DEF RunInv, OutputEndsFirst
  <2>3. /\ Follows(backlog, backlog', 0)
        /\ \A j \in 1 .. Len(backlog') :
              backlog'[j].wanted /\ backlog'[j].thread \in Threads => backlog'[j].dev # d
    BY <1>s, <2>1, UnwantedFollows
  <2>4. ASSUME NEW j \in 1 .. Len(backlog')
        PROVE  LET q == backlog'[j] IN
               \/ out'[q.dev] = out[q.dev]
               \/ /\ q.wanted => q.thread = "main"
                  /\ out'[q.dev].pc # "get"
                  /\ out'[q.dev].pc = "sending" => out'[q.dev].reply = "error"
    <3>1. backlog'[j] \in Requests
      BY <1>s
    <3>2. backlog'[j].dev \in Devices /\ backlog'[j].thread \in Threads
      BY <3>1 DEF Requests
    <3> QED
      BY <2>1, <2>3, <3>2
  <2> QED
    BY <1>s, <2>1, <2>2, <2>3, <2>4, RunStays
<1> QED
  BY <1>1, <1>2, <1>3, <1>4 DEF Disturbance

LEMMA RunInvariant == Spec => []RunInv
<1>1. Init => RunInv
  BY DEF Init, RunInv, AllOfRun, RunsInOrder, OutputEndsFirst, At
<1>2. TypeOK /\ TypeOK' /\ SessionInv /\ RunInv /\ [Next]_vars => RunInv'
  <2> SUFFICES ASSUME TypeOK, TypeOK', SessionInv, RunInv, [Next]_vars
               PROVE  RunInv'
    OBVIOUS
  <2>0. Typed /\ Typed'
    BY TypedStep
  <2>1. CASE Serve
    BY <2>0, <2>1, RunServe
  <2>2. CASE Disturbance
    BY <2>0, <2>2, RunDisturbance
  <2>3. ASSUME NEW d \in Devices, MainStep(d) \/ User(d) \/ OutStep(d)
        PROVE  RunInv'
    BY <2>0, <2>3, RunMain, RunOut
  <2>4. CASE Read \/ UNCHANGED vars
    BY <2>4 DEF Read, vars, process, RunInv, OutputEndsFirst
  <2> QED
    BY <2>1, <2>2, <2>3, <2>4 DEF Next
<1> QED
  BY <1>1, <1>2, DeviceSessionTypeOK, SessionInvariant, PTL DEF Spec

-----------------------------------------------------------------------------
(* Registrations: which of them a process knows of, and whose the IOPort is *)

\* While the latest registration is the one the sender knows of, the IOPort is its own.
Current(k, d, n, o) == k <= n /\ (k = n /\ k # 0 => o \in {d, NoDevice})

\* Only a request to register comes from one that may never have been registered.
Claim(r, n, o) == /\ Current(r.known, r.dev, n, o)
                  /\ r.command # "register" => r.known # 0
Claims(b, n, o) == \A i \in 1 .. Len(b) : Claim(b[i], n, o)

\* A process that runs, or has data to send, was registered.
Up(m) == m.pc = "running" \/ (m.pc = "registering" /\ m.reply = "ok")
Knows(k, m, n, q) == (Up(m) \/ n > 0 => k # 0) /\ (q # <<>> => n > 0)

DevicesKnow ==
    \A d \in Devices : /\ Current(known[d], d, registrations, owner[Port])
                       /\ Knows(known[d], main[d], sent[d], output_queue[d])

KnownInv == Claims(backlog, registrations, owner[Port]) /\ DevicesKnow

\* Requests that stay are as current as they were, or more outdated.
LEMMA ClaimsFollow ==
  ASSUME NEW b \in Seq(Requests), NEW c \in Seq(Requests), NEW s \in {0, 1}, Follows(b, c, s),
         NEW n \in Nat, NEW m \in Nat, NEW o, NEW p, Claims(b, n, o),
         (m = n /\ p \in {o, NoDevice}) \/ m = n + 1
  PROVE  Claims(c, m, p)
<1> SUFFICES ASSUME NEW j \in 1 .. Len(c) PROVE Claim(c[j], m, p)
  BY DEF Claims
<1>1. j + s \in 1 .. Len(b) /\ Same(c[j], b[j + s])
  BY DEF Follows
<1>2. Claim(b[j + s], n, o) /\ b[j + s] \in Requests
  BY <1>1 DEF Claims
<1>3. c[j].known \in Nat
  BY <1>1, <1>2 DEF Requests, Same
<1> QED
  BY <1>1, <1>2, <1>3 DEF Claim, Current, Same

LEMMA KnownStays ==
  ASSUME Typed, Typed', KnownInv, registrations' = registrations,
         owner'[Port] \in {owner[Port], NoDevice}, UNCHANGED <<known, sent>>,
         \A d \in Devices : output_queue[d] = <<>> => output_queue'[d] = <<>>,
         \A d \in Devices : Up(main'[d]) => Up(main[d]),
         \/ \E s \in {0, 1} : Follows(backlog, backlog', s)
         \/ \E r \in Requests : /\ backlog' = Append(backlog, r)
                                /\ Claim(r, registrations, owner[Port])
  PROVE  KnownInv'
<1>1. DevicesKnow'
  BY DEF KnownInv, DevicesKnow, Current, Knows
<1>2. /\ backlog \in Seq(Requests) /\ backlog' \in Seq(Requests) /\ registrations \in Nat
      /\ Claims(backlog, registrations, owner[Port])
  BY DEF Typed, MachineType, KnownInv
<1>3. CASE \E s \in {0, 1} : Follows(backlog, backlog', s)
  <2>1. Claims(backlog', registrations, owner'[Port])
    BY <1>2, <1>3, ClaimsFollow
  <2> QED
    BY <1>1, <2>1 DEF KnownInv
<1>4. ASSUME NEW r \in Requests, backlog' = Append(backlog, r),
             Claim(r, registrations, owner[Port])
      PROVE  KnownInv'
  <2>1. Claim(r, registrations, owner'[Port])
    BY <1>4 DEF Claim, Current
  <2>2. Claims(backlog, registrations, owner'[Port])
    BY <1>2 DEF Claims, Claim, Current
  <2>3. Claims(backlog', registrations, owner'[Port])
    <3> SUFFICES ASSUME NEW i \in 1 .. Len(backlog')
                 PROVE  Claim(backlog'[i], registrations, owner'[Port])
      BY DEF Claims
    <3>1. backlog'[i] = r \/ (i \in 1 .. Len(backlog) /\ backlog'[i] = backlog[i])
      BY <1>2, <1>4
    <3> QED
      BY <2>1, <2>2, <3>1 DEF Claims
  <2> QED
    BY <1>1, <2>3 DEF KnownInv
<1> QED
  BY <1>3, <1>4

\* A request that is sent says which registration its process knows of.
LEMMA KnownPost ==
  ASSUME Typed, KnownInv, NEW d \in Devices, NEW t \in Threads, NEW c \in Commands, NEW n \in Nat,
         Post(d, t, c, n), c = "register" \/ known[d] # 0
  PROVE  \/ \E s \in {0, 1} : Follows(backlog, backlog', s)
         \/ \E r \in Requests : /\ backlog' = Append(backlog, r)
                                /\ Claim(r, registrations, owner[Port])
<1> DEFINE r == [command |-> c, dev |-> d, thread |-> t, number |-> n, wanted |-> TRUE,
                 run |-> run[d], known |-> known[d]]
<1>1. CASE ~on
  <2>1. backlog' = backlog /\ Follows(backlog, backlog, 0)
    BY <1>1, SameFollows DEF Post, Typed
  <2> QED
    BY <2>1
<1>2. CASE on
  <2>1. run[d] \in Nat /\ known[d] \in Nat /\ Current(known[d], d, registrations, owner[Port])
    BY DEF Typed, ProcessType, KnownInv, DevicesKnow
  <2>2. r \in Requests /\ Claim(r, registrations, owner[Port])
    BY <2>1 DEF Requests, Claim
  <2>3. backlog' = Append(backlog, r)
    BY <1>2 DEF Post
  <2> QED
    BY <2>2, <2>3
<1> QED
  BY <1>1, <1>2

LEMMA KnownServe ==
  ASSUME Typed, Typed', SessionInv, RunInv, KnownInv, Serve
  PROVE  KnownInv'
<1> DEFINE h == Head(backlog)
<1>1. /\ backlog # <<>> /\ backlog' = Tail(backlog) /\ UNCHANGED <<output_queue, sent>>
  BY DEF Serve, ServeRegister, ServeUnregister, ServeData, ServeOnly
<1>2. Follows(backlog, backlog', 1)
  BY <1>1, TailFollows DEF Typed
<1>3. 1 \in 1 .. Len(backlog) /\ h = backlog[1]
  BY <1>1 DEF Typed
<1>4. /\ h.dev \in Devices /\ h.run \in Nat /\ OfRun(h, run, out)
      /\ (h.thread = "main" <=> h.command # "data")
      /\ (h.wanted /\ h.thread = "main" => main[h.dev].pc = WaitsFor(h.command))
  BY <1>3, RequestFacts
<1>5. CASE ServeRegister /\ registrations' # registrations
  <2>1. /\ IOPort!Register(Port, h.dev) /\ Answer(h, "ok") /\ registrations' = registrations + 1
        /\ known' = [known EXCEPT ![h.dev] = IF h.run = run[h.dev] THEN registrations' ELSE @]
    BY <1>5 DEF ServeRegister
  <2>2. registrations \in Nat /\ known \in [Devices -> Nat] /\ main \in ThreadType(MainPcs)
        /\ owner'[Port] = h.dev
    BY <2>1 DEF Typed, MachineType, ProcessType, IOPort!Register
  <2>3. \A d \in Devices : main'[d] = main[d] \/ (h.wanted /\ h.thread = "main" /\ h.dev = d)
    BY <2>1, <2>2, <1>4 DEF Answer, ThreadType
  <2>4. Claims(backlog', registrations', owner'[Port])
    BY <1>2, <2>1, <2>2, ClaimsFollow DEF Typed, KnownInv
  <2>5. ASSUME NEW d \in Devices
        PROVE  /\ Current(known'[d], d, registrations', owner'[Port])
               /\ Knows(known'[d], main'[d], sent'[d], output_queue'[d])
    <3>1. /\ Current(known[d], d, registrations, owner[Port])
          /\ Knows(known[d], main[d], sent[d], output_queue[d]) /\ known[d] \in Nat
      BY <2>2 DEF KnownInv, DevicesKnow
    <3>2. CASE d = h.dev /\ h.run = run[d]
      <4>1. known'[d] = registrations + 1
        BY <2>1, <2>2, <3>2
      <4> QED
        BY <1>1, <2>1, <2>2, <3>1, <3>2, <4>1 DEF Current, Knows
    <3>3. CASE ~(d = h.dev /\ h.run = run[d])
      <4>1. known'[d] = known[d]
        BY <2>1, <2>2, <3>3
      <4>2. main'[d] = main[d]
        BY <1>4, <2>3, <3>3 DEF OfRun
      <4> QED
        BY <1>1, <2>1, <2>2, <3>1, <4>1, <4>2 DEF Current, Knows
    <3> QED
      BY <3>2, <3>3
  <2> QED
    BY <2>4, <2>5 DEF KnownInv, DevicesKnow
<1>6. CASE ~(ServeRegister /\ registrations' # registrations)
  <2>1. /\ UNCHANGED <<registrations, known>>
        /\ owner'[Port] \in {owner[Port], NoDevice}
        /\ h.command = "register" => Answer(h, "forbidden")
    BY <1>6 DEF Serve, ServeRegister, ServeUnregister, ServeData, IOPort!Accept,
       IOPort!Unregister, Typed, MachineType
  <2>2. PICK reply \in {"ok", "forbidden"} :
           Answer(h, reply) /\ (h.command = "register" => reply = "forbidden")
    BY <2>1 DEF Serve, ServeRegister, ServeUnregister, ServeData
  <2>3. \A d \in Devices : Up(main'[d]) => Up(main[d])
    BY <2>2, <1>4 DEF Answer, Up, WaitsFor, Typed, ThreadType
  <2> QED
    BY <1>1, <1>2, <2>1, <2>3, KnownStays
<1> QED
  BY <1>5, <1>6

LEMMA KnownProcess ==
  ASSUME Typed, Typed', KnownInv, NEW d \in Devices, MainStep(d) \/ User(d) \/ OutStep(d)
  PROVE  KnownInv'
<1>0. /\ \A pc : ~Up(Waiting(pc)) \/ pc = "running"
      /\ \A pc : At(pc).pc = pc /\ (Up(At(pc)) <=> pc = "running")
  BY DEF Up, At, Waiting
<1>s. /\ main \in ThreadType(MainPcs) /\ Follows(backlog, backlog, 0)
      /\ owner[Port] \in {owner[Port], NoDevice} /\ 0 \in {0, 1}
      /\ "main" \in Threads /\ "out" \in Threads /\ 0 \in Nat
      /\ {"register", "unregister", "data"} = Commands
  BY SameFollows DEF Typed, Threads, Commands
<1>k. /\ Current(known[d], d, registrations, owner[Port])
      /\ Knows(known[d], main[d], sent[d], output_queue[d])
  BY DEF KnownInv, DevicesKnow
\* A step that changes no more than where the threads are, and sends no more than this.
<1>p. ASSUME NEW c \in Commands, NEW t \in Threads, NEW n \in Nat,
             Post(d, t, c, n), c = "register" \/ known[d] # 0,
             UNCHANGED <<machine, known, sent>>,
             \A e \in Devices : output_queue[e] = <<>> => output_queue'[e] = <<>>,
             \A e \in Devices : Up(main'[e]) => Up(main[e])
      PROVE  KnownInv'
  <2>1. owner' = owner /\ registrations' = registrations
    BY <1>p DEF machine
  <2>2. \/ \E s \in {0, 1} : Follows(backlog, backlog', s)
        \/ \E r \in Requests : /\ backlog' = Append(backlog, r)
                               /\ Claim(r, registrations, owner[Port])
    BY <1>p, KnownPost
  <2> QED
    BY <1>p, <2>1, <2>2, KnownStays
<1>q. ASSUME Follows(backlog, backlog', 0), UNCHANGED <<machine, known, sent, output_queue>>,
             \A e \in Devices : Up(main'[e]) => Up(main[e])
      PROVE  KnownInv'
  BY <1>q, <1>s, KnownStays DEF machine
<1>1. CASE Register(d)
  <2>1. \A e \in Devices : Up(main'[e]) => Up(main[e])
    BY <1>0, <1>1, <1>s DEF Register, ThreadType
  <2> QED
    BY <1>1, <1>s, <1>p, <2>1 DEF Register, MainOnly
<1>2. CASE RunEnds(d)
  <2>1. \A e \in Devices : Up(main'[e]) => Up(main[e])
    BY <1>0, <1>2, <1>s DEF RunEnds, ThreadType
  <2>2. known[d] # 0
    BY <1>2, <1>k DEF RunEnds, Knows, Up
  <2> QED
    BY <1>2, <1>s, <1>p, <2>1, <2>2 DEF RunEnds, MainOnly
<1>3. CASE Registered(d) \/ Unregistered(d) \/ JoinOutput(d) \/ Stop(d)
  <2>1. PICK pc : MainGoto(d, pc) /\ (pc = "running" => Up(main[d]))
    BY <1>3 DEF Registered, Unregistered, JoinOutput, Stop, Up
  <2>2. \A e \in Devices : Up(main'[e]) => Up(main[e])
    BY <1>0, <1>s, <2>1 DEF MainGoto, ThreadType
  <2> QED
    BY <1>3, <1>s, <1>q, <2>2 DEF Registered, Unregistered, JoinOutput, Stop, MainOnly
<1>4. CASE InterruptRegistering(d)
  <2>1. \A e \in Devices : Up(main'[e]) => Up(main[e])
    BY <1>0, <1>4, <1>s DEF InterruptRegistering, MainGoto, ThreadType
  <2>2. Follows(backlog, backlog', 0)
    BY <1>4, UnwantedFollows DEF InterruptRegistering, Typed
  <2> QED
    BY <1>4, <1>q, <2>1, <2>2 DEF InterruptRegistering, MainOnly
<1>5. CASE SendData(d)
  <2>1. /\ UNCHANGED <<owner, registrations, backlog, main, known>> /\ sent'[d] > 0
        /\ known[d] # 0
        /\ \A e \in Devices \ {d} : sent'[e] = sent[e] /\ output_queue'[e] = output_queue[e]
    BY <1>5, <1>k DEF SendData, machine, Knows, Up, Typed, ProcessType
  <2> QED
    BY <2>1 DEF KnownInv, DevicesKnow, Knows
<1>6. CASE Start(d)
  <2>1. /\ UNCHANGED <<owner, registrations, backlog>> /\ registrations \in Nat
        /\ known'[d] = 0 /\ sent'[d] = 0 /\ output_queue'[d] = <<>> /\ ~Up(main'[d])
        /\ \A e \in Devices \ {d} : /\ sent'[e] = sent[e] /\ output_queue'[e] = output_queue[e]
                                    /\ main'[e] = main[e] /\ known'[e] = known[e]
    BY <1>0, <1>6 DEF Start, machine, Typed, MachineType, ProcessType, ThreadType
  <2> QED
    BY <2>1 DEF KnownInv, DevicesKnow, Current, Knows
<1>7. CASE Send(d)
  <2>1. output_queue[d] \in Seq(Nat) /\ output_queue[d] # <<>>
    BY <1>7 DEF Send, Typed, ProcessType
  <2>2. Head(output_queue[d]) \in Nat
    BY <2>1
  <2>3. \A e \in Devices : output_queue[e] = <<>> => output_queue'[e] = <<>>
    BY <1>7 DEF Send, Typed, ProcessType
  <2>4. known[d] # 0
    BY <1>k, <2>1 DEF Knows
  <2> QED
    BY <1>7, <1>s, <1>p, <2>2, <2>3, <2>4 DEF Send, OutOnly
<1>8. CASE Sent(d) \/ StopCheck(d)
  BY <1>8, <1>s, <1>q DEF Sent, StopCheck, OutOnly
<1> QED
  BY <1>1, <1>2, <1>3, <1>4, <1>5, <1>6, <1>7, <1>8 DEF MainStep, User, OutStep

LEMMA KnownDisturbance ==
  ASSUME Typed, Typed', KnownInv, Disturbance
  PROVE  KnownInv'
<1>0. UNCHANGED <<registrations, known, sent, output_queue>>
      /\ owner'[Port] \in {owner[Port], NoDevice}
  BY DEF Disturbance, SwitchOff, SwitchOn, BreakConnection, Kill, machine, process, Typed,
     MachineType
<1>1. \A e \in Devices : Up(main'[e]) => Up(main[e])
  BY SMTT(20) DEF Disturbance, SwitchOff, SwitchOn, BreakConnection, Kill, process, Up, At, Typed,
     ThreadType
<1>2. Follows(backlog, backlog', 0)
  BY DisturbedFollows
<1> QED
  BY <1>0, <1>1, <1>2, KnownStays

LEMMA KnownInvariant == Spec => []KnownInv
<1>1. Init => KnownInv
  BY DEF Init, KnownInv, Claims, DevicesKnow, Current, Knows, Up, At
<1>2. TypeOK /\ TypeOK' /\ SessionInv /\ RunInv /\ KnownInv /\ [Next]_vars => KnownInv'
  <2> SUFFICES ASSUME TypeOK, TypeOK', SessionInv, RunInv, KnownInv, [Next]_vars
               PROVE  KnownInv'
    OBVIOUS
  <2>0. Typed /\ Typed'
    BY TypedStep
  <2>1. CASE Serve
    BY <2>0, <2>1, KnownServe
  <2>2. CASE Disturbance
    BY <2>0, <2>2, KnownDisturbance
  <2>3. ASSUME NEW d \in Devices, MainStep(d) \/ User(d) \/ OutStep(d)
        PROVE  KnownInv'
    BY <2>0, <2>3, KnownProcess
  <2>4. CASE Read \/ UNCHANGED vars
    <3>1. UNCHANGED <<owner, registrations, backlog, known, main, sent, output_queue>>
      BY <2>4 DEF Read, IOPort!Read, vars, machine, process
    <3> QED
      BY <3>1 DEF KnownInv, DevicesKnow
  <2> QED
    BY <2>1, <2>2, <2>3, <2>4 DEF Next
<1> QED
  BY <1>1, <1>2, DeviceSessionTypeOK, SessionInvariant, RunInvariant, PTL DEF Spec

\* A device loses its registration only by its own request, by that of a process whose
\* registration is no longer the latest one, or with the machine.
THEOREM DeviceSessionKeepsRegistration == Spec => KeepsRegistration
<1>1. TypeOK /\ KnownInv /\ [Next]_vars =>
         \A d \in Devices :
            owner[Port] = d /\ owner'[Port] # d /\ on' =>
                Head(backlog).dev = d \/ Outdated(Head(backlog))
  <2> SUFFICES ASSUME TypeOK, KnownInv, [Next]_vars, NEW d \in Devices,
                      owner[Port] = d, owner'[Port] # d, on'
               PROVE  Head(backlog).dev = d \/ Outdated(Head(backlog))
    OBVIOUS
  <2>1. owner' # owner /\ d # NoDevice
    BY DeviceSessionAssumption
  <2>2. ~ServeRegister /\ ~ServeData
    BY <2>1 DEF ServeRegister, ServeData, IOPort!Register, IOPort!Free, IOPort!Accept
  <2>3. ServeUnregister
    BY <2>1, <2>2 DEF Next, Serve, Read, IOPort!Read, Disturbance, SwitchOff, SwitchOn,
       BreakConnection, Kill, MainStep, OutStep, User, Register, Registered, Unregistered, Stop,
       JoinOutput, Start, InterruptRegistering, SendData, RunEnds, Send, Sent, StopCheck,
       MainOnly, OutOnly, machine, vars
  <2>4. 1 \in 1 .. Len(backlog) /\ Head(backlog) = backlog[1] /\ Head(backlog).command # "register"
    BY <2>3 DEF ServeUnregister, TypeOK
  <2>5. Claim(Head(backlog), registrations, owner[Port])
    BY <2>4 DEF KnownInv, Claims
  <2> QED
    BY <2>1, <2>4, <2>5 DEF Claim, Current, Outdated
<1> QED
  BY <1>1, DeviceSessionTypeOK, KnownInvariant, PTL DEF Spec, KeepsRegistration

\* Only the handling of data changes what was accepted.
LEMMA OnlyServeData ==
  ASSUME [Next]_vars, NEW d \in Devices, last'[d] # last[d]
  PROVE  ServeData
  BY DEF Next, Serve, ServeRegister, ServeUnregister, Read, IOPort!Read, Disturbance, SwitchOff,
     SwitchOn, BreakConnection, Kill, MainStep, OutStep, User, Register, Registered, Unregistered,
     Stop, JoinOutput, Start, InterruptRegistering, SendData, RunEnds, Send, Sent, StopCheck,
     MainOnly, OutOnly, vars

\* Data that is taken as that of another device comes from a process whose registration
\* is no longer the latest one.
THEOREM DeviceSessionRunningSendsAsItself == Spec => RunningSendsAsItself
<1>1. TypeOK /\ KnownInv /\ [Next]_vars =>
         \A d \in Devices :
            last'[d] # last[d] /\ owner[Port] # d => Outdated(Head(backlog))
  <2> SUFFICES ASSUME TypeOK, KnownInv, [Next]_vars, NEW d \in Devices,
                      last'[d] # last[d], owner[Port] # d
               PROVE  Outdated(Head(backlog))
    OBVIOUS
  <2>1. ServeData
    BY OnlyServeData
  <2>2. 1 \in 1 .. Len(backlog) /\ Head(backlog) = backlog[1] /\ Head(backlog).command = "data"
    BY <2>1 DEF ServeData, TypeOK
  <2>3. Claim(Head(backlog), registrations, owner[Port])
    BY <2>2 DEF KnownInv, Claims
  <2>4. Head(backlog).dev = d /\ owner[Port] # NoDevice
    BY <2>1 DEF ServeData, IOPort!Accept, TypeOK
  <2> QED
    BY <2>2, <2>3, <2>4 DEF Claim, Current, Outdated
<1> QED
  BY <1>1, DeviceSessionTypeOK, KnownInvariant, PTL DEF Spec, RunningSendsAsItself

-----------------------------------------------------------------------------
(* Items: their numbers, from send_data to the machine *)

\* What the machine has of run n; how many items the output thread has taken.
Accepted(l, n) == IF l.run = n THEN l.number ELSE 0
Posted(n, q) == n - Len(q)

\* An item on its way is the next one of its run, and the last one taken.
Item(r, l, n, p) ==
    r.command = "data" => /\ l.run <= r.run /\ r.number = Accepted(l, r.run) + 1
                          /\ r.run = n => r.number = p
Items(b, l, rs, ns, qs) ==
    \A i \in 1 .. Len(b) :
        LET d == b[i].dev IN Item(b[i], l[d], rs[d], Posted(ns[d], qs[d]))

\* Between two items the machine has what was taken; the rest is in the queue.
Caught(o) == o.pc = "get" \/ (o.pc = "sending" /\ o.reply = "ok")
InLine(l, n, p, q, o) == /\ l.run <= n /\ p \in Nat
                         /\ \A k \in 1 .. Len(q) : q[k] = p + k
                         /\ Caught(o) => p = Accepted(l, n)
DevicesInLine ==
    \A d \in Devices :
        InLine(last[d], run[d], Posted(sent[d], output_queue[d]), output_queue[d], out[d])

ItemInv == Items(backlog, last, run, sent, output_queue) /\ DevicesInLine

LEMMA EmptyPosted == Posted(0, <<>>) = 0
<1>1. Len(<<>>) = 0
  OBVIOUS
<1>2. Posted(0, <<>>) = 0 - Len(<<>>)
  BY DEF Posted
<1>3. \A n : n = 0 => 0 - n = 0
  OBVIOUS
<1> QED
  BY <1>1, <1>2, <1>3

LEMMA DeviceTypes ==
  ASSUME Typed, NEW d \in Devices
  PROVE  /\ sent[d] \in Nat /\ run[d] \in Nat /\ last[d].run \in Nat /\ last[d].number \in Nat
         /\ output_queue[d] \in Seq(Nat) /\ Len(output_queue[d]) \in Nat
<1>1. last[d] \in [run : Nat, number : Nat] /\ output_queue[d] \in Seq(Nat)
  BY DEF Typed, ProcessType
<1>2. last[d].run \in Nat /\ last[d].number \in Nat /\ Len(output_queue[d]) \in Nat
  BY <1>1
<1> QED
  BY <1>1, <1>2 DEF Typed, ProcessType

\* Steps that neither take nor accept an item.
LEMMA ItemStays ==
  ASSUME Typed, Typed', ItemInv, UNCHANGED <<last, run, sent, output_queue>>,
         \A d \in Devices : Caught(out'[d]) => Caught(out[d]),
         \/ \E s \in {0, 1} : Follows(backlog, backlog', s)
         \/ \E r \in Requests : backlog' = Append(backlog, r) /\ r.command # "data"
  PROVE  ItemInv'
<1>1. DevicesInLine'
  BY DEF ItemInv, DevicesInLine, InLine
<1>2. backlog \in Seq(Requests) /\ backlog' \in Seq(Requests)
  BY DEF Typed
<1>3. ASSUME NEW s \in {0, 1}, Follows(backlog, backlog', s)
      PROVE  Items(backlog', last, run, sent, output_queue)
  <2> SUFFICES ASSUME NEW j \in 1 .. Len(backlog')
               PROVE  LET d == backlog'[j].dev
                      IN  Item(backlog'[j], last[d], run[d], Posted(sent[d], output_queue[d]))
    BY DEF Items
  <2>1. j + s \in 1 .. Len(backlog) /\ Same(backlog'[j], backlog[j + s])
    BY <1>3 DEF Follows
  <2>2. LET d == backlog[j + s].dev
        IN  Item(backlog[j + s], last[d], run[d], Posted(sent[d], output_queue[d]))
    BY <2>1 DEF ItemInv, Items
  <2> QED
    BY <2>1, <2>2 DEF Item, Same
<1>4. ASSUME NEW r \in Requests, backlog' = Append(backlog, r), r.command # "data"
      PROVE  Items(backlog', last, run, sent, output_queue)
  <2>1. ASSUME NEW j \in 1 .. Len(backlog')
        PROVE  backlog'[j] = r \/ (j \in 1 .. Len(backlog) /\ backlog'[j] = backlog[j])
    BY <1>2, <1>4
  <2> QED
    BY <1>4, <2>1 DEF ItemInv, Items, Item
<1>5. Items(backlog', last, run, sent, output_queue)
  BY <1>3, <1>4
<1> QED
  BY <1>1, <1>5 DEF ItemInv

\* The machine takes an item: it is the next one of its run.
LEMMA ItemServe ==
  ASSUME Typed, Typed', SessionInv, RunInv, ItemInv, Serve
  PROVE  ItemInv'
<1> DEFINE h == Head(backlog)
<1>1. /\ backlog # <<>> /\ backlog' = Tail(backlog) /\ UNCHANGED <<output_queue, sent, run>>
  BY DEF Serve, ServeRegister, ServeUnregister, ServeData, ServeOnly
<1>2. Follows(backlog, backlog', 1)
  BY <1>1, TailFollows DEF Typed
<1>3. 1 \in 1 .. Len(backlog) /\ h = backlog[1]
  BY <1>1 DEF Typed
<1>4. /\ h \in Requests /\ h.dev \in Devices /\ h.run \in Nat /\ OfRun(h, run, out)
      /\ (h.thread = "main" <=> h.command # "data")
  BY <1>3, RequestFacts
<1>5. h.number \in Nat
  BY <1>4 DEF Requests
<1>6. CASE last' = last
  <2>1. PICK reply \in {"ok", "forbidden"} :
           /\ Answer(h, reply)
           /\ \/ h.command # "data" \/ reply = "forbidden"
              \/ last' = [last EXCEPT ![h.dev] = [run |-> h.run, number |-> h.number]]
    BY DEF Serve, ServeRegister, ServeUnregister, ServeData
  <2>2. h.command = "data" => reply = "forbidden"
    <3>1. Item(h, last[h.dev], run[h.dev], Posted(sent[h.dev], output_queue[h.dev]))
      BY <1>3 DEF ItemInv, Items
    <3>2. /\ last[h.dev].number \in Nat /\ last[h.dev].run \in Nat
          /\ last \in [Devices -> [run : Nat, number : Nat]]
      BY <1>4, DeviceTypes DEF Typed, ProcessType
    <3>3. ASSUME h.command = "data",
                 last' = [last EXCEPT ![h.dev] = [run |-> h.run, number |-> h.number]]
          PROVE  FALSE
      <4>1. last[h.dev] = [run |-> h.run, number |-> h.number]
        BY <1>4, <1>6, <3>2, <3>3
      <4>2. last[h.dev].run = h.run /\ last[h.dev].number = h.number
        BY <4>1
      <4> QED
        BY <3>1, <3>2, <3>3, <4>2 DEF Item, Accepted
    <3> QED
      BY <1>6, <2>1, <3>3
  <2>3. \A d \in Devices : Caught(out'[d]) => Caught(out[d])
    BY <1>4, <2>1, <2>2 DEF Answer, OfRun, Caught, Typed, ThreadType
  <2> QED
    BY <1>1, <1>2, <1>6, <2>3, ItemStays
<1>7. CASE last' # last
  <2>1. /\ h.command = "data" /\ Answer(h, "ok")
        /\ last' = [last EXCEPT ![h.dev] = [run |-> h.run, number |-> h.number]]
    BY <1>7 DEF Serve, ServeRegister, ServeUnregister, ServeData
  <2>2. /\ last'[h.dev].run = h.run /\ last'[h.dev].number = h.number
        /\ \A d \in Devices \ {h.dev} : last'[d] = last[d]
    BY <1>4, <2>1 DEF Typed, ProcessType
  <2>3. /\ last[h.dev].run <= h.run
        /\ h.run = run[h.dev] => h.number = Posted(sent[h.dev], output_queue[h.dev])
    BY <1>3, <2>1 DEF ItemInv, Items, Item
  <2>4. \A d \in Devices : out'[d] = out[d] \/ (h.wanted /\ h.dev = d)
    BY <1>4, <2>1 DEF Answer, Typed, ThreadType
  <2>5. ASSUME NEW j \in 1 .. Len(backlog')
        PROVE  LET d == backlog'[j].dev
               IN  Item(backlog'[j], last'[d], run[d], Posted(sent[d], output_queue[d]))
    <3> DEFINE q == backlog'[j]
    <3>1. j + 1 \in 1 .. Len(backlog) /\ q = backlog[j + 1] /\ 1 < j + 1
      BY <1>1 DEF Typed
    <3>2. /\ q.dev \in Devices /\ q.run \in Nat
          /\ Item(q, last[q.dev], run[q.dev], Posted(sent[q.dev], output_queue[q.dev]))
      BY <3>1, RequestFacts DEF ItemInv, Items
    <3>3. q.command = "data" /\ q.dev = h.dev => h.run < q.run
      BY <1>3, <2>1, <3>1 DEF RunInv, RunsInOrder
    <3>4. last[q.dev].run \in Nat
      BY <3>2, DeviceTypes
    <3> HIDE DEF q
    <3>5. Item(q, last'[q.dev], run[q.dev], Posted(sent[q.dev], output_queue[q.dev]))
      <4>1. CASE q.dev = h.dev
        BY <1>4, <2>2, <2>3, <3>2, <3>3, <3>4, <4>1 DEF Item, Accepted
      <4>2. CASE q.dev # h.dev
        BY <2>2, <3>2, <4>2
      <4> QED
        BY <4>1, <4>2
    <3> QED
      BY <3>5 DEF q
  <2>6. ASSUME NEW d \in Devices
        PROVE  InLine(last'[d], run[d], Posted(sent[d], output_queue[d]), output_queue[d], out'[d])
    <3>1. InLine(last[d], run[d], Posted(sent[d], output_queue[d]), output_queue[d], out[d])
      BY DEF ItemInv, DevicesInLine
    <3>2. CASE d # h.dev
      BY <2>2, <2>4, <3>1, <3>2
    <3>3. CASE d = h.dev /\ h.run = run[d]
      BY <2>2, <2>3, <3>1, <3>3, DeviceTypes DEF InLine, Accepted
    <3>4. CASE d = h.dev /\ h.run # run[d]
      <4>1. out'[d] = out[d] /\ h.run < run[d] /\ run[d] \in Nat /\ last[d].run \in Nat
        BY <1>4, <2>4, <3>4, DeviceTypes DEF OfRun
      <4> QED
        BY <1>4, <2>2, <2>3, <3>1, <3>4, <4>1 DEF InLine, Accepted
    <3> QED
      BY <3>2, <3>3, <3>4
  <2> QED
    BY <1>1, <2>5, <2>6 DEF ItemInv, Items, DevicesInLine
<1> QED
  BY <1>6, <1>7

\* The output thread takes the next item; with the machine off it is lost, and the
\* thread ends.
LEMMA ItemSend ==
  ASSUME Typed, Typed', SessionInv, RunInv, ItemInv, NEW d \in Devices, Send(d)
  PROVE  ItemInv'
<1> DEFINE p == Posted(sent[d], output_queue[d])
<1>0. /\ out[d].pc = "get" /\ output_queue[d] # <<>>
      /\ UNCHANGED <<last, run, sent>>
      /\ output_queue'[d] = Tail(output_queue[d]) /\ out'[d] = Waiting("sending")
      /\ \A e \in Devices \ {d} : output_queue'[e] = output_queue[e] /\ out'[e] = out[e]
      /\ Post(d, "out", "data", Head(output_queue[d]))
  BY DEF Send, OutOnly, Typed, ThreadType, ProcessType
<1>1. /\ sent[d] \in Nat /\ run[d] \in Nat /\ last[d].run \in Nat
      /\ output_queue[d] \in Seq(Nat) /\ Len(output_queue[d]) \in Nat
  BY DeviceTypes
<1>2. InLine(last[d], run[d], p, output_queue[d], out[d])
  BY DEF ItemInv, DevicesInLine
<1>3. /\ Len(output_queue[d]) \in Nat \ {0} /\ Head(output_queue[d]) = output_queue[d][1]
      /\ Len(Tail(output_queue[d])) = Len(output_queue[d]) - 1
      /\ \A k \in 1 .. Len(output_queue[d]) - 1 :
            /\ k + 1 \in 1 .. Len(output_queue[d])
            /\ Tail(output_queue[d])[k] = output_queue[d][k + 1]
  BY <1>0, <1>1
<1>4. Head(output_queue[d]) = p + 1 /\ p \in Nat /\ p = Accepted(last[d], run[d])
      /\ last[d].run <= run[d]
  BY <1>0, <1>2, <1>3 DEF InLine, Caught
<1>5. Posted(sent[d], output_queue'[d]) = p + 1
  BY <1>0, <1>1, <1>3 DEF Posted
<1>6. ~Caught(out'[d])
  BY <1>0 DEF Waiting, Caught
<1> HIDE DEF p
<1>7. DevicesInLine'
  <2> SUFFICES ASSUME NEW e \in Devices
               PROVE  InLine(last[e], run[e], Posted(sent[e], output_queue'[e]), output_queue'[e],
                             out'[e])
    BY <1>0 DEF DevicesInLine
  <2>1. CASE e = d
    <3>1. ASSUME NEW k \in 1 .. Len(output_queue'[d]) PROVE output_queue'[d][k] = p + 1 + k
      <4>1. k \in 1 .. Len(output_queue[d]) - 1 /\ output_queue'[d][k] = output_queue[d][k + 1]
        BY <1>0, <1>3
      <4>2. output_queue[d][k + 1] = p + (k + 1)
        BY <1>2, <1>3, <4>1 DEF InLine, p
      <4> QED
        BY <1>4, <4>1, <4>2
    <3> QED
      BY <1>4, <1>5, <1>6, <2>1, <3>1 DEF InLine
  <2>2. CASE e # d
    BY <1>0, <2>2 DEF ItemInv, DevicesInLine
  <2> QED
    BY <2>1, <2>2
<1>8. ASSUME NEW i \in 1 .. Len(backlog)
      PROVE  LET e == backlog[i].dev
             IN  Item(backlog[i], last[e], run[e], Posted(sent[e], output_queue'[e]))
  <2>1. LET e == backlog[i].dev
        IN  /\ e \in Devices /\ OfRun(backlog[i], run, out)
            /\ Item(backlog[i], last[e], run[e], Posted(sent[e], output_queue[e]))
    BY RequestFacts DEF ItemInv, Items
  <2>2. CASE backlog[i].dev = d
    BY <1>0, <2>1, <2>2 DEF Item, OfRun
  <2>3. CASE backlog[i].dev # d
    BY <1>0, <2>1, <2>3
  <2> QED
    BY <2>2, <2>3
<1> DEFINE r == [command |-> "data", dev |-> d, thread |-> "out",
                 number |-> Head(output_queue[d]), wanted |-> TRUE, run |-> run[d],
                 known |-> known[d]]
<1>9. Item(r, last[d], run[d], Posted(sent[d], output_queue'[d])) /\ r.dev = d
  BY <1>4, <1>5 DEF Item
<1>10. backlog' = IF on THEN Append(backlog, r) ELSE backlog
  BY <1>0 DEF Post
<1> HIDE DEF r
<1>11. ASSUME NEW j \in 1 .. Len(backlog')
       PROVE  backlog'[j] = r \/ (j \in 1 .. Len(backlog) /\ backlog'[j] = backlog[j])
  BY <1>10 DEF Typed
<1> QED
  BY <1>0, <1>7, <1>8, <1>9, <1>11 DEF ItemInv, Items

LEMMA ItemProcess ==
  ASSUME Typed, Typed', SessionInv, RunInv, ItemInv,
         NEW d \in Devices, MainStep(d) \/ User(d) \/ OutStep(d)
  PROVE  ItemInv'
<1>s. /\ Follows(backlog, backlog, 0) /\ 0 \in {0, 1} /\ 0 \in Nat
      /\ "main" \in Threads /\ {"register", "unregister", "data"} = Commands
  BY SameFollows DEF Typed, Threads, Commands
<1>t. /\ sent[d] \in Nat /\ run[d] \in Nat /\ last[d].run \in Nat
      /\ output_queue[d] \in Seq(Nat) /\ Len(output_queue[d]) \in Nat
      /\ InLine(last[d], run[d], Posted(sent[d], output_queue[d]), output_queue[d], out[d])
  BY DeviceTypes DEF ItemInv, DevicesInLine
<1>1. CASE Register(d) \/ RunEnds(d)
  <2>1. PICK c \in {"register", "unregister"} : Post(d, "main", c, 0)
    BY <1>1 DEF Register, RunEnds
  <2>2. UNCHANGED <<last, run, sent, output_queue, out>>
    BY <1>1 DEF Register, RunEnds, MainOnly
  <2> DEFINE r == [command |-> c, dev |-> d, thread |-> "main", number |-> 0, wanted |-> TRUE,
                   run |-> run[d], known |-> known[d]]
  <2>3. known[d] \in Nat
    BY DEF Typed, ProcessType
  <2>4. r \in Requests /\ r.command # "data"
    BY <1>s, <1>t, <2>3 DEF Requests
  <2>5. backlog' = backlog \/ backlog' = Append(backlog, r)
    BY <2>1 DEF Post
  <2> HIDE DEF r
  <2>6. \/ \E s \in {0, 1} : Follows(backlog, backlog', s)
        \/ \E q \in Requests : backlog' = Append(backlog, q) /\ q.command # "data"
    BY <1>s, <2>4, <2>5
  <2> QED
    BY <2>2, <2>6, ItemStays
<1>2. CASE Registered(d) \/ Unregistered(d) \/ JoinOutput(d) \/ Stop(d)
  BY <1>2, <1>s, ItemStays DEF Registered, Unregistered, JoinOutput, Stop, MainOnly
<1>3. CASE InterruptRegistering(d)
  <2>1. Follows(backlog, backlog', 0)
    BY <1>3, UnwantedFollows DEF InterruptRegistering, Typed
  <2> QED
    BY <1>3, <1>s, <2>1, ItemStays DEF InterruptRegistering, MainOnly
<1>4. CASE Sent(d) \/ StopCheck(d)
  <2>0. PICK pc \in {"get", "done", "crashed"} :
           out' = [out EXCEPT ![d] = At(pc)] /\ (pc = "get" => Caught(out[d]))
    BY <1>4 DEF Sent, StopCheck, Caught
  <2>1. \A e \in Devices : Caught(out'[e]) => Caught(out[e])
    BY <2>0 DEF Caught, At, Typed, ThreadType
  <2> QED
    BY <1>4, <1>s, <2>1, ItemStays DEF Sent, StopCheck, OutOnly
<1>5. CASE SendData(d)
  <2>1. /\ UNCHANGED <<last, run, out, backlog>>
        /\ sent'[d] = sent[d] + 1 /\ output_queue'[d] = Append(output_queue[d], sent[d] + 1)
        /\ \A e \in Devices \ {d} : sent'[e] = sent[e] /\ output_queue'[e] = output_queue[e]
    BY <1>5 DEF SendData, Typed, ProcessType
  <2>2. /\ Len(output_queue'[d]) = Len(output_queue[d]) + 1
        /\ output_queue'[d][Len(output_queue[d]) + 1] = sent[d] + 1
        /\ \A k \in 1 .. Len(output_queue[d]) : output_queue'[d][k] = output_queue[d][k]
    BY <1>t, <2>1
  <2>3. Posted(sent'[d], output_queue'[d]) = Posted(sent[d], output_queue[d])
    BY <1>t, <2>1, <2>2, SMTT(20) DEF Posted
  <2>4. \A k \in 1 .. Len(output_queue'[d]) :
           output_queue'[d][k] = Posted(sent[d], output_queue[d]) + k
    <3> SUFFICES ASSUME NEW k \in 1 .. Len(output_queue[d]) + 1
                 PROVE  output_queue'[d][k] = Posted(sent[d], output_queue[d]) + k
      BY <2>2
    <3>1. CASE k \in 1 .. Len(output_queue[d])
      BY <1>t, <2>2, <3>1 DEF InLine
    <3>2. CASE k = Len(output_queue[d]) + 1
      BY <1>t, <2>2, <3>2 DEF Posted
    <3> QED
      BY <3>1, <3>2
  <2>5. InLine(last[d], run[d], Posted(sent'[d], output_queue'[d]), output_queue'[d], out[d])
    BY <1>t, <2>3, <2>4 DEF InLine
  <2>6. \A e \in Devices :
           Posted(sent'[e], output_queue'[e]) = Posted(sent[e], output_queue[e])
    BY <2>1, <2>3
  <2>7. \A i \in 1 .. Len(backlog) : backlog[i].dev \in Devices
    BY RequestFacts
  <2>8. Items(backlog, last, run, sent', output_queue')
    BY <2>6, <2>7 DEF ItemInv, Items
  <2>9. \A e \in Devices :
           InLine(last[e], run[e], Posted(sent'[e], output_queue'[e]), output_queue'[e], out[e])
    BY <2>1, <2>5 DEF ItemInv, DevicesInLine
  <2> QED
    BY <2>1, <2>8, <2>9 DEF ItemInv, DevicesInLine
<1>6. CASE Start(d)
  <2>1. /\ UNCHANGED <<last, backlog>>
        /\ sent'[d] = 0 /\ output_queue'[d] = <<>> /\ run'[d] = run[d] + 1
        /\ \A e \in Devices \ {d} : /\ sent'[e] = sent[e] /\ output_queue'[e] = output_queue[e]
                                    /\ run'[e] = run[e] /\ out'[e] = out[e]
    BY <1>6 DEF Start, Typed, ProcessType, ThreadType
  <2>2. Posted(sent'[d], output_queue'[d]) = 0
    BY <2>1, EmptyPosted
  <2>3. InLine(last[d], run'[d], 0, output_queue'[d], out'[d])
    BY <1>t, <2>1 DEF InLine, Accepted
  <2>4. DevicesInLine'
    BY <2>1, <2>2, <2>3 DEF ItemInv, DevicesInLine
  <2>5. ASSUME NEW i \in 1 .. Len(backlog)
        PROVE  LET e == backlog[i].dev
               IN  Item(backlog[i], last[e], run'[e], Posted(sent'[e], output_queue'[e]))
    <3>1. LET e == backlog[i].dev
          IN  /\ e \in Devices /\ OfRun(backlog[i], run, out) /\ backlog[i].run \in Nat
              /\ Item(backlog[i], last[e], run[e], Posted(sent[e], output_queue[e]))
      BY RequestFacts DEF ItemInv, Items
    <3>2. CASE backlog[i].dev = d
      BY <1>t, <2>1, <3>1, <3>2 DEF Item, OfRun
    <3>3. CASE backlog[i].dev # d
      BY <2>1, <3>1, <3>3
    <3> QED
      BY <3>2, <3>3
  <2> QED
    BY <2>1, <2>4, <2>5 DEF ItemInv, Items
<1>7. CASE Send(d)
  BY <1>7, ItemSend
<1> QED
  BY <1>1, <1>2, <1>3, <1>4, <1>5, <1>6, <1>7 DEF MainStep, User, OutStep

LEMMA ItemDisturbance ==
  ASSUME Typed, Typed', ItemInv, Disturbance
  PROVE  ItemInv'
<1>1. UNCHANGED <<last, run, sent, output_queue>>
  BY DEF Disturbance, SwitchOff, SwitchOn, BreakConnection, Kill, process
<1>2. \A e \in Devices : Caught(out'[e]) => Caught(out[e])
  BY DEF Disturbance, SwitchOff, SwitchOn, BreakConnection, Kill, process, Caught, At, Typed,
     ThreadType
<1>3. Follows(backlog, backlog', 0)
  BY DisturbedFollows
<1> QED
  BY <1>1, <1>2, <1>3, ItemStays

LEMMA ItemInvariant == Spec => []ItemInv
<1>1. Init => ItemInv
  <2> SUFFICES ASSUME Init PROVE ItemInv
    OBVIOUS
  <2>1. Posted(0, <<>>) = 0
    BY EmptyPosted
  <2>2. \A d \in Devices : /\ last[d].run = 0 /\ last[d].number = 0 /\ run[d] = 0 /\ sent[d] = 0
                           /\ output_queue[d] = <<>> /\ ~Caught(out[d])
    BY DEF Init, At, Caught
  <2>3. backlog = <<>>
    BY DEF Init
  <2> QED
    BY <2>1, <2>2, <2>3 DEF ItemInv, Items, DevicesInLine, InLine
<1>2. TypeOK /\ TypeOK' /\ SessionInv /\ RunInv /\ ItemInv /\ [Next]_vars => ItemInv'
  <2> SUFFICES ASSUME TypeOK, TypeOK', SessionInv, RunInv, ItemInv, [Next]_vars
               PROVE  ItemInv'
    OBVIOUS
  <2>0. Typed /\ Typed'
    BY TypedStep
  <2>1. CASE Serve
    BY <2>0, <2>1, ItemServe
  <2>2. CASE Disturbance
    BY <2>0, <2>2, ItemDisturbance
  <2>3. ASSUME NEW d \in Devices, MainStep(d) \/ User(d) \/ OutStep(d)
        PROVE  ItemInv'
    BY <2>0, <2>3, ItemProcess
  <2>4. CASE Read \/ UNCHANGED vars
    BY <2>4 DEF Read, vars, process, ItemInv, DevicesInLine
  <2> QED
    BY <2>1, <2>2, <2>3, <2>4 DEF Next
<1> QED
  BY <1>1, <1>2, DeviceSessionTypeOK, SessionInvariant, RunInvariant, PTL DEF Spec

\* What the machine gets of a run is what was sent, in order, each item once and without
\* a gap, whatever is lost, repeated by a new process, or answered too late.
THEOREM DeviceSessionSentInOrder == Spec => SentInOrder
<1>1. TypeOK /\ ItemInv /\ [Next]_vars =>
         \A d \in Devices :
            LET r == last[d] n == last'[d]
            IN  n # r => IF n.run = r.run THEN n.number = r.number + 1
                                          ELSE n.run > r.run /\ n.number = 1
  <2> SUFFICES ASSUME TypeOK, ItemInv, [Next]_vars, NEW d \in Devices, last'[d] # last[d]
               PROVE  IF last'[d].run = last[d].run THEN last'[d].number = last[d].number + 1
                      ELSE last'[d].run > last[d].run /\ last'[d].number = 1
    OBVIOUS
  <2>1. ServeData
    BY OnlyServeData
  <2>2. /\ 1 \in 1 .. Len(backlog) /\ Head(backlog) = backlog[1] /\ Head(backlog).command = "data"
        /\ Head(backlog) \in Requests
    BY <2>1 DEF ServeData, TypeOK
  <2>3. /\ Head(backlog).dev = d /\ last'[d].run = Head(backlog).run
        /\ last'[d].number = Head(backlog).number
    <3>1. last' = [last EXCEPT ![Head(backlog).dev] = [run |-> Head(backlog).run,
                                                       number |-> Head(backlog).number]]
      BY <2>1 DEF ServeData
    <3>2. Head(backlog).dev \in Devices /\ last \in [Devices -> [run : Nat, number : Nat]]
      BY <2>2 DEF TypeOK, Requests
    <3> QED
      BY <3>1, <3>2
  <2>4. Item(Head(backlog), last[d], run[d], Posted(sent[d], output_queue[d]))
    BY <2>2, <2>3 DEF ItemInv, Items
  <2>5. last[d].run \in Nat /\ Head(backlog).run \in Nat
    BY <2>2 DEF TypeOK, Requests
  <2> QED
    BY <2>2, <2>3, <2>4, <2>5 DEF Item, Accepted
<1> QED
  BY <1>1, DeviceSessionTypeOK, ItemInvariant, PTL DEF Spec, SentInOrder
=============================================================================

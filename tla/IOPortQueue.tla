----------------------------- MODULE IOPortQueue -----------------------------
(***************************************************************************)
(* What an IOPort promises, to a device and to a program: it belongs to at *)
(* most one device at a time, and it is a FIFO of what was accepted while  *)
(* it belonged to one.  A new device gets it only when it belongs to nobody*)
(* and the program has read all that is left.  Who sends data is not asked.*)
(* DeviceController implements this with threads and fields; DeviceSession *)
(* is built on it.                                                         *)
(***************************************************************************)
EXTENDS Sequences

CONSTANTS Ports, Devices, NoDevice

VARIABLES owner,    \* per IOPort: its device
          queue     \* per IOPort: what IN has not read yet

vars == <<owner, queue>>

Init == /\ owner = [p \in Ports |-> NoDevice]
        /\ queue = [p \in Ports |-> <<>>]

Free(p) == owner[p] = NoDevice /\ queue[p] = <<>>

Register(p, dev) == /\ Free(p)
                    /\ owner' = [owner EXCEPT ![p] = dev]
                    /\ UNCHANGED queue

Unregister(p) == /\ owner[p] # NoDevice
                 /\ owner' = [owner EXCEPT ![p] = NoDevice]
                 /\ UNCHANGED queue

\* Data from a device; item is what there is to know of it.
Accept(p, item) == /\ owner[p] # NoDevice
                   /\ queue' = [queue EXCEPT ![p] = Append(@, item)]
                   /\ UNCHANGED owner

Read(p) == /\ queue[p] # <<>>
           /\ queue' = [queue EXCEPT ![p] = Tail(@)]
           /\ UNCHANGED owner

\* An item is the device that the IOPort belonged to when it was accepted.
Next == \E p \in Ports : \/ \E dev \in Devices : Register(p, dev)
                         \/ Unregister(p)
                         \/ Accept(p, owner[p])
                         \/ Read(p)

Spec == Init /\ [][Next]_vars
=============================================================================

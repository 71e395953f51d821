------------------------- MODULE InterruptController -------------------------
(***************************************************************************)
(* hardware/interrupt_controller.py: the FIFO queue between the internal   *)
(* devices, whose threads send interrupts, and the CPU, which takes them.  *)
(* queue.Queue is thread safe: each operation is one atomic step.          *)
(***************************************************************************)
EXTENDS Naturals, Sequences

\* What send() accepts; any other number raises InvalidInterruptError.
AcceptedNumbers == 0 .. 255

VARIABLE interrupt_queue

InterruptInit == interrupt_queue = <<>>

Send(n) == /\ n \in AcceptedNumbers
           /\ interrupt_queue' = Append(interrupt_queue, n)

\* check() with an interrupt to return; None when the queue is empty is the
\* negation of the first conjunct.
Check == /\ interrupt_queue # <<>>
         /\ interrupt_queue' = Tail(interrupt_queue)

=============================================================================

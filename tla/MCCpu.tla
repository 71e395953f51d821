-------------------------------- MODULE MCCpu --------------------------------
(***************************************************************************)
(* Cpu for TLC. States that differ only in the bytes below SP behave alike:*)
(* those were popped and are written before an instruction reads them. So  *)
(* do all the states in which the machine has stopped.                     *)
(***************************************************************************)
EXTENDS Cpu

LiveStack == [a \in sp + 1 .. BottomOfStack |-> ram[a]]

LiveView == IF power = "on" THEN <<power, interrupt_queue, registers, LiveStack, ivt, frames>>
                            ELSE <<power>>
=============================================================================

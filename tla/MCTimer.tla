------------------------------- MODULE MCTimer -------------------------------
(***************************************************************************)
(* Timer for TLC: operands of SETTMR for all modes, for the speeds that    *)
(* take different paths, and for a refusal at each field of set_config.    *)
(***************************************************************************)
EXTENDS Timer

SubtimerNumbers == {-1, 0, NumberOfSubtimers}

Config(m, v, p, n) == [mode |-> m, speed |-> v, phase |-> p, irq |-> n]

ValidOperands == {Config(OFF, 1, 0, 0), Config(ONESHOT, 0, 0, 7), Config(PERIODIC, 2, 1, 7)}
InvalidOperands == {Config(3, 0, 0, 7), Config(PERIODIC, -1, 0, 7), Config(ONESHOT, 2, 2, 7),
                    Config(PERIODIC, 0, 1, 7), Config(ONESHOT, 0, 0, 256)}
Operands == ValidOperands \union InvalidOperands
=============================================================================

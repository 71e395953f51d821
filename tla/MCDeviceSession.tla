--------------------------- MODULE MCDeviceSession ---------------------------
(* DeviceSession for TLC: one device that is started twice and sends, and *)
(* others that want the same IOPort.                                      *)
EXTENDS DeviceSession

CONSTANT Sender

RunsOf(d) == IF d = Sender THEN 2 ELSE 1
SentBy(d, r) == IF d = Sender THEN 3 - r ELSE 0
=============================================================================

-------------------------- MODULE MCDeviceController --------------------------
(***************************************************************************)
(* DeviceController for TLC. The devices are interchangeable: nothing in   *)
(* the code, nor in a safety property, tells one from another.             *)
(***************************************************************************)
EXTENDS DeviceController, TLC

DeviceSymmetry == Permutations(Devices)
=============================================================================

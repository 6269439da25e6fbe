------------------------------ MODULE MCDeviceKey ------------------------------
(***************************************************************************)
(* Instances of DeviceKey for TLC.                                          *)
(***************************************************************************)
EXTENDS DeviceKey, TLC

CONSTANTS c1, c2, c3, c4, n1, n2

Symmetry == Permutations(Calls) \cup Permutations(Names)
================================================================================

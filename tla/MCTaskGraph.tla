------------------------------ MODULE MCTaskGraph ------------------------------
(***************************************************************************)
(* Instances of TaskGraph for TLC.                                          *)
(***************************************************************************)
EXTENDS TaskGraph

CONSTANTS t1, t2, t3
================================================================================

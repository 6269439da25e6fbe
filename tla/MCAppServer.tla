------------------------------ MODULE MCAppServer ------------------------------
(***************************************************************************)
(* Instances of AppServer for TLC.                                          *)
(***************************************************************************)
EXTENDS AppServer

CONSTANTS r1, r2, r3, s1, f1

Two == <<r1, r2>>
Three == <<r1, r2, r3>>
================================================================================

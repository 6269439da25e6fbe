---------------------------- MODULE MCCommandRunner ----------------------------
(***************************************************************************)
(* Instances of CommandRunner for TLC.                                      *)
(***************************************************************************)
EXTENDS CommandRunner

CONSTANTS a1, a2
================================================================================

----------------------------- MODULE MCEventStream -----------------------------
(***************************************************************************)
(* Instances of EventStream for TLC.                                        *)
(***************************************************************************)
EXTENDS EventStream, TLC

CONSTANTS s1, s2, r1, r2, c1, t1, t2

Symmetry == Permutations(Runs)
================================================================================

------------------------------ MODULE MCMergeQueue ------------------------------
(***************************************************************************)
(* Instances of MergeQueue for TLC.                                         *)
(***************************************************************************)
EXTENDS MergeQueue, TLC

CONSTANTS a1, a2, f1, f2

Symmetry == Permutations(Agents) \cup Permutations(Files)
================================================================================

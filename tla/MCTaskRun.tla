------------------------------- MODULE MCTaskRun -------------------------------
(***************************************************************************)
(* Instances of TaskRun for TLC.                                            *)
(***************************************************************************)
EXTENDS TaskRun, TLC

CONSTANTS r1, r2, s1, s2, m1, m2

Call(auto_approve, allow_unsandboxed, edit, verify) ==
  [auto_approve |-> auto_approve, allow_unsandboxed |-> allow_unsandboxed, edit |-> edit, verify |-> verify]

\* Everything asked for and allowed; a command that may not run without a sandbox; an
\* edit nobody approved.
Calls == {Call(TRUE, TRUE, TRUE, TRUE), Call(TRUE, FALSE, FALSE, TRUE), Call(FALSE, FALSE, TRUE, FALSE)}

Symmetry == Permutations(Runs) \cup Permutations(Ids) \cup Permutations(Sessions)
================================================================================

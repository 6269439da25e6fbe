----------------------------- MODULE MCSurroundings -----------------------------
(***************************************************************************)
(* Instances of Surroundings for TLC.                                            *)
(***************************************************************************)
EXTENDS Surroundings

CONSTANTS d1, d2, d3, w1, w2, q1, q2, q3, m1, m2, r1

AnyEnvironment == SUBSET {"runtime", "home"}

From(local, host, path, method, origin) ==
  [local |-> local, host |-> host, path |-> path, method |-> method, origin |-> origin]

\* The page, its API and the exchange as a window asks for them, and each of the checks
\* failed by one of them.
Requested == {
  From(TRUE, TRUE, "page", "GET", FALSE), From(TRUE, TRUE, "page", "POST", TRUE),
  From(TRUE, TRUE, "api", "POST", TRUE), From(TRUE, TRUE, "api", "GET", TRUE),
  From(TRUE, TRUE, "session", "POST", TRUE), From(TRUE, TRUE, "session", "POST", FALSE),
  From(TRUE, FALSE, "session", "POST", TRUE), From(FALSE, TRUE, "api", "POST", TRUE)}

Definition(kind, size) == [kind |-> kind, size |-> size]

\* Four are listed: one of them is no routine, one is too large.  The fifth is left out.
FiveDefinitions == <<Definition("good", 1), Definition("not_json", 1), Definition("good", 2),
                     Definition("good", 1), Definition("no_state", 1)>>

\* The folder and the file that may be at each place when a call starts.
FolderAt == [asked |-> "F1", other |-> "F2", git |-> "F3", out |-> "F4"]
FileAt == [asked |-> "f1", other |-> "f2", git |-> "f3", out |-> "f4"]
================================================================================

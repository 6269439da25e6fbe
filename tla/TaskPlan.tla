-------------------------------- MODULE TaskPlan --------------------------------
(***************************************************************************)
(* What the task graph (crates/orchestration/src/dag.rs) promises its        *)
(* coordinator: every call is one step, acyclic means that every group of    *)
(* tasks has one that waits for no other of the group, and a failure         *)
(* cancels the least set of tasks that leaves no dependent waiting.          *)
(***************************************************************************)
CONSTANT Tasks

VARIABLES
  deps,    \* the dependencies of each task
  status,  \* of each task, "none" before it is added
  list,    \* what is left of the last answer of get_ready_tasks
  phase    \* the coordinator: "building", "valid" or "refused"

vars == <<deps, status, list, phase>>

With(s) == {t \in Tasks : status[t] = s}
Nodes == Tasks \ With("none")

Known == \A t \in Nodes : deps[t] \subseteq Nodes

Acyclic == \A S \in SUBSET Nodes : S # {} => \E t \in S : deps[t] \cap S = {}

Ready == {t \in With("Pending") : \A d \in deps[t] : status[d] = "Succeeded"}

\* No pending task outside S waits for t or for a task of S.
Closed(t, S) == \A u \in With("Pending") : deps[u] \cap (S \cup {t}) # {} => u \in S

Downstream(t) ==
  {u \in With("Pending") : \A S \in SUBSET With("Pending") : Closed(t, S) => u \in S}

Init ==
  /\ deps = [t \in Tasks |-> {}]
  /\ status = [t \in Tasks |-> "none"]
  /\ list = {}
  /\ phase = "building"

AddNode(t) ==
  /\ phase = "building"
  /\ status[t] = "none"
  /\ \E D \in SUBSET Tasks : deps' = [deps EXCEPT ![t] = D]
  /\ status' = [status EXCEPT ![t] = "Pending"]
  /\ UNCHANGED <<list, phase>>

Validate ==
  /\ phase = "building"
  /\ phase' = IF Known /\ Acyclic THEN "valid" ELSE "refused"
  /\ UNCHANGED <<deps, status, list>>

GetReadyTasks ==
  /\ phase = "valid"
  /\ list' = Ready
  /\ UNCHANGED <<deps, status, phase>>

MarkRunning(t) ==
  /\ t \in list
  /\ list' = list \ {t}
  /\ status' = [status EXCEPT ![t] = "Running"]
  /\ UNCHANGED <<deps, phase>>

MarkSucceeded(t) ==
  /\ status[t] = "Running"
  /\ status' = [status EXCEPT ![t] = "Succeeded"]
  /\ UNCHANGED <<deps, list, phase>>

MarkFailed(t) ==
  /\ status[t] = "Running"
  /\ status' = [u \in Tasks |-> IF u = t THEN "Failed"
                                ELSE IF u \in Downstream(t) THEN "Cancelled" ELSE status[u]]
  /\ UNCHANGED <<deps, list, phase>>

Next ==
  \/ Validate \/ GetReadyTasks
  \/ \E t \in Tasks : AddNode(t) \/ MarkRunning(t) \/ MarkSucceeded(t) \/ MarkFailed(t)

PlanSpec == Init /\ [][Next]_vars
================================================================================

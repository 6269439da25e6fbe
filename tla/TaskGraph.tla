-------------------------------- MODULE TaskGraph --------------------------------
(***************************************************************************)
(* The task graph (crates/orchestration/src/dag.rs) and the coordinator that *)
(* drives it: it adds tasks, validates the graph, starts what is ready and   *)
(* marks how each run ended.  The loops of validate (Kahn's algorithm) and   *)
(* of mark_failed (the cascade) are taken iteration by iteration; a HashMap  *)
(* is iterated in any order.  Calls do not overlap (&mut self).              *)
(***************************************************************************)
EXTENDS Naturals, FiniteSets, Sequences

CONSTANT Tasks

ASSUME TasksAssumption == IsFiniteSet(Tasks) /\ "none" \notin Tasks

VARIABLES
  deps,      \* the dependencies of each task, a set: twice named is once waited for
  status,    \* of each task, "none" before it is added
  seen,      \* status as of the last call that returned
  list,      \* what is left of the last answer of get_ready_tasks
  phase,     \* the coordinator: "building", "valid" or "refused"
  call,      \* the loop that runs: "none", "collect", "sort" or "cascade"
  queue,     \* its work list
  current,   \* the entry it popped last
  left,      \* the nodes the inner loop has not come to
  remaining, \* temp_deps
  visited,   \* how many tasks the sort has popped
  failing    \* the task mark_failed was called for

graphVars == <<deps, status, seen, list, phase>>
loopVars == <<call, queue, current, left, remaining, visited, failing>>
vars == <<graphVars, loopVars>>

Status == {"none", "Pending", "Running", "Succeeded", "Failed", "Cancelled"}

Nodes == {t \in Tasks : status[t] # "none"}

Queued == {queue[i] : i \in 1 .. Len(queue)}

Idle == call = "none"

\* A second task of one id is refused.
AddNode(t) ==
  /\ Idle /\ phase = "building"
  /\ status[t] = "none"
  /\ \E D \in SUBSET Tasks : deps' = [deps EXCEPT ![t] = D]
  /\ status' = [status EXCEPT ![t] = "Pending"]
  /\ seen' = status'
  /\ UNCHANGED <<list, phase, loopVars>>

--------------------------------------------------------------------------------
(* validate.                                                                  *)

Unknown == \E t \in Nodes : ~(deps[t] \subseteq Nodes)

RefuseUnknown ==
  /\ Idle /\ phase = "building"
  /\ Unknown
  /\ phase' = "refused"
  /\ UNCHANGED <<deps, status, seen, list, loopVars>>

Validate ==
  /\ Idle /\ phase = "building"
  /\ ~Unknown
  /\ call' = "collect"
  /\ queue' = <<>>
  /\ left' = Nodes
  /\ remaining' = deps
  /\ visited' = 0
  /\ UNCHANGED <<graphVars, current, failing>>

\* The tasks without dependencies start the work list.
Collect(t) ==
  /\ call = "collect"
  /\ t \in left
  /\ left' = left \ {t}
  /\ queue' = IF deps[t] = {} THEN Append(queue, t) ELSE queue
  /\ UNCHANGED <<graphVars, call, current, remaining, visited, failing>>

Collected ==
  /\ call = "collect" /\ left = {}
  /\ call' = "sort"
  /\ UNCHANGED <<graphVars, queue, current, left, remaining, visited, failing>>

NextTask ==
  /\ call = "sort" /\ left = {} /\ queue # <<>>
  /\ current' = Head(queue)
  /\ queue' = Tail(queue)
  /\ visited' = visited + 1
  /\ left' = Nodes
  /\ UNCHANGED <<graphVars, call, remaining, failing>>

\* Mutant: a task goes on the list with every dependency that is done.
Release_Early(t) ==
  /\ call = "sort"
  /\ t \in left
  /\ left' = left \ {t}
  /\ remaining' = [remaining EXCEPT ![t] = @ \ {current}]
  /\ queue' = IF current \in remaining[t] THEN Append(queue, t) ELSE queue
  /\ UNCHANGED <<graphVars, call, current, visited, failing>>

\* The last dependency of a task is done.
Release(t) ==
  /\ call = "sort"
  /\ t \in left
  /\ left' = left \ {t}
  /\ remaining' = [remaining EXCEPT ![t] = @ \ {current}]
  /\ queue' = IF remaining[t] # {} /\ remaining[t] \subseteq {current}
              THEN Append(queue, t) ELSE queue
  /\ UNCHANGED <<graphVars, call, current, visited, failing>>

Validated ==
  /\ call = "sort" /\ left = {} /\ queue = <<>>
  /\ call' = "none"
  /\ phase' = IF visited = Cardinality(Nodes) THEN "valid" ELSE "refused"
  /\ UNCHANGED <<deps, status, seen, list, queue, current, left, remaining, visited, failing>>

--------------------------------------------------------------------------------
(* The coordinator starts what is ready; the list it works through may be old.  *)

\* Mutant: one dependency that succeeded is enough.
Ready_AnyDependency ==
  {t \in Nodes : /\ status[t] = "Pending"
                 /\ deps[t] = {} \/ \E d \in deps[t] : status[d] = "Succeeded"}

Ready == {t \in Nodes : status[t] = "Pending" /\ \A d \in deps[t] : status[d] = "Succeeded"}

GetReadyTasks ==
  /\ Idle /\ phase = "valid"
  /\ list' = Ready
  /\ UNCHANGED <<deps, status, seen, phase, loopVars>>

\* A call that changes the status of one task and nothing else.
Mark(t, s) ==
  /\ status' = [status EXCEPT ![t] = s]
  /\ seen' = status'

MarkRunning(t) ==
  /\ Idle
  /\ t \in list
  /\ list' = list \ {t}
  /\ Mark(t, "Running")
  /\ UNCHANGED <<deps, phase, loopVars>>

MarkSucceeded(t) ==
  /\ Idle
  /\ status[t] = "Running"
  /\ Mark(t, "Succeeded")
  /\ UNCHANGED <<deps, list, phase, loopVars>>

--------------------------------------------------------------------------------
(* mark_failed.                                                               *)

MarkFailed(t) ==
  /\ Idle
  /\ status[t] = "Running"
  /\ status' = [status EXCEPT ![t] = "Failed"]
  /\ call' = "cascade"
  /\ queue' = <<t>>
  /\ left' = {}
  /\ failing' = t
  /\ UNCHANGED <<deps, seen, list, phase, current, remaining, visited>>

NextParent ==
  /\ call = "cascade" /\ left = {} /\ queue # <<>>
  /\ current' = Head(queue)
  /\ queue' = Tail(queue)
  /\ left' = Nodes
  /\ UNCHANGED <<graphVars, call, remaining, visited, failing>>

\* Mutant: the children are cancelled, theirs are not.
Cancel_ChildrenOnly(t) ==
  /\ call = "cascade"
  /\ t \in left
  /\ left' = left \ {t}
  /\ IF current \in deps[t] /\ status[t] = "Pending"
     THEN status' = [status EXCEPT ![t] = "Cancelled"]
     ELSE UNCHANGED status
  /\ UNCHANGED <<deps, seen, list, phase, call, queue, current, remaining, visited, failing>>

\* A pending child of the parent is cancelled, and its children are next.
Cancel(t) ==
  /\ call = "cascade"
  /\ t \in left
  /\ left' = left \ {t}
  /\ IF current \in deps[t] /\ status[t] = "Pending"
     THEN /\ status' = [status EXCEPT ![t] = "Cancelled"]
          /\ queue' = Append(queue, t)
     ELSE UNCHANGED <<status, queue>>
  /\ UNCHANGED <<deps, seen, list, phase, call, current, remaining, visited, failing>>

Failed ==
  /\ call = "cascade" /\ left = {} /\ queue = <<>>
  /\ call' = "none"
  /\ seen' = status
  /\ UNCHANGED <<deps, status, list, phase, queue, current, left, remaining, visited, failing>>

--------------------------------------------------------------------------------

Init ==
  /\ deps = [t \in Tasks |-> {}]
  /\ status = [t \in Tasks |-> "none"]
  /\ seen = status
  /\ list = {}
  /\ phase = "building"
  /\ call = "none"
  /\ queue = <<>>
  /\ current = "none"
  /\ left = {}
  /\ remaining = deps
  /\ visited = 0
  /\ failing = "none"

LoopStep ==
  \/ Collected \/ NextTask \/ Validated \/ NextParent \/ Failed
  \/ \E t \in Tasks : Collect(t) \/ Release(t) \/ Cancel(t)

Next ==
  \/ LoopStep \/ RefuseUnknown \/ Validate \/ GetReadyTasks
  \/ \E t \in Tasks : AddNode(t) \/ MarkRunning(t) \/ MarkSucceeded(t) \/ MarkFailed(t)

Spec == Init /\ [][Next]_vars

--------------------------------------------------------------------------------
(* Properties.                                                                *)

\* The variables keep their types; the work list names tasks of the graph, each
\* once, and the sort pops no more than there are.
TypeOK ==
  /\ deps \in [Tasks -> SUBSET Tasks]
  /\ status \in [Tasks -> Status]
  /\ seen \in [Tasks -> Status]
  /\ list \subseteq Nodes
  /\ phase \in {"building", "valid", "refused"}
  /\ call \in {"none", "collect", "sort", "cascade"}
  /\ queue \in Seq(Nodes)
  /\ \A i, j \in 1 .. Len(queue) : queue[i] = queue[j] => i = j
  /\ current \in Tasks \cup {"none"}
  /\ left \subseteq Nodes
  /\ remaining \in [Tasks -> SUBSET Tasks]
  /\ visited \in 0 .. Cardinality(Nodes)
  /\ failing \in Tasks \cup {"none"}

\* get_ready_tasks: no task is started, from however old a list, before all of its
\* dependencies have succeeded.
NoneRunsEarly ==
  \A t \in Tasks : status[t] \in {"Running", "Succeeded", "Failed"} =>
    \A d \in deps[t] : status[d] = "Succeeded"

Complete == \A t \in Nodes : status[t] \in {"Succeeded", "Failed", "Cancelled"}

\* Between calls, a valid graph that is not complete has a task that runs or one
\* that is ready: is_complete is reached without a task that waits for ever.
NoneWaitsForever ==
  Idle /\ phase = "valid" /\ ~Complete =>
    Ready # {} \/ \E t \in Nodes : status[t] = "Running"

\* Seen from outside, each call is one step of the plan: validate accepts exactly
\* the acyclic graphs, and mark_failed cancels exactly what is downstream.
Plan == INSTANCE TaskPlan WITH status <- seen
ImplementsTaskPlan == Plan!PlanSpec
--------------------------------------------------------------------------------
(* The inductive invariant.                                                    *)

\* What the sort has popped.
Popped == {t \in Nodes : remaining[t] = {} /\ t \notin Queued}

\* Of any group of tasks with one that was queued, one waits for no other of it.
Rooted == \A S \in SUBSET Nodes :
  S \cap (Popped \cup Queued) # {} => \E t \in S : deps[t] \cap S = {}

\* The sort counts what it popped, and a task waits for what was not popped.
SortInv ==
  /\ call \in {"collect", "sort"} => phase = "building" /\ ~Unknown
  /\ call = "collect" =>
       /\ visited = 0 /\ remaining = deps
       /\ Queued = {t \in Nodes \ left : deps[t] = {}}
  /\ call = "sort" =>
       /\ \A t \in Queued : remaining[t] = {}
       /\ visited = Cardinality(Popped)
       /\ left # {} => current \in Popped
       /\ \A t \in Nodes : remaining[t] = deps[t] \ {d \in Popped : t \in left => d # current}
       /\ Rooted

\* What this call of mark_failed has cancelled.
Cancelled == {t \in Nodes : seen[t] = "Pending" /\ status[t] = "Cancelled"}

\* The cascade cancels only what must be, and has dealt with what it popped.
CascadeInv ==
  IF call # "cascade" THEN seen = status ELSE
    /\ phase = "valid"
    /\ failing \in Nodes /\ seen[failing] = "Running" /\ status[failing] = "Failed"
    /\ \A t \in Tasks \ {failing} : status[t] = seen[t] \/ t \in Cancelled
    /\ Queued \subseteq Cancelled \cup {failing}
    /\ left # {} => current \in Cancelled \cup {failing}
    /\ \A p \in (Cancelled \cup {failing}) \ Queued, t \in Nodes :
         p \in deps[t] /\ seen[t] = "Pending" => t \in Cancelled \/ (p = current /\ t \in left)
    /\ \A S \in SUBSET Plan!With("Pending") : Plan!Closed(failing, S) => Cancelled \subseteq S

\* Nothing starts before the graph is valid; then every task that waits, as seen
\* between calls, waits for one that may still succeed.
GraphInv ==
  /\ phase # "valid" => list = {} /\ \A t \in Nodes : status[t] = "Pending"
  /\ phase = "valid" =>
       /\ ~Unknown
       /\ Plan!Acyclic
       /\ \A t \in Nodes : seen[t] = "Pending" =>
            \A d \in deps[t] : seen[d] \notin {"Failed", "Cancelled"}
  /\ list \subseteq Ready

IInv == TypeOK /\ NoneRunsEarly /\ SortInv /\ CascadeInv /\ GraphInv
================================================================================

------------------------------ MODULE ProcessTree ------------------------------
(***************************************************************************)
(* The processes of one command and their end (crates/vitna-runner/src/tree.rs, *)
(* and where run_command of lib.rs uses it).  A command runs under bubblewrap,  *)
(* whose PID namespace ends with it; in a process group of its own (macOS, and  *)
(* anywhere without a sandbox); or, on Windows, in a job that it is put in       *)
(* once it runs.  It starts other processes, which may leave the group.         *)
(***************************************************************************)
EXTENDS Naturals

CONSTANTS Child, Descendants

ASSUME ProcessAssumption == Child \notin Descendants

Processes == {Child} \cup Descendants

VARIABLES
  world,    \* what holds the command: "namespace", "group", "job"
  process,  \* each process: its life, and whether it is in the group and in the job
  early,    \* auxiliary: started before the job held the command, or by such a one
  job,      \* Guard: "none", "held", "closed"
  stage,    \* where run_command stands
  teardown  \* what kill_tree reported

processVars == <<world, process, early, job, stage, teardown>>

Alive(p) == process[p].life = "alive"
Unborn == [life |-> "unborn", grouped |-> FALSE, jobbed |-> FALSE]

\* SIGKILL, or the job's end: the process does nothing more, but may not be gone yet.
Killed(ps) == [p \in Processes |-> IF p \in ps /\ Alive(p) THEN [process[p] EXCEPT !.life = "killed"] ELSE process[p]]

Grouped == {p \in Processes : process[p].grouped}
Jobbed == {p \in Processes : process[p].jobbed}

--------------------------------------------------------------------------------
(* run_command.                                                               *)

\* configure and spawn.
SpawnChild ==
  /\ stage = "none"
  /\ world' \in {"namespace", "group", "job"}
  /\ process' = [process EXCEPT ![Child] = [life |-> "alive", grouped |-> world' # "job", jobbed |-> FALSE]]
  /\ stage' = "spawned"
  /\ UNCHANGED <<early, job, teardown>>

\* attach: the child is put in a job, which can fail.
Attach ==
  /\ stage = "spawned"
  /\ stage' = "waiting"
  /\ \/ /\ world = "job" /\ Alive(Child)
        /\ job' = "held"
        /\ process' = [process EXCEPT ![Child].jobbed = TRUE]
     \/ UNCHANGED <<job, process>>
  /\ UNCHANGED <<world, early, teardown>>

\* child.wait() ends first; the pipes are read until nobody holds them (CommandRunner).
Exited ==
  /\ stage = "waiting" /\ process[Child].life = "gone"
  /\ stage' = "over"
  /\ UNCHANGED <<world, process, early, job, teardown>>

\* Mutant: a group that was signalled is taken for the whole tree.
KillUnix_Complete ==
  /\ \/ process' = Killed(Grouped \cup {Child}) /\ teardown' = "complete"
     \/ process' = Killed({Child}) /\ teardown' = "failed"
  /\ UNCHANGED job

\* kill_tree.  The namespace goes when its child does, and the job holds what is in it; a
\* group is only those that have not left it.
KillUnix ==
  /\ \/ /\ process' = Killed(Grouped \cup {Child})
        /\ teardown' = IF world = "namespace" THEN "complete" ELSE "partial"
     \/ process' = Killed({Child}) /\ teardown' = "failed"
  /\ UNCHANGED job

KillWindows ==
  /\ \/ job = "held" /\ process' = Killed(Jobbed) /\ teardown' = "complete"
     \/ job # "held" /\ process' = Killed({Child}) /\ teardown' = "partial"
     \/ UNCHANGED process /\ teardown' = "failed"
  /\ UNCHANGED job

\* The timeout, or an error while waiting.  After a timeout the child is waited for.
KillTree ==
  /\ stage = "waiting"
  /\ IF world = "job" THEN KillWindows ELSE KillUnix
  /\ stage' \in {"reaping", "over"}
  /\ UNCHANGED <<world, early>>

Reaped ==
  /\ stage = "reaping" /\ process[Child].life = "gone"
  /\ stage' = "over"
  /\ UNCHANGED <<world, process, early, job, teardown>>

\* The caller stops waiting: kill_on_drop kills the child.
DropCall ==
  /\ stage \in {"waiting", "reaping"}
  /\ process' = Killed({Child})
  /\ stage' = "over"
  /\ UNCHANGED <<world, early, job, teardown>>

\* Guard::drop: the job's last handle is closed, and what is in it ends.
CloseGuard ==
  /\ stage = "over"
  /\ stage' = "closed"
  /\ process' = IF job = "held" THEN Killed(Jobbed) ELSE process
  /\ job' = IF job = "held" THEN "closed" ELSE job
  /\ UNCHANGED <<world, early, teardown>>

--------------------------------------------------------------------------------
(* The command's processes, and the system.                                   *)

\* bubblewrap's `--new-session` takes the command out of the group that is signalled.
Fork ==
  \E p \in Processes, q \in Descendants :
    /\ Alive(p) /\ process[q] = Unborn
    /\ process' = [process EXCEPT ![q] = [life |-> "alive", jobbed |-> process[p].jobbed,
                                          grouped |-> world # "namespace" /\ process[p].grouped]]
    /\ early' = IF p \in early \/ stage = "spawned" THEN early \cup {q} ELSE early
    /\ UNCHANGED <<world, job, stage, teardown>>

\* setsid, which the leader of a group cannot.
LeaveGroup ==
  \E p \in Descendants :
    /\ Alive(p) /\ process[p].grouped
    /\ process' = [process EXCEPT ![p].grouped = FALSE]
    /\ UNCHANGED <<world, early, job, stage, teardown>>

\* A process ends; the namespace ends with its child.
ProcessEnds ==
  \E p \in Processes :
    /\ process[p].life \in {"alive", "killed"}
    /\ process' = [IF p = Child /\ world = "namespace" THEN Killed(Processes) ELSE process
                     EXCEPT ![p].life = "gone"]
    /\ UNCHANGED <<world, early, job, stage, teardown>>

--------------------------------------------------------------------------------

ProcessInit ==
  /\ world = "none"
  /\ process = [p \in Processes |-> Unborn]
  /\ early = {} /\ job = "none" /\ stage = "none" /\ teardown = "none"

ProcessNext ==
  \/ SpawnChild \/ Attach \/ Exited \/ KillTree \/ Reaped \/ DropCall \/ CloseGuard
  \/ Fork \/ LeaveGroup \/ ProcessEnds

\* "Every descendant was terminated by a mechanism that cannot leak" (tree.rs, Complete),
\* and "a command that exited cleanly but left a background process behind does not
\* outlive the action" (Guard): when a teardown says it was complete, or the call is over
\* in a namespace or with a job, no process of the command goes on, but in a namespace
\* that is about to go with its killed child, and on Windows those started before the
\* job held the command.
NothingOutlives ==
  (teardown = "complete" \/ (stage = "closed" /\ (world = "namespace" \/ job = "closed")))
  => \A p \in Processes : Alive(p) =>
       \/ world = "namespace" /\ process[Child].life = "killed"
       \/ world = "job" /\ p \in early
================================================================================

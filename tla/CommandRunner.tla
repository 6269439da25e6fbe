----------------------------- MODULE CommandRunner -----------------------------
(***************************************************************************)
(* The command runner and its action journal (crates/vitna-runner): one      *)
(* run_command per action over one append-only journal file, the process it  *)
(* starts, a timeout, a caller that stops waiting, failed writes, and the    *)
(* death of the runner's own process.                                        *)
(*                                                                           *)
(* The file is kept as what ActionJournal::open would read from it: the last *)
(* readable record of each action, and how the file ends.  A record is       *)
(* written in two calls, its text and its newline, so a write cut short      *)
(* leaves a fragment, or a whole record without its newline; what is         *)
(* appended next joins that line, and open skips a line it cannot parse.     *)
(***************************************************************************)
EXTENDS Naturals

CONSTANTS
  Actions,           \* action ids: run_command draws each once
  MaxFaults,         \* bound: failed writes and deaths of the process
  ReconcilesAtOpen   \* TRUE when the owner calls reconcile_crashed_actions

ASSUME RunnerAssumption == MaxFaults \in Nat /\ ReconcilesAtOpen \in BOOLEAN

VARIABLES
  journal,    \* the open journal: "closed", "reconciling", "open" or "settled"
  mem,        \* its entries: the latest record of each action
  kept,       \* the latest readable record of each action in the file
  tail,       \* how the file ends
  at,         \* where the action's run_command stands
  approved,   \* request.allow_unsandboxed
  isolation,  \* what confines the command
  child,      \* the command's own process
  left,       \* a descendant that is outside the kill's reach holds the pipes
  faults,
  whole       \* auxiliary: the file ended with a newline when it was opened

fileVars == <<kept, tail, whole>>
vars == <<journal, mem, fileVars, at, approved, isolation, child, left, faults>>

States == {"Prepared", "Started", "Finished", "Acknowledged", "NeedsReconciliation", "Refused"}

\* A record: its state, and whether it names the isolation (record_sandbox).
Record == [state : States, boxed : BOOLEAN]
NoRecord == [state |-> "none", boxed |-> FALSE]
Entry == Record \cup {NoRecord}

\* "bare" is a whole record without its newline, over what stood before it.
Clean == [kind |-> "clean"]
Fragment == [kind |-> "fragment"]
Bare(a, r) == [kind |-> "bare", act |-> a, before |-> r]
Tail == {Clean, Fragment} \cup [kind : {"bare"}, act : Actions, before : Entry]

At == {"idle", "prepared", "boxing", "boxed", "running", "draining", "exited",
       "interrupting", "finished", "ok", "err", "dropped", "gone"}

--------------------------------------------------------------------------------
(* The file.                                                                  *)

\* What joining the unfinished last line destroys: a bare record goes with it.
Unread == IF tail.kind = "bare" THEN [kept EXCEPT ![tail.act] = tail.before] ELSE kept

\* The record and its newline reach the file.
Written(a, r) ==
  /\ kept' = IF tail = Clean THEN [kept EXCEPT ![a] = r] ELSE Unread
  /\ tail' = Clean
  /\ UNCHANGED whole

\* The write fails: nothing is there, a part of the record, all but the newline,
\* or all of it, not synced.
CutShort(a, r) ==
  /\ UNCHANGED whole
  /\ \/ UNCHANGED <<kept, tail>>
     \/ kept' = Unread /\ tail' = Fragment
     \/ IF tail = Clean
        THEN kept' = [kept EXCEPT ![a] = r] /\ tail' = Bare(a, kept[a])
        ELSE kept' = Unread /\ tail' = Fragment
     \/ Written(a, r)

\* Mutant: the lock is given back between two records of one action.
Append_Unlocked(a, r, next) ==
  \/ /\ Written(a, r)
     /\ mem' = [mem EXCEPT ![a] = r]
     /\ at' = [at EXCEPT ![a] = next]
     /\ UNCHANGED faults
  \/ /\ faults < MaxFaults
     /\ CutShort(a, r)
     /\ at' = [at EXCEPT ![a] = "err"]
     /\ faults' = faults + 1
     /\ UNCHANGED mem

\* append_entry under the journal's lock, which one action keeps over two records.
\* A failed write makes run_command return its error.
Append(a, r, next) ==
  /\ \A b \in Actions \ {a} : at[b] # "boxing"
  /\ \/ /\ Written(a, r)
        /\ mem' = [mem EXCEPT ![a] = r]
        /\ at' = [at EXCEPT ![a] = next]
        /\ UNCHANGED faults
     \/ /\ faults < MaxFaults
        /\ CutShort(a, r)
        /\ at' = [at EXCEPT ![a] = "err"]
        /\ faults' = faults + 1
        /\ UNCHANGED mem

\* The entry of an action with its state changed.
Now(a, state) == [mem[a] EXCEPT !.state = state]

--------------------------------------------------------------------------------
(* run_command.                                                               *)

Ready == journal \in {"open", "settled"}

Prepare(a) ==
  /\ Ready
  /\ at[a] = "idle"
  /\ \E allow \in BOOLEAN : approved' = [approved EXCEPT ![a] = allow]
  /\ Append(a, [state |-> "Prepared", boxed |-> FALSE], "prepared")
  /\ UNCHANGED <<journal, isolation, child, left>>

\* No backend delivers the guarantee and running without one was not approved.
Refuse(a) ==
  /\ at[a] = "prepared"
  /\ ~approved[a]
  /\ Append(a, Now(a, "Refused"), "err")
  /\ UNCHANGED <<journal, approved, isolation, child, left>>

\* Isolation is decided, then record_started.
Start(a) ==
  /\ at[a] = "prepared"
  /\ \E how \in {"namespaced", "confined"} \cup (IF approved[a] THEN {"none"} ELSE {}) :
       isolation' = [isolation EXCEPT ![a] = how]
  /\ Append(a, Now(a, "Started"), "boxing")
  /\ UNCHANGED <<journal, approved, child, left>>

\* record_sandbox, in the same critical section.
RecordSandbox(a) ==
  /\ at[a] = "boxing"
  /\ Append(a, [mem[a] EXCEPT !.boxed = TRUE], "boxed")
  /\ UNCHANGED <<journal, approved, isolation, child, left>>

SpawnFails(a) ==
  /\ at[a] = "boxed"
  /\ Append(a, Now(a, "Refused"), "err")
  /\ UNCHANGED <<journal, approved, isolation, child, left>>

Spawn(a) ==
  /\ at[a] = "boxed"
  /\ child' = [child EXCEPT ![a] = "running"]
  /\ at' = [at EXCEPT ![a] = "running"]
  /\ UNCHANGED <<journal, mem, fileVars, approved, isolation, left, faults>>

\* child.wait returns.  A background process the command left behind holds the
\* output pipes open, unless the namespace died with its first process.
ChildExits(a) ==
  /\ at[a] = "running"
  /\ child' = [child EXCEPT ![a] = "exited"]
  /\ at' = [at EXCEPT ![a] = "draining"]
  /\ \E behind \in BOOLEAN :
       /\ behind => isolation[a] # "namespaced"
       /\ left' = [left EXCEPT ![a] = behind]
  /\ UNCHANGED <<journal, mem, fileVars, approved, isolation, faults>>

LeftoverEnds(a) ==
  /\ left[a]
  /\ left' = [left EXCEPT ![a] = FALSE]
  /\ UNCHANGED <<journal, mem, fileVars, at, approved, isolation, child, faults>>

\* Both readers reach the end of their pipes.
Drain(a) ==
  /\ at[a] = "draining"
  /\ ~left[a]
  /\ at' = [at EXCEPT ![a] = "exited"]
  /\ UNCHANGED <<journal, mem, fileVars, approved, isolation, child, left, faults>>

\* Mutant: the timer is left to the namespace where there is one.
TimeOut_ConfinedOnly(a) ==
  /\ at[a] = "running"
  /\ isolation[a] # "namespaced"
  /\ child' = [child EXCEPT ![a] = "killed"]
  /\ at' = [at EXCEPT ![a] = "interrupting"]
  /\ \E behind \in BOOLEAN : left' = [left EXCEPT ![a] = behind]
  /\ UNCHANGED <<journal, mem, fileVars, approved, isolation, faults>>

\* The wait times out (or fails) and kill_tree takes the group or namespace down.
TimeOut(a) ==
  /\ at[a] = "running"
  /\ child' = [child EXCEPT ![a] = "killed"]
  /\ at' = [at EXCEPT ![a] = "interrupting"]
  /\ \E behind \in BOOLEAN :
       /\ behind => isolation[a] # "namespaced"
       /\ left' = [left EXCEPT ![a] = behind]
  /\ UNCHANGED <<journal, mem, fileVars, approved, isolation, faults>>

\* Mutant: a command that ran out of time is recorded as finished.
RecordInterrupted_AsFinished(a) ==
  /\ at[a] = "interrupting"
  /\ Append(a, Now(a, "Finished"), "err")
  /\ UNCHANGED <<journal, approved, isolation, child, left>>

\* record_interrupted.
RecordInterrupted(a) ==
  /\ at[a] = "interrupting"
  /\ Append(a, Now(a, "NeedsReconciliation"), "err")
  /\ UNCHANGED <<journal, approved, isolation, child, left>>

Finish(a) ==
  /\ at[a] = "exited"
  /\ Append(a, Now(a, "Finished"), "finished")
  /\ UNCHANGED <<journal, approved, isolation, child, left>>

Acknowledge(a) ==
  /\ at[a] = "finished"
  /\ Append(a, Now(a, "Acknowledged"), "ok")
  /\ UNCHANGED <<journal, approved, isolation, child, left>>

\* The caller drops the future while it waits: kill_on_drop ends the child, and
\* nothing is recorded.
Dropped(a) ==
  /\ at[a] \in {"running", "draining"}
  /\ at' = [at EXCEPT ![a] = "dropped"]
  /\ child' = [child EXCEPT ![a] = IF @ = "running" THEN "killed" ELSE @]
  /\ UNCHANGED <<journal, mem, fileVars, approved, isolation, left, faults>>

--------------------------------------------------------------------------------
(* The life of the journal.                                                   *)

\* ActionJournal::open.
Open ==
  /\ journal = "closed"
  /\ mem' = kept
  /\ whole' = (tail = Clean)
  /\ journal' = IF ReconcilesAtOpen THEN "reconciling" ELSE "open"
  /\ UNCHANGED <<kept, tail, at, approved, isolation, child, left, faults>>

Unfinished(a) == mem[a].state \in {"Prepared", "Started"}

\* Mutant: a failed write is passed over.
ReconcileOne_PassesOver(a) ==
  /\ journal = "reconciling"
  /\ Unfinished(a)
  /\ LET r == Now(a, "NeedsReconciliation")
     IN  /\ mem' = [mem EXCEPT ![a] = r]
         /\ \/ Written(a, r) /\ UNCHANGED faults
            \/ faults < MaxFaults /\ CutShort(a, r) /\ faults' = faults + 1
  /\ UNCHANGED <<journal, at, approved, isolation, child, left>>

\* reconcile_crashed_actions, one entry: a failed write ends it with the error.
ReconcileOne(a) ==
  /\ journal = "reconciling"
  /\ Unfinished(a)
  /\ LET r == Now(a, "NeedsReconciliation")
     IN  \/ /\ Written(a, r)
            /\ mem' = [mem EXCEPT ![a] = r]
            /\ UNCHANGED <<journal, faults>>
         \/ /\ faults < MaxFaults
            /\ CutShort(a, r)
            /\ journal' = "open"
            /\ faults' = faults + 1
            /\ UNCHANGED mem
  /\ UNCHANGED <<at, approved, isolation, child, left>>

ReconcileEnds ==
  /\ journal = "reconciling"
  /\ \A a \in Actions : ~Unfinished(a)
  /\ journal' = "settled"
  /\ UNCHANGED <<mem, fileVars, at, approved, isolation, child, left, faults>>

\* The process dies.  A namespaced command dies with it; another runs on.
Crash ==
  /\ journal # "closed"
  /\ faults < MaxFaults
  /\ faults' = faults + 1
  /\ journal' = "closed"
  /\ mem' = [a \in Actions |-> NoRecord]
  /\ at' = [a \in Actions |-> IF at[a] \in {"idle", "ok"} THEN at[a] ELSE "gone"]
  /\ child' = [a \in Actions |->
       IF child[a] = "running" /\ isolation[a] = "namespaced" THEN "killed" ELSE child[a]]
  /\ UNCHANGED <<fileVars, approved, isolation, left>>

Init ==
  /\ journal = "closed"
  /\ mem = [a \in Actions |-> NoRecord]
  /\ kept = [a \in Actions |-> NoRecord]
  /\ tail = Clean
  /\ at = [a \in Actions |-> "idle"]
  /\ approved = [a \in Actions |-> FALSE]
  /\ isolation = [a \in Actions |-> "none"]
  /\ child = [a \in Actions |-> "none"]
  /\ left = [a \in Actions |-> FALSE]
  /\ faults = 0
  /\ whole = TRUE

\* What run_command does by itself once it has begun.
Step(a) ==
  \/ Refuse(a) \/ Start(a) \/ RecordSandbox(a) \/ SpawnFails(a) \/ Spawn(a) \/ Drain(a)
  \/ TimeOut(a) \/ RecordInterrupted(a) \/ Finish(a) \/ Acknowledge(a)

Next ==
  \/ \E a \in Actions : Prepare(a) \/ Step(a) \/ ChildExits(a) \/ LeftoverEnds(a) \/ Dropped(a)
  \/ \E a \in Actions : ReconcileOne(a)
  \/ Open \/ ReconcileEnds \/ Crash

Spec == Init /\ [][Next]_vars

\* The runtime polls run_command and its timer fires.  No command has to end, and
\* nothing that it left behind.
FairSpec == Spec /\ \A a \in Actions : WF_vars(Step(a))

--------------------------------------------------------------------------------
(* Properties.                                                                *)

\* The variables keep their types, and only an action that got past its records
\* has a process.
TypeOK ==
  /\ journal \in {"closed", "reconciling", "open", "settled"}
  /\ mem \in [Actions -> Entry]
  /\ kept \in [Actions -> Entry]
  /\ tail \in Tail
  /\ at \in [Actions -> At]
  /\ approved \in [Actions -> BOOLEAN]
  /\ isolation \in [Actions -> {"namespaced", "confined", "none"}]
  /\ child \in [Actions -> {"none", "running", "exited", "killed"}]
  /\ left \in [Actions -> BOOLEAN]
  /\ faults \in 0 .. MaxFaults
  /\ whole \in BOOLEAN
  /\ \A a \in Actions : child[a] # "none" => at[a] \notin {"idle", "prepared", "boxing", "boxed"}

\* Whatever was started is in the file, with the isolation it ran under, however
\* writes fail and the process dies: no command runs that a reopened journal has
\* forgotten, calls refused, or calls only prepared.
SpawnedIsOnDisk ==
  \A a \in Actions : child[a] # "none" =>
    /\ kept[a].state \in {"Started", "Finished", "Acknowledged", "NeedsReconciliation"}
    /\ kept[a].boxed

\* The file never reads better than what happened: finished or acknowledged only
\* for a command that ended by itself, refused only for one that never ran.
RecordsAreHonest ==
  \A a \in Actions :
    /\ kept[a].state \in {"Finished", "Acknowledged"} => child[a] = "exited"
    /\ kept[a].state = "Refused" => child[a] = "none"
    /\ at[a] = "ok" => child[a] = "exited"

\* After reconcile_crashed_actions has returned without an error, the file itself has
\* no action of an earlier process still open, whatever its process appends later and
\* however those writes are cut short, if the file ended with a newline when it was
\* opened.  (Otherwise the first record is lost with the line it joins.)
ReconciledInTheFile ==
  journal = "settled" /\ whole =>
    \A a \in Actions : at[a] = "gone" => kept[a].state \notin {"Prepared", "Started"}

Over(a) == at[a] \in {"ok", "err", "dropped", "gone"}

\* A command in a process namespace ends: it exits, or it is taken down.
NamespacedCommandEnds ==
  \A a \in Actions : at[a] = "running" /\ isolation[a] = "namespaced" ~> Over(a)

\* "Prepared (Runner records to disk before acknowledging request)" (journal.rs:6):
\* what an append that returned Ok recorded is what a reopened journal reads.
RecordedIsRecoverable ==
  \A a \in Actions : at[a] = "prepared" => kept[a].state = "Prepared"
--------------------------------------------------------------------------------
(* The inductive invariant behind SpawnedIsOnDisk and RecordsAreHonest.         *)

\* A record does not contradict what became of the action's process.
Tells(a, r) ==
  /\ child[a] # "none" =>
       /\ r.state \in {"Started", "Finished", "Acknowledged", "NeedsReconciliation"}
       /\ r.boxed
  /\ r.state \in {"Finished", "Acknowledged"} => child[a] = "exited"
  /\ r.state = "Refused" => child[a] = "none"

\* The file tells the truth, also where a bare record would fall back to the one
\* before it, and so does an open journal's memory.
FileTells ==
  /\ \A a \in Actions : Tells(a, kept[a])
  /\ tail.kind = "bare" =>
       /\ Tells(tail.act, tail.before)
       /\ at[tail.act] \in {"err", "ok", "gone"}
  /\ journal # "closed" => \A a \in Actions : Tells(a, mem[a])

\* Where an action stands, what became of its process and which record is its
\* latest.  Between record_started and record_sandbox the file ends cleanly.
Standing(a) ==
  /\ at[a] = "idle" => mem[a] = NoRecord /\ kept[a] = NoRecord
  /\ at[a] \in {"idle", "prepared", "boxing", "boxed"} => child[a] = "none"
  /\ at[a] = "running" => child[a] = "running"
  /\ at[a] \in {"draining", "exited", "finished", "ok"} => child[a] = "exited"
  /\ at[a] = "interrupting" => child[a] = "killed"
  /\ at[a] = "boxing" => mem[a].state = "Started" /\ tail = Clean
  /\ at[a] \in {"boxed", "running", "draining", "exited", "interrupting"} =>
       /\ mem[a] = [state |-> "Started", boxed |-> TRUE]
       /\ kept[a] = mem[a]
  /\ at[a] = "finished" => mem[a] = [state |-> "Finished", boxed |-> TRUE]
  /\ journal \in {"closed", "reconciling"} => at[a] \in {"idle", "ok", "gone"}

\* What reconciling a file that ended with a newline relies on: until it ends, memory
\* and file agree on the earlier processes' actions, and after that no append joins
\* the line of one of them.
Reconciled ==
  whole =>
    /\ journal = "reconciling" =>
         tail = Clean /\ \A a \in Actions : at[a] = "gone" => mem[a] = kept[a]
    /\ journal = "settled" /\ tail.kind = "bare" => at[tail.act] # "gone"
    /\ ReconciledInTheFile

IInv == TypeOK /\ FileTells /\ \A a \in Actions : Standing(a)
================================================================================

------------------------------ MODULE MergeQueue ------------------------------
(***************************************************************************)
(* Agent workspaces and the merge queue (crates/git-workspaces,              *)
(* crates/git-broker): each agent works in a copy of the primary checkout,   *)
(* its changes are inspected against the primary checkout, and the queue     *)
(* merges one changeset at a time.  The operator works in the primary        *)
(* checkout all the while, and a process an agent left behind in its copy.   *)
(*                                                                           *)
(* A file's content is named for who wrote it, and content is compared by    *)
(* hash, so a name stands for both.  "link" is anything the broker neither   *)
(* reads nor writes: a link, a directory, a FIFO or a device.                *)
(***************************************************************************)
EXTENDS Sequences, Naturals

CONSTANTS
  Agents,
  Files,
  ReadsFresh,   \* TRUE when no file an agent copied has changed by the time
                \* inspect_changes reads it in the primary checkout
  MaxOutside    \* bound: edits by the operator, edits by agents, failed reads and writes

ASSUME MergeAssumption ==
  /\ Agents \cap {"start", "op", "none", "link", "torn", "uncopied", "unscanned", "out"} = {}
  /\ "idle" \notin Agents
  /\ ReadsFresh \in BOOLEAN
  /\ MaxOutside \in Nat

VARIABLES
  primary,   \* the primary checkout
  base,      \* what an agent's copy was made from
  work,      \* an agent's workspace
  pre, post, \* an agent's changeset: the hashes of each file in it
  at,        \* where an agent stands
  queue,     \* the pending items
  merge,     \* the item in hand: whose, how far, the files left, the file in hand
  touched,   \* the files of the primary checkout an agent's merge has changed
  applied,   \* the files its result names as written
  stopped,   \* the file its error names
  outside    \* how many outside events there were

vars == <<primary, base, work, pre, post, at, queue, merge, touched, applied, stopped, outside>>
copyVars == <<base, work, pre, post>>
resultVars == <<touched, applied, stopped>>

\* The primary checkout holds what was there, the operator's work, agents' work,
\* or what a write that failed left.
Content == Agents \cup {"start", "op", "none", "link", "torn"}

Results == {"merged", "conflict", "error"}
At == {"copying", "working", "scanning", "failed", "queued"} \cup Results
Idle == [who |-> "idle", stage |-> "idle", left |-> {}, file |-> "none"]
Stages == {"validate", "refuse", "read", "check", "replace", "verify"}

Move(a, to) == at' = [at EXCEPT ![a] = to]

Outside == outside < MaxOutside /\ outside' = outside + 1

--------------------------------------------------------------------------------
(* An agent's workspace.                                                      *)

\* copy_tree, one entry: a link is recreated or left out, a file is copied.
Copy(a, f) ==
  /\ at[a] = "copying"
  /\ base[a][f] = "uncopied"
  /\ base' = [base EXCEPT ![a][f] = primary[f]]
  /\ \E w \in IF primary[f] = "link" THEN {"none", "link"} ELSE {primary[f]} :
       work' = [work EXCEPT ![a][f] = w]
  /\ UNCHANGED <<primary, pre, post, at, queue, merge, resultVars, outside>>

Copied(a) ==
  /\ at[a] = "copying"
  /\ \A f \in Files : base[a][f] # "uncopied"
  /\ Move(a, "working")
  /\ UNCHANGED <<primary, copyVars, queue, merge, resultVars, outside>>

\* The agent writes, removes or links a file, also after its changes were inspected.
AgentEdits(a, f) ==
  /\ at[a] \in {"working", "scanning", "queued"}
  /\ Outside
  /\ \E c \in {a, "none", "link"} : work' = [work EXCEPT ![a][f] = c]
  /\ UNCHANGED <<primary, base, pre, post, at, queue, merge, resultVars>>

\* The operator writes, removes or links a file in the primary checkout.
OperatorEdits(f) ==
  /\ Outside
  /\ \E c \in {"op", "none", "link"} : primary' = [primary EXCEPT ![f] = c]
  /\ UNCHANGED <<copyVars, at, queue, merge, resultVars>>

--------------------------------------------------------------------------------
(* inspect_changes.                                                           *)

Inspect(a) ==
  /\ at[a] = "working"
  /\ Move(a, "scanning")
  /\ UNCHANGED <<primary, copyVars, queue, merge, resultVars, outside>>

\* One file.  Links and absent files of the workspace are not in the changeset.
\* The preimage is what the primary checkout holds now.
Scan(a, f) ==
  /\ at[a] = "scanning"
  /\ pre[a][f] = "unscanned"
  /\ ReadsFresh => primary[f] = base[a][f]
  /\ IF work[a][f] \in {"none", "link"} \/ work[a][f] = primary[f]
     THEN /\ pre' = [pre EXCEPT ![a][f] = "out"]
          /\ UNCHANGED <<post, at>>
     ELSE IF primary[f] = "link"
          THEN Move(a, "failed") /\ UNCHANGED <<pre, post>>
          ELSE /\ pre' = [pre EXCEPT ![a][f] = primary[f]]
               /\ post' = [post EXCEPT ![a][f] = work[a][f]]
               /\ UNCHANGED at
  /\ UNCHANGED <<primary, base, work, queue, merge, resultVars, outside>>

\* An entry cannot be read, or went after it was listed: no workspace, no changeset.
Fails(a) ==
  /\ at[a] \in {"copying", "scanning"}
  /\ Outside
  /\ Move(a, "failed")
  /\ UNCHANGED <<primary, copyVars, queue, merge, resultVars>>

\* The changeset is complete; the coordinator enqueues it.
Enqueue(a) ==
  /\ at[a] = "scanning"
  /\ \A f \in Files : pre[a][f] # "unscanned"
  /\ Move(a, "queued")
  /\ queue' = Append(queue, a)
  /\ UNCHANGED <<primary, copyVars, merge, resultVars, outside>>

Changes(a) == {f \in Files : pre[a][f] # "out"}

--------------------------------------------------------------------------------
(* process_next.                                                              *)

ProcessNext ==
  /\ merge = Idle
  /\ queue # <<>>
  /\ queue' = Tail(queue)
  /\ merge' = [who |-> Head(queue), stage |-> "validate", left |-> Changes(Head(queue)),
               file |-> "none"]
  /\ UNCHANGED <<primary, copyVars, at, resultVars, outside>>

On(stage) == merge.stage = stage

\* The item is answered; an error may name a file.
Answer(result, named) ==
  /\ Move(merge.who, result)
  /\ merge' = Idle
  /\ stopped' = [stopped EXCEPT ![merge.who] = named]

\* Mutant: a path is looked at, its content is not.
Matches_AnyContent(a, f) == primary[f] # "link"

\* Tree::entry, then the preimage.
Matches(a, f) == primary[f] # "link" /\ primary[f] = pre[a][f]

\* validate_preimages, one file: it goes on to the end, to name every conflict.
Validate(f) ==
  /\ merge.stage \in {"validate", "refuse"}
  /\ f \in merge.left
  /\ merge' = [merge EXCEPT !.left = @ \ {f},
                 !.stage = IF Matches(merge.who, f) THEN @ ELSE "refuse"]
  /\ UNCHANGED <<primary, copyVars, at, queue, resultVars, outside>>

Refuse ==
  /\ On("refuse") /\ merge.left = {}
  /\ Answer("conflict", "none")
  /\ UNCHANGED <<primary, copyVars, queue, touched, applied, outside>>

\* Mutant: a changeset without files is not looked for.
Validated_SomeFile ==
  /\ On("validate") /\ merge.left = {} /\ Changes(merge.who) # {}
  /\ merge' = [merge EXCEPT !.stage = "read", !.left = Changes(merge.who)]
  /\ UNCHANGED <<primary, copyVars, at, queue, resultVars, outside>>

Validated ==
  /\ On("validate") /\ merge.left = {}
  /\ merge' = [merge EXCEPT !.stage = "read", !.left = Changes(merge.who)]
  /\ UNCHANGED <<primary, copyVars, at, queue, resultVars, outside>>

\* A file that cannot be read, of either tree, ends the item.
Unreadable(f) ==
  /\ merge.stage \in {"validate", "refuse", "read", "check"}
  /\ f \in merge.left
  /\ Outside
  /\ Answer("error", f)
  /\ UNCHANGED <<primary, copyVars, queue, touched, applied>>

\* write_changes: every source is read before anything is written.
ReadSource(f) ==
  /\ On("read")
  /\ f \in merge.left
  /\ IF work[merge.who][f] = post[merge.who][f]
     THEN merge' = [merge EXCEPT !.left = @ \ {f}] /\ UNCHANGED <<at, stopped>>
     ELSE Answer("error", f)
  /\ UNCHANGED <<primary, copyVars, queue, touched, applied, outside>>

SourcesRead ==
  /\ On("read") /\ merge.left = {}
  /\ merge' = [merge EXCEPT !.stage = "check", !.left = Changes(merge.who)]
  /\ UNCHANGED <<primary, copyVars, at, queue, resultVars, outside>>

\* Tree::write: the preimage again, through the handle about to be written.  A
\* file that must not be there is created by the same call that checks it.
Check(f) ==
  /\ On("check")
  /\ f \in merge.left
  /\ IF Matches(merge.who, f)
     THEN /\ merge' = [merge EXCEPT !.stage = "replace", !.file = f]
          /\ IF primary[f] = "none"
             THEN /\ primary' = [primary EXCEPT ![f] = "torn"]
                  /\ touched' = [touched EXCEPT ![merge.who] = @ \cup {f}]
             ELSE UNCHANGED <<primary, touched>>
          /\ UNCHANGED <<at, stopped>>
     ELSE Answer("error", f) /\ UNCHANGED <<primary, touched>>
  /\ UNCHANGED <<copyVars, queue, applied, outside>>

\* set_len, write_all, sync_all on the handle, which no longer is the path's file
\* when the operator removed or replaced it.
Replace ==
  /\ On("replace")
  /\ LET f == merge.file  a == merge.who IN
       \E c \in {post[a][f], "torn"} :
         /\ IF primary[f] \in {"none", "link"}
            THEN UNCHANGED <<primary, touched>>
            ELSE /\ primary' = [primary EXCEPT ![f] = c]
                 /\ touched' = [touched EXCEPT ![a] = @ \cup {f}]
         /\ \/ c = post[a][f] /\ merge' = [merge EXCEPT !.stage = "verify"] /\ UNCHANGED <<at, stopped, outside>>
            \/ c = "torn" /\ Outside /\ Answer("error", f)
  /\ UNCHANGED <<copyVars, queue, applied>>

\* Mutant: the file is not read back.
Verify_NotReadBack ==
  /\ On("verify")
  /\ merge' = [merge EXCEPT !.stage = "check", !.left = @ \ {merge.file}, !.file = "none"]
  /\ applied' = [applied EXCEPT ![merge.who] = @ \cup {merge.file}]
  /\ UNCHANGED <<primary, copyVars, at, queue, touched, stopped, outside>>

\* verify_written; then the file is named as applied.
Verify ==
  /\ On("verify")
  /\ IF primary[merge.file] = post[merge.who][merge.file]
     THEN /\ merge' = [merge EXCEPT !.stage = "check", !.left = @ \ {merge.file}, !.file = "none"]
          /\ applied' = [applied EXCEPT ![merge.who] = @ \cup {merge.file}]
          /\ UNCHANGED <<at, stopped>>
     ELSE Answer("error", merge.file) /\ UNCHANGED applied
  /\ UNCHANGED <<primary, copyVars, queue, touched, outside>>

Merged ==
  /\ On("check") /\ merge.left = {}
  /\ Answer("merged", "none")
  /\ UNCHANGED <<primary, copyVars, queue, touched, applied, outside>>

--------------------------------------------------------------------------------

Init ==
  /\ primary \in [Files -> {"start", "none"}]
  /\ base = [a \in Agents |-> [f \in Files |-> "uncopied"]]
  /\ work = [a \in Agents |-> [f \in Files |-> "none"]]
  /\ pre = [a \in Agents |-> [f \in Files |-> "unscanned"]]
  /\ post = [a \in Agents |-> [f \in Files |-> "out"]]
  /\ at = [a \in Agents |-> "copying"]
  /\ queue = <<>>
  /\ merge = Idle
  /\ touched = [a \in Agents |-> {}]
  /\ applied = [a \in Agents |-> {}]
  /\ stopped = [a \in Agents |-> "none"]
  /\ outside = 0

QueueStep ==
  \/ ProcessNext \/ Refuse \/ Validated \/ SourcesRead \/ Replace \/ Verify \/ Merged
  \/ \E f \in Files : Validate(f) \/ ReadSource(f) \/ Check(f) \/ Unreadable(f)

Next ==
  \/ \E a \in Agents : Copied(a) \/ Inspect(a) \/ Fails(a) \/ Enqueue(a)
  \/ \E a \in Agents, f \in Files : Copy(a, f) \/ AgentEdits(a, f) \/ Scan(a, f)
  \/ \E f \in Files : OperatorEdits(f)
  \/ QueueStep

Spec == Init /\ [][Next]_vars

\* process_all goes on until the queue is empty.
FairSpec == Spec /\ WF_vars(QueueStep)

--------------------------------------------------------------------------------
(* Properties.                                                                *)

\* The variables keep their types, and the item in hand is one that was queued.
TypeOK ==
  /\ primary \in [Files -> Content]
  /\ base \in [Agents -> [Files -> Content \cup {"uncopied"}]]
  /\ work \in [Agents -> [Files -> Content]]
  /\ pre \in [Agents -> [Files -> Content \cup {"unscanned", "out"}]]
  /\ post \in [Agents -> [Files -> Content \cup {"out"}]]
  /\ at \in [Agents -> At]
  /\ queue \in Seq(Agents)
  /\ merge = Idle \/
       /\ merge \in [who : Agents, stage : Stages, left : SUBSET Files, file : Files \cup {"none"}]
       /\ at[merge.who] = "queued"
       /\ merge.stage \in {"replace", "verify"} => merge.file \in merge.left
  /\ touched \in [Agents -> SUBSET Files]
  /\ applied \in [Agents -> SUBSET Files]
  /\ stopped \in [Agents -> Files \cup {"none"}]
  /\ outside \in 0 .. MaxOutside

\* "If a sibling agent has mutated a target file, the conflict is flagged explicitly
\* rather than silently overwritten" (docs/PHASE_4_GATE_REPORT.md:23): what a merge
\* replaces of an agent's merged work, the copy it comes from already held.
SiblingWorkKept ==
  [][\A f \in Files :
       /\ merge.stage \in {"check", "replace"} /\ merge' # merge
       /\ primary[f] \in Agents
       /\ primary'[f] # primary[f]
       => base[merge.who][f] = primary[f]]_vars

\* "Conflicts are found before anything is written" (broker.rs:30), and an error
\* names what was written (broker.rs:285): no file of the primary checkout was
\* changed by a merge whose answer does not account for it.
AnswerAccounts ==
  \A a \in Agents :
    /\ at[a] = "conflict" => touched[a] = {}
    /\ at[a] = "merged"   => touched[a] = applied[a] /\ applied[a] = Changes(a)
    /\ at[a] = "error"    => touched[a] \subseteq applied[a] \cup {stopped[a]}

\* process_all answers every item that was enqueued.
EveryItemIsAnswered == \A a \in Agents : at[a] = "queued" ~> at[a] \in Results
--------------------------------------------------------------------------------
(* The inductive invariant behind SiblingWorkKept.                             *)

\* What waits is queued once, and the item in hand does not wait any more.
QueueInv ==
  /\ \A i \in 1 .. Len(queue) : at[queue[i]] = "queued"
  /\ \A i, j \in 1 .. Len(queue) : queue[i] = queue[j] => i = j
  /\ merge # Idle => \A i \in 1 .. Len(queue) : queue[i] # merge.who

\* A queued changeset is complete and states what the agent's copy was made from.
ChangesetInv ==
  /\ \A a \in Agents : at[a] \in {"queued"} \cup Results => \A f \in Files : pre[a][f] # "unscanned"
  /\ ReadsFresh => \A a \in Agents, f \in Files :
       pre[a][f] \in Content => pre[a][f] = base[a][f]
  /\ \A a \in Agents, f \in Files :
       pre[a][f] \notin {"unscanned", "out"} => post[a][f] \in Content

\* Once a file's preimage was checked, an agent's work that is in it is that preimage.
MergeInv ==
  merge # Idle =>
    /\ merge.left \subseteq Changes(merge.who)
    /\ On("replace") /\ primary[merge.file] \in Agents =>
         primary[merge.file] = pre[merge.who][merge.file]

IInv == TypeOK /\ QueueInv /\ ChangesetInv /\ MergeInv
================================================================================

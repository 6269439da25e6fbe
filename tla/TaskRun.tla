-------------------------------- MODULE TaskRun --------------------------------
(***************************************************************************)
(* A task run of the daemon (crates/daemon/src/server.rs, run_task) and the  *)
(* engine that executes it (crates/orchestration/src/engine.rs): it records  *)
(* what it is about to do, asks, acts, records what was done, and at the end *)
(* writes a receipt into the workspace.  The daemon serves any number of runs *)
(* at once, and it may die between any two steps.                            *)
(*                                                                           *)
(* A run and its receipt are named by the millisecond it started in, so two  *)
(* runs may share a name.  An event's hash stands for the run that recorded it *)
(* and its number.                                                           *)
(***************************************************************************)
EXTENDS Naturals, Sequences, FiniteSets, Functions, Receipts

CONSTANTS
  Sessions,  \* sessions, all on one workspace
  Configs,   \* what run_task may be called with
  Machines,  \* how the daemon's runner may run commands: "sandboxed", "bare", "fake"
  MaxFaults  \* bound: failed calls and deaths of the daemon

ConfigType == [auto_approve : BOOLEAN, allow_unsandboxed : BOOLEAN, edit : BOOLEAN, verify : BOOLEAN]

ASSUME TaskAssumption ==
  /\ Configs \subseteq ConfigType
  /\ Machines \subseteq {"sandboxed", "bare", "fake"}
  /\ MaxFaults \in Nat

VARIABLES
  machine,   \* how commands run: found out once, when the daemon first asks
  rows,      \* the events table
  runs,      \* SessionInfo.runs
  session,   \* which sessions the daemon has in memory
  config,    \* what each run was called with
  engine,    \* the engine of each run
  at,        \* what a run does next, or how it ended
  signed,    \* the receipt a run signed
  \* Auxiliary: read by no action.
  effects,   \* the tools a run executed, in order: those that did something
  faults

vars == <<machine, rows, runs, session, config, engine, at, receipts, written, clock, signed, effects, faults>>
daemonVars == <<machine, runs, session, config>>
fileVars == <<receipts, written, clock, signed>>

Tools == {"list_dir", "write_file", "run_command"}
Mutating == Tools \ {"list_dir"}
Types == {"TurnStarted", "ContextAssembled", "ApprovalRequested", "ApprovalGranted",
          "UnsandboxedRequested", "UnsandboxedGranted", "ToolStarted", "ToolFinished", "ReceiptGenerated"}
Active == {"register", "turn", "context", "ask", "decide", "grant", "ask_bare", "decide_bare",
           "grant_bare", "start", "execute", "finish", "receipt", "write", "report"}
Over == {"done", "refused", "failed", "crashed"}

GENESIS_HASH == <<"genesis", 0>>
Hashes == Runs \X Nat \cup {GENESIS_HASH}
Hash(e) == <<e.run, e.seq>>

Row == [id : Ids, run : Runs, seq : Nat, type : Types, tool : Tools \cup {"none"}, prev : Hashes]
Backend == [sandboxed |-> "bubblewrap", bare |-> "none", fake |-> "no_process"]

Unasked == [session |-> "none", id |-> "none", call |-> "none"]
Fresh(n) ==
  [step |-> "none", next |-> n, tip |-> GENESIS_HASH, changes |-> 0, statements |-> <<>>, evidence |-> "none", ok |-> FALSE]
NoReceipt == [events |-> {}, label |-> "none", changes |-> 0, statements |-> <<>>, evidence |-> "none"]

Id(r) == config[r].id
Step(r) == engine[r].step
RowsOf(r) == {e \in rows : e.run = r}
Log(id) == {e \in rows : e.id = id}
Move(r, to) == at' = [at EXCEPT ![r] = to]

\* DaemonServer::next_session_sequence: one past the highest number stored under the
\* names of the session's runs.
IsNextSequence(s, n) ==
  LET used == {e.seq : e \in {f \in rows : f.id \in Range(runs[s])}}
  IN (\A q \in used : q < n) /\ (n = 1 \/ n - 1 \in used)

--------------------------------------------------------------------------------
(* run_task and record_event.                                                 *)

\* DaemonServer::create_session.
CreateSession(s) ==
  /\ session[s] = "unmade"
  /\ session' = [session EXCEPT ![s] = "open"]
  /\ UNCHANGED <<machine, rows, runs, config, engine, at, fileVars, effects, faults>>

\* The number the run starts at is read before it is registered.
NumberRun(r, s) ==
  /\ at[r] = "new"
  /\ session[s] = "open"
  /\ \E c \in Configs, id \in Ids, n \in 1 .. Cardinality(rows) + 1 :
       /\ IsNextSequence(s, n)
       /\ config' = [config EXCEPT ![r] = [session |-> s, id |-> id, call |-> c]]
       /\ engine' = [engine EXCEPT ![r] = Fresh(n)]
  /\ Move(r, "register")
  /\ UNCHANGED <<machine, rows, runs, session, fileVars, effects, faults>>

RegisterRun(r) ==
  /\ at[r] = "register"
  /\ runs' = [runs EXCEPT ![config[r].session] = Append(@, Id(r))]
  /\ Move(r, "turn")
  /\ UNCHANGED <<machine, rows, session, config, engine, fileVars, effects, faults>>

\* Mutant: the chain continues from the last row of that name in the table.
Prev_FromTheStore(r) ==
  IF Log(Id(r)) = {} THEN GENESIS_HASH
  ELSE Hash(CHOOSE e \in Log(Id(r)) : \A f \in Log(Id(r)) : f.seq <= e.seq)

\* last_event_hash: every run's chain starts at GENESIS_HASH.
Prev(r) == engine[r].tip

\* record_event over append_event: the table holds no two events of one name and
\* number, and a run whose INSERT fails is over.
Record(r, type, e, to) ==
  LET row == [id |-> Id(r), run |-> r, seq |-> engine[r].next, type |-> type,
              tool |-> Step(r), prev |-> Prev(r)]
  IN IF \E f \in Log(Id(r)) : f.seq = row.seq
     THEN Move(r, "failed") /\ UNCHANGED <<rows, engine>>
     ELSE /\ rows' = rows \cup {row}
          /\ engine' = [engine EXCEPT ![r] = [e EXCEPT !.next = @ + 1, !.tip = Hash(row)]]
          /\ Move(r, to)

\* The step after a step: list_dir, then the edit the prompt asks for, then what
\* verifies it; then the receipt.
NextStep(r) ==
  IF Step(r) = "none" THEN "list_dir"
  ELSE IF Step(r) = "list_dir" /\ config[r].call.edit THEN "write_file"
  ELSE IF Step(r) # "run_command" /\ config[r].call.verify THEN "run_command"
  ELSE "none"

Begin(e, next) == [e EXCEPT !.step = next]

TurnStarted(r) ==
  /\ at[r] = "turn"
  /\ Record(r, "TurnStarted", Begin(engine[r], NextStep(r)), "context")
  /\ UNCHANGED <<daemonVars, fileVars, effects, faults>>

--------------------------------------------------------------------------------
(* execute_task_step.                                                         *)

ContextAssembled(r) ==
  /\ at[r] = "context"
  /\ Record(r, "ContextAssembled", engine[r], IF Step(r) \in Mutating THEN "ask" ELSE "start")
  /\ UNCHANGED <<daemonVars, fileVars, effects, faults>>

ApprovalRequested(r) ==
  /\ at[r] = "ask"
  /\ Record(r, "ApprovalRequested", engine[r], "decide")
  /\ UNCHANGED <<daemonVars, fileVars, effects, faults>>

Decide(r) ==
  /\ at[r] = "decide"
  /\ Move(r, IF config[r].call.auto_approve THEN "grant" ELSE "refused")
  /\ UNCHANGED <<daemonVars, rows, engine, fileVars, effects, faults>>

\* Mutant: approving the work approves that it runs with no sandbox.
Unsandboxed_IsApproved(r) == FALSE

\* A command that cannot be sandboxed needs an approval of its own.
Unsandboxed(r) == Step(r) = "run_command" /\ machine = "bare"

ApprovalGranted(r) ==
  /\ at[r] = "grant"
  /\ Record(r, "ApprovalGranted", engine[r], IF Unsandboxed(r) THEN "ask_bare" ELSE "start")
  /\ UNCHANGED <<daemonVars, fileVars, effects, faults>>

UnsandboxedRequested(r) ==
  /\ at[r] = "ask_bare"
  /\ Record(r, "UnsandboxedRequested", engine[r], "decide_bare")
  /\ UNCHANGED <<daemonVars, fileVars, effects, faults>>

DecideUnsandboxed(r) ==
  /\ at[r] = "decide_bare"
  /\ Move(r, IF config[r].call.allow_unsandboxed THEN "grant_bare" ELSE "refused")
  /\ UNCHANGED <<daemonVars, rows, engine, fileVars, effects, faults>>

UnsandboxedGranted(r) ==
  /\ at[r] = "grant_bare"
  /\ Record(r, "UnsandboxedGranted", engine[r], "start")
  /\ UNCHANGED <<daemonVars, fileVars, effects, faults>>

\* Mutant: a tool is recorded as started by the record of its end.
ToolStarted_Late(r) ==
  /\ at[r] = "start"
  /\ Move(r, "execute")
  /\ UNCHANGED <<daemonVars, rows, engine, fileVars, effects, faults>>

ToolStarted(r) ==
  /\ at[r] = "start"
  /\ Record(r, "ToolStarted", engine[r], "execute")
  /\ UNCHANGED <<daemonVars, fileVars, effects, faults>>

\* How a tool's call comes out: whether it did something, came to an end, and says that
\* it succeeded.
Outcome == [did : BOOLEAN, ended : BOOLEAN, ok : BOOLEAN]

ListDir == {o \in Outcome : ~o.did /\ o.ok = o.ended}

\* Written and read back, or an error before the file was changed or after.
WriteFile == {o \in Outcome : (o.ended => o.did) /\ o.ok = o.ended}

\* A command that ran to its end reports whether it succeeded; it may be stopped before.
RunCommand == {o \in Outcome : (o.ended => o.did) /\ (o.ok => o.ended)}

\* tool.execute(..).await.
Execute(r) ==
  /\ at[r] = "execute"
  /\ \E o \in CASE Step(r) = "list_dir" -> ListDir
                [] Step(r) = "write_file" -> WriteFile
                [] Step(r) = "run_command" -> RunCommand :
       /\ effects' = IF o.did THEN [effects EXCEPT ![r] = Append(@, Step(r))] ELSE effects
       /\ engine' = [engine EXCEPT ![r].ok = o.ok]
       /\ Move(r, IF o.ended THEN "finish" ELSE "failed")
  /\ UNCHANGED <<daemonVars, rows, fileVars, faults>>

\* Mutant: only a command that succeeded leaves its statement.
Finished_OnlySuccess(r) ==
  LET e == engine[r]
  IN CASE Step(r) = "write_file" -> [e EXCEPT !.changes = @ + 1]
       [] Step(r) = "run_command" ->
            [e EXCEPT !.statements = IF e.ok THEN Append(@, Backend[machine]) ELSE @,
                      !.evidence = IF e.ok THEN "sandbox_captured" ELSE "model_reported"]
       [] OTHER -> e

\* What the engine keeps of a tool's result, and the evidence finalize_run makes of
\* its verification: graded by success alone.
Finished(r) ==
  LET e == engine[r]
  IN CASE Step(r) = "write_file" -> [e EXCEPT !.changes = @ + 1]
       [] Step(r) = "run_command" ->
            [e EXCEPT !.statements = Append(@, Backend[machine]),
                      !.evidence = IF e.ok THEN "sandbox_captured" ELSE "model_reported"]
       [] OTHER -> e

ToolFinished(r) ==
  /\ at[r] = "finish"
  /\ Record(r, "ToolFinished", Begin(Finished(r), NextStep(r)), IF NextStep(r) = "none" THEN "receipt" ELSE "context")
  /\ UNCHANGED <<daemonVars, fileVars, effects, faults>>

--------------------------------------------------------------------------------
(* finalize_run.                                                              *)

\* observed_isolation_label.
Label(r) == IF "none" \in Range(engine[r].statements) THEN "full_access" ELSE "guarded"

\* The receipt is made and signed, and fs::write opens and truncates its file.
MakeReceipt(r) ==
  /\ at[r] = "receipt"
  /\ signed' = [signed EXCEPT ![r] =
       [events |-> {Hash(e) : e \in RowsOf(r)}, label |-> Label(r), changes |-> engine[r].changes,
        statements |-> engine[r].statements, evidence |-> engine[r].evidence]]
  /\ OpenReceipt(Id(r))
  /\ Move(r, "write")
  /\ UNCHANGED <<daemonVars, rows, engine, effects, faults>>

\* Mutant: the file is left to a later flush.
WriteReceipt_Later(r) ==
  /\ at[r] = "write"
  /\ Move(r, "report")
  /\ UNCHANGED <<daemonVars, rows, engine, fileVars, effects, faults>>

WriteReceipt(r) ==
  /\ at[r] = "write"
  /\ FillReceipt(Id(r), r)
  /\ Move(r, "report")
  /\ UNCHANGED <<daemonVars, rows, engine, signed, effects, faults>>

ReceiptGenerated(r) ==
  /\ at[r] = "report"
  /\ Record(r, "ReceiptGenerated", engine[r], "done")
  /\ UNCHANGED <<daemonVars, fileVars, effects, faults>>

--------------------------------------------------------------------------------
(* Faults.                                                                    *)

Fault == faults < MaxFaults /\ faults' = faults + 1

\* A call that can fail does: the run returns the error, and records nothing more.
Fail(r) ==
  /\ at[r] \in Active \ {"register", "decide", "decide_bare", "execute"}
  /\ Fault
  /\ Move(r, "failed")
  /\ UNCHANGED <<daemonVars, rows, engine, fileVars, effects>>

\* The daemon dies, and its sessions with it: a tool that was running may have done
\* its work.  Committed rows survive a process.
Crash ==
  /\ \E r \in Runs : at[r] \in Active
  /\ Fault
  /\ at' = [r \in Runs |-> IF at[r] \in Active THEN "crashed" ELSE at[r]]
  /\ session' = [s \in Sessions |-> IF session[s] = "open" THEN "gone" ELSE session[s]]
  /\ \E did \in SUBSET {r \in Runs : at[r] = "execute" /\ Step(r) \in Mutating} :
       effects' = [r \in Runs |-> IF r \in did THEN Append(effects[r], Step(r)) ELSE effects[r]]
  /\ UNCHANGED <<machine, rows, runs, config, engine, fileVars>>

--------------------------------------------------------------------------------
(* EventStore::replay_run.                                                    *)

\* The hash of the row before e when a name's rows are read in the order of their numbers.
Before(e) ==
  LET lower == {f \in Log(e.id) : f.seq < e.seq}
  IN IF lower = {} THEN GENESIS_HASH ELSE Hash(CHOOSE f \in lower : \A g \in lower : g.seq <= f.seq)

Chained(id) == \A e \in Log(id) : e.prev = Before(e)

\* Nothing records ToolProposed or RunStateChanged, so no log replays as completed or failed.
Mark(type) ==
  CASE type \in {"ApprovalRequested", "UnsandboxedRequested"} -> "WaitingForApproval"
    [] type = "ToolStarted" -> "RunningTool"
    [] type = "ToolFinished" -> "RunningModel"
    [] OTHER -> "none"

Replay(id) ==
  LET marks == {e \in Log(id) : Mark(e.type) # "none"}
  IN IF ~Chained(id) THEN "NeedsReconciliation"
     ELSE IF marks = {} THEN "Queued"
     ELSE Mark((CHOOSE e \in marks : \A f \in marks : f.seq <= e.seq).type)

--------------------------------------------------------------------------------

Init ==
  /\ machine \in Machines
  /\ rows = {}
  /\ runs = [s \in Sessions |-> <<>>]
  /\ session = [s \in Sessions |-> "unmade"]
  /\ config = [r \in Runs |-> Unasked]
  /\ engine = [r \in Runs |-> Fresh(1)]
  /\ at = [r \in Runs |-> "new"]
  /\ ReceiptsInit
  /\ signed = [r \in Runs |-> NoReceipt]
  /\ effects = [r \in Runs |-> <<>>]
  /\ faults = 0

RunStep(r) ==
  \/ RegisterRun(r) \/ TurnStarted(r) \/ ContextAssembled(r)
  \/ ApprovalRequested(r) \/ Decide(r) \/ ApprovalGranted(r)
  \/ UnsandboxedRequested(r) \/ DecideUnsandboxed(r) \/ UnsandboxedGranted(r)
  \/ ToolStarted(r) \/ Execute(r) \/ ToolFinished(r)
  \/ MakeReceipt(r) \/ WriteReceipt(r) \/ ReceiptGenerated(r)

Next ==
  \/ \E s \in Sessions : CreateSession(s)
  \/ \E r \in Runs, s \in Sessions : NumberRun(r, s)
  \/ \E r \in Runs : RunStep(r) \/ Fail(r)
  \/ Crash

Spec == Init /\ [][Next]_vars
--------------------------------------------------------------------------------
(* Properties.                                                                *)

\* The variables keep their types, a run's next number is above all it has recorded,
\* and a receipt file holds the receipt of a run of its name.
TypeOK ==
  /\ machine \in Machines
  /\ rows \subseteq Row
  /\ runs \in [Sessions -> Seq(Ids)]
  /\ session \in [Sessions -> {"unmade", "open", "gone"}]
  /\ \A r \in Runs :
       config[r] \in IF at[r] = "new" THEN {Unasked} ELSE [session : Sessions, id : Ids, call : Configs]
  /\ at \in [Runs -> {"new"} \cup Active \cup Over]
  /\ \A r \in Runs : engine[r].step \in Tools \cup {"none"} /\ engine[r].tip \in Hashes
  /\ \A r \in Runs : \A e \in RowsOf(r) : e.id = Id(r) /\ e.seq < engine[r].next
  /\ \A id \in Ids :
       receipts[id] \in {"absent", "torn"} \cup {r \in Runs : Id(r) = id /\ signed[r] # NoReceipt}
  /\ clock \in Nat
  /\ written \in [Ids -> 0 .. clock]
  /\ \A id \in Ids : receipts[id] = "absent" <=> written[id] = 0
  /\ effects \in [Runs -> Seq(Mutating)]
  /\ faults \in 0 .. MaxFaults

\* The name is no other run's.
Alone(r) == \A q \in Runs : at[q] # "new" /\ Id(q) = Id(r) => q = r

Recorded(r, type, tool) == \E e \in RowsOf(r) : e.type = type /\ e.tool = tool

\* "Approving the actions a run wants to take and approving that they run outside a
\* sandbox are different decisions" (engine.rs:29): whatever a run did to the
\* workspace, the caller approved, and the log has the approval; of a command with no
\* sandbox around it, both.
EffectsWereApproved ==
  \A r \in Runs : \A t \in Range(effects[r]) :
    /\ config[r].call.auto_approve /\ Recorded(r, "ApprovalGranted", t)
    /\ t = "run_command" /\ machine = "bare"
       => config[r].call.allow_unsandboxed /\ Recorded(r, "UnsandboxedGranted", t)

FinishedEffects(r) == {e \in RowsOf(r) : e.type = "ToolFinished" /\ e.tool \in Mutating}

\* What the log of a run replays as is where it stands: a run that did something the
\* log does not have the end of, because it is in the middle, failed or the daemon
\* died, is one whose tool is running, and one that was refused waits for approval.
ReplayIsHonest ==
  \A r \in Runs :
    at[r] # "new" /\ Alone(r) =>
      /\ Len(effects[r]) > Cardinality(FinishedEffects(r)) => Replay(Id(r)) = "RunningTool"
      /\ at[r] = "refused" => Replay(Id(r)) = "WaitingForApproval"
      /\ Replay(Id(r)) # "NeedsReconciliation"

\* Two runs started in one millisecond write one log: once both have recorded
\* something, replaying it says that it cannot be read as a run's.
MixedLogIsNoticed ==
  \A id \in Ids :
    Cardinality({e.run : e \in Log(id)}) > 1 => Replay(id) = "NeedsReconciliation"

Did(r, tool) == {i \in DOMAIN effects[r] : effects[r][i] = tool}

\* "A single action that ran unsandboxed decides the label for the whole run"
\* (engine.rs:350): a receipt has every event its run recorded before it, every effect
\* its run had, and the label of the least confined.
ReceiptIsTheRun ==
  \A r \in Runs :
    LET s == signed[r]
    IN s # NoReceipt =>
         /\ \A e \in RowsOf(r) : Hash(e) \in s.events \/ e.type = "ReceiptGenerated"
         /\ s.changes = Cardinality(Did(r, "write_file"))
         /\ Len(s.statements) = Cardinality(Did(r, "run_command"))
         /\ (s.label = "full_access") <=> (Did(r, "run_command") # {} /\ machine = "bare")

\* An event that announces a receipt has one behind it: the file of a run of which it
\* is recorded holds that run's receipt, unless another run has its name.
AnnouncedReceiptIsThere ==
  \A r \in Runs : Recorded(r, "ReceiptGenerated", "none") /\ Alone(r) => receipts[Id(r)] = r
================================================================================

# Formal models of Vitna Code

TLA+ models of the parts of Vitna Code whose correctness depends on the order in
which things happen: runs executed, recorded and replayed by a daemon, event streams
read by clients, commands run, confined and journalled, keys made, agents' changes
merged, tasks of a graph started, the requests of a browser page, and files read and
written while other programs move them.  TLC checks the models on small instances;
TLAPS proves every invariant and refinement for every value of the constants.

Paths below are relative to the repository's root.

- [Inventory](#inventory)
- [Modules and the code](#modules-and-the-code)
- [What the runs check](#what-the-runs-check)
- [Bounds](#bounds)
- [Fairness](#fairness)
- [What is proved](#what-is-proved)
- [Where code and documents disagree](#where-code-and-documents-disagree)
- [What is abstracted](#what-is-abstracted)
- [What is not modelled](#what-is-not-modelled)
- [Plan](#plan)

## Inventory

A client (desktop, terminal, CLI) opens a connection to the daemon and creates a
session.  A task of the session is a *run*: the orchestration engine assembles
context, asks for approval, calls a tool, and records every step as an event in
the event store.  The store publishes each event on a broadcast channel; a stream
task per subscription forwards them to the client, which keeps one cursor per
session.  Tools read and write files through one file layer and start commands
through the runner, which journals each of them before it starts it.  At its end a
run is signed into a receipt with the device key.  Agents work in copies of the
checkout, and the git broker merges their changes back one at a time.  `vitna app`
is a second way in, without the daemon: a local HTTP server that gives a browser
page the file layer, the runner and receipts.

| Component | State it keeps | Operations | What is hard | What makes it correct |
| --- | --- | --- | --- | --- |
| Event store `crates/store` | `events` table (SQLite, WAL), a broadcast channel | `append_event`, `events_after`, `last_sequence`, `subscribe`, `replay_run` | readers between two appends, a channel that overflows | rows only grow; the feed carries the rows in table order |
| Daemon sessions `crates/daemon/src/server.rs` | in-memory session map, each with its run list | `create_session`, `next_session_sequence`, `register_run`, `run_task` | numbering, registering and recording are separate critical sections | a session's events are numbered 1, 2, 3, ... over all its runs |
| Daemon IPC `crates/daemon/src/ipc.rs` | per connection: handshake, write queue, pump, stream tasks | `serve_connection`, `stream_events`, `forward_event` | replay racing the live feed, lag, full queue, a client that is gone | a subscriber gets every event after its resume point once, in order |
| Command runner `crates/vitna-runner` | action journal (memory and file), child process | `run_command`, `record_*`, `open`, `reconcile_crashed_actions` | crash or failed write at any of five records, timeout, dropped future, pipes that stay open | nothing that was started is missing from the file; the file never reads better than what happened |
| Device key `crates/daemon/src/key.rs` | one key file, staging files | `load_or_create`, `public_key_in` | daemons that start at the same moment, deaths between system calls | one key for all, never replaced, never half written |
| Agent workspaces `crates/git-workspaces` | a copy of the checkout per agent | `create_isolated_workspace` (`copy_tree`), `cleanup_workspace` | the checkout changes while it is copied | a copy is what the checkout held, entry by entry |
| Git broker and merge queue `crates/git-broker` | pending changesets, the primary checkout | `inspect_changes`, `validate_preimages`, `write_changes`, `enqueue`, `process_next`, `process_all` | the operator and other agents write meanwhile; a merge stops in the middle | no sibling's work is overwritten; the answer names all that was written |
| Task graph `crates/orchestration/src/dag.rs` | dependencies and status of each task | `add_node`, `validate`, `get_ready_tasks`, `mark_*` | stale ready lists, diamonds, cycles, the iteration order of a HashMap | nothing runs early, nothing waits for ever, a failure cancels exactly what is downstream |
| App server `crates/app-server`, file layer `crates/tools/src/workspace_fi*.rs`, `workspace_fs.rs` | one command slot, a journal of effects per session, receipts, the folder | `fs/write`, `fs/remove`, `run`, `receipt`; `prepare_*`, `commit_*` | concurrent requests, other programs, a receipt that fails, clients that hang up | each answered effect is in one receipt exactly once, and receipts end at what the disk holds |
| Orchestration engine `crates/orchestration/src/engine.rs` | counter, hash chain, evidence, diffs of one run | `record_event`, `execute_task_step`, `finalize_run` | a step fails after its event; refusals; the daemon dies; two runs with one name | nothing is done without approval and its record; the receipt is what the run did |
| Run replay `crates/store` | none | `replay_run` | runs cut short, logs that two runs wrote | a log replays as no better than what happened |
| Receipts directory `.vitna/receipts` | a file per run id | written in place, listed and read by clients | readers while it is written | a reader sees a receipt, or that it cannot be read |
| Desktop client `apps/vitna-desktop` | last sequence, pending gap, run state | reducer, `subscribe`, resubscription | gaps, several streams on one connection | what is shown is the log in order, and a gap is closed |
| Terminal `apps/vitna-tui` | link, ledger, screen, chosen row, draft | two probes per look, keys | looks that overlap, a list that shrinks under the chosen row | the list is true for its time, the place is in it |
| Tools `crates/tools` | none of their own | a path is resolved, opened, checked, read, written, removed | folders renamed and replaced by links between any two system calls | no file outside the workspace is read or changed |
| Sandbox `crates/vitna-sandbox` | what was probed | a plan: protected paths, pins, mounts | a command, and other programs, that rename what was planned for | protected paths still lead to what they held |
| Processes of a command `crates/vitna-runner/src/tree.rs` | group, job or namespace | spawn, attach, `kill_tree`, `Guard` | forks during the teardown, processes that leave the group | nothing of a command survives a teardown called complete |
| Receipts, verifier `crates/receipts`, `crates/vitna-receipt-verify` | none | sign, check of form, check of signature | the file changes between the checks | what is called verified was signed |
| Launch `crates/daemon/src/launch.rs`, `ipc.rs` (`serve`) | socket file per endpoint | resolve, open, clear a stale socket, bind, announce; look for a daemon | several daemons at once, killed anywhere | one that announced itself can be reached; a client misses none |
| Admission `crates/app-server/src/admission.rs` | launch codes, sessions | `launch_url`, checks of a request, exchange of a code | requests with one code at once, the clock | one session per code, in time |
| Page reads `crates/app-server/src/ledger.rs`, `routines.rs` | none | tail of the ledger, listing of routines | the files grow while they are read | rows are whole and newest, replies within their bounds |
| Credentials `crates/providers` | entries of the system's store | `resolve`, `check`, `set_api_key`, `delete_api_key` | threads and other programs at one entry | a read answers what was last written, of its provider |
| Policy, MCP, host git, context, evaluation, protocol codec, CLI, skills, telemetry | see `PROJECT.json` | | sequential, or formatting | not modelled |

The hazards, each at its line and with the properties that would catch it going
wrong, are listed in `PROJECT.json`.

## Modules and the code

`PROJECT.json` maps every definition to the lines it stands for.  An action is a
stretch of code between two points where something else can happen: a lock that is
taken, an `await`, a system call others can see.

| Module | Extends or instantiates | Code |
| --- | --- | --- |
| `SessionRuns` | | `store/src/lib.rs`, `daemon/src/server.rs`, `engine.rs` (`record_event`) |
| `EventStream` | extends `SessionRuns` | `daemon/src/ipc.rs` |
| `SessionLog` | abstract; instantiated by `EventStream` | what a subscriber is promised |
| `CommandRunner` | | `vitna-runner/src/lib.rs`, `journal.rs`, `tree.rs` |
| `DeviceKey` | | `daemon/src/key.rs` |
| `MergeQueue` | | `git-broker/src/broker.rs`, `merge_queue.rs`, `tree.rs`, `git-workspaces` (`copy_tree`) |
| `TaskGraph` | | `orchestration/src/dag.rs` |
| `TaskPlan` | abstract; instantiated by `TaskGraph` | what each call on the graph is to do |
| `AppServer` | | `app-server/src/api.rs`, `journal.rs`, `lib.rs`, `tools/src/workspace_files.rs`, `workspace_fs.rs` |
| `TaskRun` | extends `Receipts` | `orchestration/src/engine.rs`, `daemon/src/server.rs` (`run_task`), `store/src/lib.rs` (`replay_run`) |
| `Receipts` | | `engine.rs` (`finalize_run`): the files |
| `Terminal` | extends `Receipts` | `vitna-tui/src/app.rs`, `ledger.rs`, `link.rs` |
| `ClientSession` | | `vitna-desktop/src`: `client.ts`, `useSession.ts`, `reducer.ts` |
| `Launch` | | `daemon/src/launch.rs`, `main.rs`, `ipc.rs` (`serve`), `protocol/src/endpoint.rs`, `vitna-tui/src/link.rs` |
| `FrontDoor` | | `app-server/src/admission.rs`, `lib.rs` (`launch_url`), `api.rs` (`handle`, `start_session`) |
| `PageReads` | | `app-server/src/ledger.rs`, `routines.rs` |
| `WorkspaceWalk` | | `tools/src/workspace_fs.rs`, `workspace_files.rs`, `git-broker/src/tree.rs`, `api.rs` (`allowed`) |
| `Sandbox` | | `vitna-sandbox/src/lib.rs` |
| `ProcessTree` | | `vitna-runner/src/tree.rs`, `lib.rs` (`run_command`) |
| `Keyring` | | `providers/src/credentials.rs`, `keyring.rs` |
| `ReceiptCheck` | | `receipts/src/lib.rs`, `vitna-receipt-verify`, `vitna-cli/src/main.rs` (`run_verify`) |
| `Surroundings` | extends the ten before it but `TaskRun` and `Receipts` | one place to a behaviour |
| `<M>Proofs` | extends `<M>` and `TLAPS` | theorems about `<M>` |
| `MC<M>` | extends `<M>` | names and symmetry for TLC |

**SessionRuns.**  `rows` is the events table in insertion order; `sessions` and
`runs` are the daemon's session map and each `SessionInfo.runs`.  `run_task` is
split where it takes a lock: `NumberRun` (`next_session_sequence`), `RegisterRun`
(`register_run`), `RecordEvent` (`record_event` over `append_event`), `EndRun`.

**EventStream.**  `serve_connection` is the actions of a connection `c`:
`Handshake`, `Refuse`, `Subscribe`, `BadFrame` (a frame that does not parse ends the
reader, with the client still there), `ReaderEnds`, and the pump's `PumpWrites`,
`PumpFails`, `PumpDrains`.  `stream_events` is the actions of a task `t`: it takes
the feed (`Subscribe`), copies the run list (`ReadRuns`), reads the store
(`ReadStore`), sends (`SendStored`), turns to the feed (`GoLive`), and receives
(`RecvLive`, `RecvLagged`).  The feed is the table itself and a receiver a position
in it: `append_event` publishes inside the store lock.

**SessionLog.**  A log per session and a cursor that moves over it one entry at a
time.  `ImplementsSessionLog` maps the length of the log to the number of stored
events and the cursor to `last_sent`.

**CommandRunner.**  One `run_command` per action `a`: `Prepare`, `Refuse`, `Start`,
`RecordSandbox`, `Spawn` or `SpawnFails`, then `Drain`, `TimeOut`,
`RecordInterrupted`, `Finish`, `Acknowledge`; `Dropped` is the caller that stops
waiting, `Crash` the death of the runner's process, `Open`, `ReconcileOne` and
`ReconcileEnds` what the next process does.  The file is what `open` would read
from it (`kept`) and how it ends (`tail`): `append_entry` writes the record and its
newline in two calls, either of which may fail or be the last.

**DeviceKey.**  Each system call of `load_or_create` and `public_key_in` is a step
of a call `c`: `Look`, `Clear` (removes an empty file), `Stage`, `Write`, `Place`
(`hard_link`), `Unstage`, `Read`, `Report`, each with its failure, and `Die`.  A
staging name is a process id and a counter; after a death it may come again.

**MergeQueue.**  An agent copies the checkout (`Copy`), works (`AgentEdits`), is
inspected (`Inspect`, `Scan`) and queued (`Enqueue`).  The queue's item passes
`Validate`, `ReadSource`, and per file `Check`, `Replace`, `Verify`; the operator
(`OperatorEdits`) and processes the agent left behind may write between any two.

**TaskGraph.**  The loops of `validate` (Kahn's algorithm: `Collect`, `NextTask`,
`Release`, `Validated`) and `mark_failed` (the cascade: `NextParent`, `Cancel`,
`Failed`) are taken iteration by iteration, in any order of a HashMap; the other
calls are one step.  The coordinator starts only tasks of the list it was last
given, however old, and ends only tasks that run.

**TaskPlan.**  The same calls, each one step defined by what it means: a graph is
accepted when it has no cycle, a failure cancels the least set of pending tasks
closed under "depends on".  `ImplementsTaskPlan` maps its status to `seen`, the
status as of the last call that returned: inside a call nobody can look
(`&mut self`).

**AppServer.**  A request `r` is a task.  `Send` is the page: a change names what
the file held when the page read it.  A write is `Prepare` (open, hash, compare),
`Open` (truncate, or create), `Write`, `Verify` (read back); a removal `Prepare`,
`Check` (the name still leads to what was hashed), `Unlink`.  `held` says whether
the open handle is still what the path leads to.  A command is `RefuseRun`, or
`Wait` for the one slot, `Start`, `End`; it may `Linger` before its end, when it has
exited and what it left behind, outside a namespace, still has its pipes, which the runner
reads with no limit.  `Drop` is its client that hangs up.
`Record` appends the effect to the session's journal; a receipt is `Take` (empties
the journal), then `Sign`, or `Restore` (puts the effects back in front).

**TaskRun.**  A run `r` is `run_task` and the engine it starts: `NumberRun`,
`RegisterRun`, then `execute_task_step` for each step of its configuration
(`TurnStarted`, `ContextAssembled`, `ApprovalRequested`, `Decide`, `ApprovalGranted`;
for a command with no sandbox around it `UnsandboxedRequested`, `DecideUnsandboxed`,
`UnsandboxedGranted`; `ToolStarted`, `Execute`, `ToolFinished`), then `finalize_run`
(`MakeReceipt`, `WriteReceipt`, `ReceiptGenerated`).  `engine[r]` is the engine's state,
`rows` the events table, `receipts` the directory.  `Fail` is the error path (`?`) of
whatever a run does next, `Crash` the death of the daemon in the middle of any number of
runs, each of which may have had its effect already.  A run's name is the millisecond it
started in, so two runs may share one; `Replay` is `replay_run` over what carries a name,
with its check of numbers and hashes.  `SessionRuns` models the same daemon for any
number of sessions and events without what the events say; `TaskRun` says what they say.

**Terminal.**  A look `k` (`Refresh`) searches for the daemon (`Answer`) and reads the
receipts directory (`List`, `Examine`, `ReadOne`) off the drawing thread while runs write
receipts (`RunsWrite`).  Each of the three may fail: a listing that fails, or some of whose
entries do, has the names that remain and `trouble`; a file that cannot be examined has a
row without a time, one that cannot be read a row that says so.  `ShowLedger` is the
answer's arrival in `App::update`; `Enter`, `Escape`, `Arrow`, `Page`, `Edit` and `Quit`
are the keys.

**ClientSession.**  The window at the other end of `EventStream`: `Receive` is the
reducer's admission of a number (`Admit`: apply, drop, or open a gap), `Rendered` the
effect that resubscribes when `gap.after` has changed, and may fail to send.  A stream is
what `SessionLog` promises, except that it passes over entries where a store query fails
(`PassOver`).

**Launch.**  A daemon `d`: `Resolve`, `OpenStore`, `MakeDirectory`, `RemoveStale`, `Bind`,
`Guard`, `Announce`, and `Kill` anywhere.  A client: `LookFor` (its candidates from its
own environment), `Try`, `Handshake`.

**FrontDoor.**  `LaunchUrl` makes a window's code; a request passes `Arrive` (all checks
of `handle`, up to the first `await`), and for an exchange `StartSession` (the code is
taken), `BadBody` and `InsertSession`; `Tick` is the clock.

**PageReads.**  The ledger: `TakeSize`, `ReadTail` (`Cut` to the cap, `DropRow` to the
next newline), while `AppendRow` grows it.  The routines: per definition `ExamineFile`
(size), `Take` (read), `ReadLock`, with one budget for the reply, while `RunRoutine` and
`EndRun` grow receipts and take and leave locks.  Bytes are kinds: of a row, a newline,
one half of a character.

**WorkspaceWalk.**  One call, system call by system call: `ResolveFolder`, `ResolveFile`,
`Missing`, `Stat`, `OpenFolder`, `OpenFile`, `CreateFile`, `VerifyOpened`, then what is
done with the handle (`TakeText`, `Preimage`, `Truncate`, `Write`, `ReadBack`) or with
the folder's (`Parent`, `MakeFolder`, `Canonical`, `OpenParent`, `VerifyParent`, `Confirm`,
`Unlink`), and the broker's walk that follows no link (`LstatFolder`, `LstatFile`).
`MovePlace`, `MoveEntry` and `Rewrite` are other programs between any two.  `used` says
what the call read, changed, removed and made, and where it made it; `been` where every
file has been.

**Sandbox.**  A plan is made in steps (`Probe`, `PinGit`, `Protect`, `NameGaps`) while
`ChangeOutside` may change the tree; then the command runs (`StartSandboxed`, `WritePiece`,
`RenameFolder`, `MakeFolderInside`, `End`), as far as the mounts or the profile let it
(`MayWrite`, `MayRename`).

**ProcessTree.**  `SpawnChild`, `Attach` (Windows: the job holds a process that runs
already), `Exited`, `KillTree` by platform, `Reaped`, `DropCall`, `CloseGuard`; and what
the command does meanwhile: `Fork`, `LeaveGroup`, `ProcessEnds`.

**Keyring.**  A thread's call: `CallKeyring`, `OneAtATime` (the store's lock; the
operation is handed to the system), `Completes` or fails.  `ChangeEntry` is another program.

**ReceiptCheck.**  `SignReceipt`, `ChangeReceipt` by anyone, and a check: `StartCheck`,
`ReadReceipt`, `CheckForm`, `CheckSignature`.

**Surroundings.**  These ten share nothing but the machine, and a product of them would
say nothing their union does not: a behaviour visits one place (`visited`), from any state
the place may begin in, and the others rest.

## What the runs check

| Run | Instance | States | Shows |
| --- | --- | --- | --- |
| `event_stream` | 1 session, 2 runs of 2 events, 1 connection, 1 stream, a feed of 1, a queue of 2 | 165,998 | Runs of a session one after another: what is sent is exactly the events after the resume point (`GaplessDelivery`), a stream that waits has sent everything (`NothingLeftBehind`), the stream implements `SessionLog`, every stored event reaches a subscriber that stays (`EveryEventArrives`), and the stream of a client that is gone ends once more events are stored than its queue takes (`HungUpStreamEnds`) |
| `event_stream_overlap` | 1 session, 2 runs at once | violation | Runs that overlap share numbers and a subscriber loses events |
| `command_runner` | 2 actions, 3 faults, reconciled at open | 468,219 | `SpawnedIsOnDisk`, `RecordsAreHonest`; what a reconciliation closed stays closed in the file (`ReconciledInTheFile`); a command in a process namespace ends (`NamespacedCommandEnds`) |
| `command_runner_torn_line` | 2 actions, 2 faults | violation | A record appended to a torn line is lost |
| `device_key` | 4 calls, 2 staging names, 2 faults, every kind of file found first | 10,149 (with symmetry) | Whoever holds a key holds the one in the file (`OneSigner`); no half-written key is ever seen (`NoHalfKey`), no key is replaced (`NeverReplaced`) |
| `merge_queue` | 2 agents, 2 files, 2 outside events | 374,718 | `SiblingWorkKept`, `AnswerAccounts`, `EveryItemIsAnswered`, when files are inspected before they changed |
| `merge_queue_stale` | the same, inspected at any time | violation | A stale copy reverts a sibling's merged file |
| `task_graph` | every graph on 3 tasks, cyclic ones and unknown names included | 13,139 | `NoneRunsEarly`, `NoneWaitsForever`, and each call, its loops included, is one step of `TaskPlan` |
| `app_server` | 3 requests of any kind on 1 file, 2 in flight, 1 outside event, commands in a namespace, confined or refused | 482,331 | Every answered effect is once in the journal or in one receipt (`EffectsAreKept`), receipts end at what the disk holds (`ReceiptsEndAtTheDisk`), every request is answered, but for a command behind one that exited and whose pipes are still held (`EveryRequestIsAnswered`) |
| `app_server_unsandboxed` | 2 requests, no sandbox | violation | A receipt that covers an unsandboxed command says "guarded" |
| `task_run` | 2 runs in 1 or 2 sessions, 1 or 2 names, with and without a sandbox, three configurations, 1 fault | 693,471 (with symmetry) | Nothing is done without approval and its record (`EffectsWereApproved`); a log replays as no better than what happened (`ReplayIsHonest`), a log of two runs as unreadable (`MixedLogIsNoticed`); the receipt has its run's events, effects and label (`ReceiptIsTheRun`), and is there when an event announces it (`AnnouncedReceiptIsThere`) |
| `surroundings` | the places below | 2,814,088 | One invariant or two for each place |

In `surroundings`:

| Place | Instance | Property |
| --- | --- | --- |
| Terminal | 2 looks, 2 files, 2 writes | `PlaceIsInTheList`: the chosen row and the run on screen are rows of the list, whichever look answers last; `ListIsTrue`: a file not written since has one row, unless the list says that a part of it is missing; a row has its file's time and content, or says that it could not be read; newest first |
| Launch | 3 daemons, 1 client, both endpoints, any environment | `SomeoneAnswers`: when the last has come up or given up, one that announced itself can be reached, unless a kill left the file or its absence; `NobodyIsMissed`: "nothing is listening" is not said while a daemon could be reached all along |
| FrontDoor | 2 windows, 3 requests of 8 kinds, a time to live of 1, 3 ticks | `OneSessionPerWindow` |
| PageReads | cap of 3, a ledger of up to 6; 5 definitions, 2 runs of routines | `TailIsTheNewestRows`, `ReplyFits` |
| ClientSession | 5 events, 4 streams, 2 mishaps | `ViewCatchesUp`: the view is the log in order, and after one mishap no gap stays open |
| WorkspaceWalk | 3 places inside, 1 outside, 2 moves | `CallsStayInside`: no file outside is read or written, whatever is moved, and nothing is made outside while nothing is; `RemovesWhatItRead` |
| Sandbox | Linux, macOS, other; 1 command, 1 intrusion | `ProtectedStay` |
| ProcessTree | a child and 2 descendants, 3 ways of holding them | `NothingOutlives` |
| Keyring | 2 threads, 2 providers, 3 calls, 1 other program | `ReadsFollowWrites` |
| ReceiptCheck | 2 devices, 2 contents, 3 changes of the file | `VerifiedMeansSigned` |

Type invariants are theorems (below), and are checked in no run.  For each property of a
passing run `PROJECT.json` names a mutant of one definition (a dropped guard, a
missing reset, a swapped order) that makes TLC find the property violated.  The
mutants stand in the modules next to what they change.

No run checks for deadlock: in all of these systems the clients may simply stop,
and bounds end the rest.  That nothing stops while it still owes an answer is what
the liveness properties say.

## Bounds

- *A feed of one* makes lag happen with two events.  *A queue of two* is a place in the
  channel and the frame that the pump is writing: back-pressure comes with the third
  event, and a stream of a client that is gone may put two into the queue, and wait for
  ever, before it learns of it, as it may with the 256 of the code.  A
  second run is what makes numbering and the run list interesting.  That events of
  other sessions are skipped, and that streams share a queue, is not in the run: the
  delivery theorems cover it, for any number of sessions, connections and streams.
- *Two actions* share a journal: one's torn line is the other's.  Three faults are
  two failures of writes and a death, or the other way round: enough for a fault
  during the handling of a fault and one more after reopening.
- *Four calls and two names*: two daemons at once, one after them, and the doctor;
  two names are enough for a name to come again while another is in use.
- *Two agents, two files*: a merge that stops has one file written and one not.
- *Three tasks* hold chains, cycles of length one to three, and a cycle beside a
  sound part.  A diamond of four is not among them; the proofs cover it, being for
  any finite set of tasks.
- *Three requests, two in flight*: a change and a receipt that overlap, and one
  request after both; or three commands that queue for the slot.  One outside event
  is one failure, edit or hang-up.

- *Two runs of a daemon, one fault*: both names may be the same, so that two hash
  chains share a log and a file; a fault in one while the other goes on, or the death
  of both.
- *Three daemons* are one that serves, one that clears its socket away and one that
  comes between; *two looks* of a terminal are an older that answers last.
- *A cap of three bytes* holds a row and its newline and cuts the row before it, or the
  two halves of a character.  *Five definitions* are one more than are listed, among
  them one too large and one unreadable, with a reply of four to spend on them.
- *Five events, four streams, two mishaps*: a gap, its resubscription, a second gap
  while that is under way, and the streams of all of them.
- *Four places, two moves*: a folder put out of the workspace and a link put in its
  place, at any two points of a call.

What bounds leave out is what the theorems are for.

## Fairness

- `EventStream`: weak fairness of the reader's end and of the pump; strong fairness
  of each stream task, because what keeps it from its next step is a full queue,
  tokio's channel hands out room in order, and other streams cannot overtake it for
  ever.  Clients and runs owe nothing: nobody has to connect, record or hang up.
- `CommandRunner`: weak fairness of each `run_command` (the runtime polls it and its
  timer fires).  No command has to end, and nothing it left behind.
- `MergeQueue`: weak fairness of the queue's step (`process_all` is a loop).
- `TaskGraph`: weak fairness of a loop's next iteration.  No call has to be made.
- `AppServer`: weak fairness of what the server does for each request.  It includes
  the end of a command that has not exited: the runner's time limit stops it.  It does not
  include the end of one that has exited and lingers: that needs the processes it left
  behind to let its pipes go (`vitna-runner/src/lib.rs:373` waits for them outside the
  limit), and they owe nothing.  Such a command keeps the one slot, and
  `EveryRequestIsAnswered` excuses it and the commands behind it, no other request.  The
  clients and the outside owe nothing either.
- `DeviceKey` has no liveness property: a daemon that finds the key unusable gives
  up.  Neither have `TaskRun` (a run waits for a model and a tool without a limit) and
  `Surroundings` (people, and other programs, owe nothing).

## What is proved

Every theorem is for all values of the constants that the assumptions of the
module admit: any number of sessions, runs, streams, actions, calls, agents, files
and tasks, and any bound.

| Theorem | Says | Under |
| --- | --- | --- |
| `EventStreamProofs!TypeCorrect` | `[]TypeOK` | |
| `NumberingIsContiguous` | `[]ContiguousNumbering` | `OneRunAtATime` |
| `DeliveryIsGapless` | `[]GaplessDelivery` | `OneRunAtATime`, `~ReadsMayFail` |
| `DeliveryIsComplete` | `[]NothingLeftBehind` | `OneRunAtATime`, `~ReadsMayFail` |
| `StreamsImplementTheLog` | `Spec => ImplementsSessionLog` | `OneRunAtATime`, `~ReadsMayFail` |
| `DeliveryIsOrderly` | `[]OrderlyDelivery` | |
| `CommandRunnerProofs!TypeCorrect` | `[]TypeOK` | |
| `StartedCommandsAreOnRecord` | `[]SpawnedIsOnDisk` | |
| `JournalIsHonest` | `[]RecordsAreHonest` | |
| `ReconciledStaysInTheFile` | `[]ReconciledInTheFile` | |
| `DeviceKeyProofs!TypeCorrect` | `[]TypeOK` | |
| `OneKeyPerAccount`, `NoKeyIsHalfWritten` | `[]OneSigner`, `[]NoHalfKey` | `NoMeeting` |
| `KeyIsNeverReplaced` | `NeverReplaced` | `NoMeeting` |
| `MergeQueueProofs!TypeCorrect` | `[]TypeOK` | |
| `SiblingsAreKept` | `SiblingWorkKept` | `ReadsFresh` |
| `EveryWriteIsNamed` | `[]WritesAreNamed` | |
| `AnswersAccount` | `[]AnswerAccounts` | `ReadsFresh` |
| `TaskGraphProofs!TypeCorrect`, `NoTaskRunsEarly`, `NoTaskWaitsForever` | `[]TypeOK`, `[]NoneRunsEarly`, `[]NoneWaitsForever` | |
| `Implements` | `Spec => ImplementsTaskPlan` | |
| `TaskRunProofs!TypeCorrect` | `[]TypeOK` | |
| `EffectsAreApproved`, `MixedLogsAreNoticed`, `AnnouncedReceiptsAreThere`, `HonestReplays`, `ReceiptsAreTheRuns` | `[]EffectsWereApproved`, `[]MixedLogIsNoticed`, `[]AnnouncedReceiptIsThere`, `[]ReplayIsHonest`, `[]ReceiptIsTheRun` | |
| `AppServerProofs!TypeCorrect` | `[]TypeOK` | |
| `NoEffectIsLost` | `[]EffectsAreKept` | |
| `ReceiptsEndThere` | `[]ReceiptsEndAtTheDisk` | |
| `SurroundingsProofs!OnlySignedIsVerified` | `[]VerifiedMeansSigned` | |
| `CodesAreSpentOnce` | `[]OneSessionPerWindow` | |
| `TeardownsAreComplete` | `[]NothingOutlives` | |
| `KeysAreTheirProviders` | `[]ReadsFollowWrites` | |
| `LooksAreThorough` | `[]NobodyIsMissed` | |
| `ADaemonAnswers` | `[]SomeoneAnswers` | |
| `CallsAreConfined`, `RemovalsAreConfirmed` | `[]CallsStayInside`, `[]RemovesWhatItRead` | |
| `TheTailIsTheNewest`, `TheReplyFits` | `[]TailIsTheNewestRows`, `[]ReplyFits` | |
| `TheChosenRowExists`, `TheListIsTrue` | `[]PlaceIsInTheList`, `[]ListIsTrue` | |
| `TheViewCatchesUp` | `[]ViewCatchesUp` | |
| `TheProtectedStay` | `[]ProtectedStay` | |

**EventStream.**  `GaplessDelivery` is not inductive: a step from the store to the
feed keeps it only if nothing recorded in between can be missed.  `IInv` adds
`StoreInv` (an event's run is registered; of a session's runs at most one is at
work; its counter is one past the session's events; numbers are contiguous in table
order), `CursorCounts` (`last_sent` is the resume point plus what was sent) and
`TasksSafe`, one conjunct per place a task can be in: while it reads, what it does
not know is beyond its position in the feed; while it sends, what is left of the
batch starts right after the cursor; while it is live, all of the session before
its position has been sent.  With numbers contiguous, "not behind the cursor"
(what `forward_event` tests) and "not sent yet" are the same, which is the argument
for dropping replays by their number.

`StreamsImplementTheLog` maps the log to how many events each session has, and a
subscriber to its session and how far it was sent.  Sending the next event is the one
step that advances a subscriber; by `IInv` its number is one past the cursor and the
log has it.  A send that is dropped as a replay, reading a batch and hanging up are
stutters, and recording an event grows the log by one.

`DeliveryIsOrderly` is what is left when runs overlap and queries fail: events are lost
then, but those sent are stored events of the session after the resume point, in the order
of their numbers and none twice.  `OrderInv` needs no more than that the table and the run
lists only grow and that the cursor is the last number sent.

**CommandRunner.**  `IInv` is `TypeOK`, `FileTells` (no readable record of the file,
even one that a torn newline hides, contradicts what became of the process) and
`Standing` (per place in `run_command`, what memory and file hold).  `AppendKeeps`
shows it for any append, cut short anywhere, and each action follows from it: a
record that cannot be read back is at worst an older record of the same action,
and those tell less, not something else.  For `ReconciledInTheFile` (`Reconciled`), memory
and file agree on the earlier processes' actions until the reconciliation has ended, for
each of its records is written whole or ends it with an error; and after it no append joins
the line of one of them: the file may end in a whole record without its newline, but not in
one of theirs.  A file that ended in such a line when it was opened (`~whole`) loses the
first record that joins it, and the property does not speak of it.

**DeviceKey.**  `IInv` says, per place a call can be in, what the file holds: a call
that has linked its key finds it there, one that reads finds neither an absent nor
an empty file, and what is about to be linked is whole.  `hard_link` to a name that exists
fails, so a file that is neither absent nor empty stays; the one exception is removing an
empty file.  `NoMeeting` is that none is there at first, or that no daemon starts while
another is at it; nobody makes one (`NoneIsEmpty`).  Without it TLC finds the replacement.

**MergeQueue.**  `IInv` is `TypeOK`, `QueueInv` (an item waits once, and not while it
is in hand), `ChangesetInv` (a queued changeset is complete, its preimages what the
copy was made from) and `MergeInv` (between `Check` and `Replace`, an agent's work
in the file is the checked preimage).  Between these two the operator may still
write, which is why the property speaks of a sibling's work and not of everybody's.
`AccountInv` follows one merge through its stages: what it wrote is among what it counts,
but for the file in hand (`InHandAccounts`), and nothing is written before the last
preimage is validated (`UntouchedBefore`).  This gives `WritesAreNamed`, whatever the
agents inspected: a conflict wrote nothing, a merge and an error name all they wrote.
The converse, that what is named was written, needs `ReadsFresh`.  Without it an agent can
have a change whose result is what the operator had put in the file; if the operator takes
the file away between the check and the write, and puts the same content back before the
verification, the file counts as applied and the merge did not write it.  With it
(`OwnInv`) a change results in the agent's own work, which only its merge writes.

**TaskGraph.**  `SortInv`: the sort counts what it pops, a task's remaining
dependencies are those not popped yet, and of any set of tasks with a member that
was queued, one depends on no other of the set (`Rooted`), so no cycle is ever
entered; hence all are popped exactly if there is no cycle.  `CascadeInv`: what the cascade has
cancelled is downstream of the failed task, and what is pending and depends on it
has a parent still in the work list.  `GraphInv`: nothing starts before the
graph is valid, an accepted graph has no cycle, and, as seen between calls, no
pending task depends on a failed or cancelled one; with the finiteness of the graph this
gives `NoneWaitsForever`.  `Implements` shows that the last iteration of a loop is a
step of `TaskPlan` and every other a stutter.

**TaskRun.**  Five invariants, each on those before it.  `ApprovalInv`: the place a run
is at tells which approvals it has (`Permitted`), and what it did came after them
(`Earned`).  `LogInv`: a row's run is one that was numbered, and the first row of each
run is number one with the genesis hash (`ChainsBegin`); so of two runs in one log each
has a first row, two rows have the number one, and `Chained` fails.  `FileInv`
(`Filed`): a run past its write has its file, unless another run has its name.
`ReplayInv`: the rows of a run that is alone in its log are a chain that its engine's tip
ends (`Linked`), with the finished effects no more than the effects (`Ahead`); the row
that `replay_run` takes last is found as the maximum of a finite set, by well-founded
induction on its subsets.  `CountInv`: the engine's counts are those of the effects, but
for a run between an effect and its record (`Counted`), and a receipt, once signed, has
them (`Attested`): nothing but its own announcement is recorded after it.
`RowTypes` and `FileTypes` complete the types: a run's next number is above all its rows,
and a file holds what a run of its name signed.

**AppServer.**  `TypeInv` adds to the types what a request may be at by what it asks
(`Fits`) and that who waits for the slot stands in its line once.  `KeptInv`: journals,
receipts in hand and signed receipts hold effects that were answered, and each of those is
once in one of the three places of its session (`InOnePlace`); taking the journal, signing
and putting back move a whole sequence between two places, and putting back prepends it to
what came meanwhile, so no order of receipts doubles or drops one.  `LedgerInv`: requests in
flight about one file, or receipts of one session, are known to have crossed
(`CrossedInv`); a file's last change is recorded or about to be, and the disk has it
(`LastInv`); and with one receipt of a session at a time, its three places read one after
the other are its effects in the order of their records (`EndsWith`).  A change recorded
after the last change of its file overlapped it, which is why the property excludes
`crossed` and nothing more.

**Surroundings.**  One invariant per place; a step elsewhere leaves it alone. `CheckInv`:
what the check has read it compared with the right key, and nothing unsigned has a signature
that verifies. `DoorInv`: a code is either unspent, and then nobody has a session from it,
or spent; its exchange is one step under the lock. `ProcessInv`: a process in the group or
the job got there from its parent (`Spawned`), and what a job does not hold was started
before it held the command (`JobHolds`). `KeyringInv`: one operation is with the system at a
time (`OneIsAsked`), so an entry holds what the last write let through made it, or what
another program put there since (`EntriesHold`). `LaunchInv`: the file at an endpoint was
bound there by a daemon that has not failed (`SocketsAreBound`), and an endpoint that could
be reached throughout a look is still among those to be tried, or is the one that answered
(`LooksGoOn`). `TailInv`: the ledger only grows, so what was sent of it stays in it, and a
row dropped at the cut ends at a newline or at the end of what was read. `ReplyInv`: the
rows so far, what is charged for the routine being read and the budget left are together at
most the reply (`ReplyIsPaid`), and the next row is the next routine's (`PlaceIsNext`).
`TerminalInv`: a look has each file to read, examined or found, in one of the three
(`PartsAreApart`), and one that was not written since the directory was listed is in one of
them (`NoneIsMissing`), unless the listing had trouble; the time examined is that of the
file (`TimeIsRight`), and a row of a file not written since says what it holds, or that it
could not be read (`RowIsTrue`), in the look and in the list. `WalkInv`: per place a call
can be in, what its handle is on and where that has been (a handle that passed
`VerifyOpened` is on a file that was inside); `MadeInv`: while nothing was moved, the folder
the next step makes something in is where the call may go. `WindowInv`: the view is the fold
of entries in order (`FoldIsWhole`), an open gap is right after it (`GapIsAhead`), before
any mishap nothing is missing (`NothingIsLost`), and after one the entry that is missing is
on the wire or about to be sent by a stream (`GapIsFilled`). `SandboxInv`: a thing is at one
name (`TreeInv`), and what the plan found is there (`FoundStays`) and, from the plan's step
for it on, in the plan, and on Linux under a mount while the command runs
(`FoundIsPlanned`), so that the command moves neither it nor the folder that it is in.

Only model-checked: the liveness properties (`EveryEventArrives`,
`HungUpStreamEnds`, `NamespacedCommandEnds`, `EveryItemIsAnswered`,
`EveryRequestIsAnswered`), which rest on fairness and are outside the prover's reach; and
that the runs expected to fail do fail.

The library's induction theorems cannot be instantiated by the installed provers.  The
models avoid them by taking loops iteration by iteration with an invariant, and where a sum
over a sequence is what the property says (`SentIn` in `ReplyFits`), the proof takes the least
number at which two functions would differ (`LeastNumber`, from the well-foundedness of the
inclusion of finite sets, whose theorem is applied to a set and not to a predicate).

## Where code and documents disagree

Four runs end in a violation; `PROJECT.json` quotes both sides under `findings`.

1. `event_stream_overlap`: nothing keeps a second run of a session out while one is
   at work (`daemon/src/server.rs:226`).  Both count from the same number, and the
   subscriber drops the second event of each number as a replay, though
   `ipc.rs:207` calls the numbers contiguous across runs.
2. `command_runner_torn_line`: `append_entry` writes after whatever the file ends
   with, so a record after a torn line cannot be read back, though
   `record_prepared` returned `Ok` (`vitna-runner/src/journal.rs:93`).
   `SpawnedIsOnDisk` holds all the same: what is lost is never the only trace of a
   started command.
3. `merge_queue_stale`: `inspect_changes` takes the preimage from the primary
   checkout as it is now, so a copy that a sibling's merge has overtaken reverts the
   sibling's file without a conflict (`git-broker/src/broker.rs:150`).
4. `app_server_unsandboxed`: a command started without a sandbox and stopped at its
   time limit is recorded as not run, and the receipt says "guarded"
   (`app-server/src/journal.rs:167`).

Other behaviour met while modelling, which the models have and no run is about:

- The daemon never calls `reconcile_crashed_actions` (`ReconcilesAtOpen = FALSE` is
  what `server.rs:76` does), while the repository's README says that interrupted
  commands enter `needs_reconciliation`.
- The time limit of a command does not bound the reading of its pipes: a process
  it left outside a namespace can keep them open, and `NamespacedCommandEnds` is
  stated for namespaced commands only.
- A merge that fails at its second file leaves the first one written; its answer
  names it (`AnswerAccounts`).
- Comparing a file's hash and truncating it are two steps: two windows that both
  read the old content both write.  A write that fails after the truncation, or
  whose read-back differs, leaves a changed file that is in no receipt.  A command
  whose client hangs up leaves no effect.  Two receipts that overlap and both fail
  may put their effects back in the other order.  `ReceiptsEndAtTheDisk` excludes
  exactly these (`last`, `crossed`).
- A stream whose client is gone stays until a send of its fails.  While no events come
  that is never, and as many as the queue takes go in first (256, `daemon/src/ipc.rs:49`):
  the connection's tasks stay as long.
- A command of `vitna app` that exited, and left behind a process that holds its pipes,
  keeps the one slot as long as that process lives (`app-server/src/api.rs:635`): commands
  after it wait, until its client hangs up.
- A file or a folder is made through a path that was changed after it was resolved: outside
  the workspace if that is where it leads (`create_new` and `create_dir` in
  `tools/src/workspace_fs.rs:425` and `:460`, `git-broker/src/tree.rs:170` and `:282`).
  The check of the open handle then refuses the call before anything is written, and the
  empty file or folder stays.  The head of `workspace_fs.rs` says that "a rename between the
  check and the open cannot move the file outside"; for what is read and written it is so.
- A listing of the receipts that fails halfway shows the rows it has, and says so
  (`trouble`, `vitna-tui/src/ledger.rs:133`): files are then missing from the list.
- A store query that fails in the middle of a replay counts as an empty run
  (`ReadsMayFail`); the theorems that nothing is lost assume that it does not happen, and
  `ClientSession` shows what a window makes of it.
- Two daemons that both find an empty key file: the second removes the key the first has
  made (`daemon/src/key.rs:59`).  `DeviceKey` has it under `EmptyOverlaps`, which the run
  and the theorems about the key exclude (`NoMeeting`).
- A run that has finished replays as `RunningModel`: no event says that it is over.
  `ADR-0004` lists the terminal states a replay is to reach.
- The engine grades the evidence of its verification `sandbox_captured` by its exit
  alone, without a sandbox too, and a receipt says `completed_with_evidence` whatever the
  evidence is.
- Session and run ids are milliseconds.  Two runs of one millisecond share a log and a
  receipt file; the second receipt replaces the first.
- The terminal's rows are chosen by index: a look that finds a new receipt moves another
  run under the choice, and an older look that answers last replaces a newer list until
  the next.
- A daemon that starts clears away what is at its endpoint, the socket of a live daemon
  too, be that one between binding and announcing or serving for a long time; the other
  goes on, holding the store, without an address (`daemon/src/ipc.rs:430`).  `launch.rs:84`
  says of the line a daemon prints once its endpoint is bound that it "is true when it is
  printed": when another has cleared the socket away in between, it is not.
- A ledger cut inside a character is refused as not text although it is
  (`app-server/src/ledger.rs:45`): `NotText` is one of the outcomes of `ReadTail`.
- The desktop's view admits any number as its first.  A resubscription that could not be
  sent, or a second gap at the same `gap.after`, is not tried again: hence `mishaps > 1`
  in `ViewCatchesUp`.
- Sessions of `vitna app` never expire.  The app checks a path with `allowed` and resolves
  it afterwards: what is moved in between may lead into a folder it keeps (`used.moved`).
- Where the platform cannot say where an open file lives, the identity of the path before
  and after decides; hard links are followed everywhere.
- On Linux a sandboxed command with no write access still has `.git` pinned by a writable
  bind; pins cover what exists when the plan is made, and `fully_enforced` is said of a
  plan without `.git/hooks` or `.vitna`.
- On Windows processes started before the job holds the command are outside it, while the
  teardown reports `Complete` (`early` in `NothingOutlives`).
- A log whose last event is repeated has the Merkle root of the log without it where the
  last leaf is paired with itself.  The standalone verifier without a key answers `VALID`
  for the form alone (`Verdict`).
- The lock of the credential store is that of one process.

## What is abstracted

- Content is compared by hash in the code, so a name stands for a content and its
  hash: hashes are taken to be free of collisions.  A file's content is named for
  who wrote it.
- In `MergeQueue` and `AppServer` a path is one name, and the walk through directories,
  links and special files one test; `WorkspaceWalk` has the walk, for one call.
- In `WorkspaceWalk` the path of a call has one folder above its file; a link on the way
  to it stands for one at any depth.
- Some neighbouring steps are one where nothing the properties speak of comes between: a
  stream's lagged receive and its next copy of the run list (lists only grow); the
  owner's check and the removal of an empty key file; a merge's truncation and its write.  A
  rename over the file a merge writes counts as an edit of it.  The caller of a command
  does not stop waiting between its teardown and the end of the child
  (`vitna-runner/src/lib.rs:351`).
- What a daemon sends is never longer than a frame may be: `write_frame` fails for a client
  that is gone, or not at all.
- A receipt's name that is a link or no regular file is one of those that cannot be read,
  and every file that can be examined has a time.  What a search for the daemon finds makes
  no difference to the terminal's list: the run has one answer.
- Removal in `AppServer` and `WorkspaceWalk` is the Unix one; on Windows it goes through
  the handle.  In `CommandRunner` the teardown is the Unix one too; `ProcessTree` has both.
- Opening a file and reading it to hash it is one step; a change in between gives
  a hash that does not match, or one that the next step finds.
- Run and session ids are distinct names except in `TaskRun`, where two runs may be given
  one.
- In `SessionRuns` events have a run and a number; `TaskRun` adds type, tool and hash,
  where a hash is who recorded the event and its number.  A signature is who made it and
  over what: forging one is not among the steps.
- A command that is sandboxed can do what the manuals of bubblewrap and Seatbelt say its
  mounts or its profile leave it; a job, a group and a namespace end what theirs say.
- Deaths are of processes, not of the machine: what a power loss undoes in the
  file system or in a WAL with `synchronous = NORMAL` is not modelled.
- Permissions of the key file are one Boolean.
- The page of `AppServer` and the coordinator of `TaskGraph` are not code that the
  repository's core contains; they are modelled by what the code requires of them
  and marked external.
- Counters (`faults`, `outside`, the bounds of requests, runs and events) exist for
  TLC only; they stand in guards and are constants.

## What is not modelled

- Formatting and parsing: the protocol's codec, the command line, providers' requests and
  answers, MCP's one request and one answer over a pipe, the arguments of bubblewrap and
  the text of a Seatbelt profile, the terminal's and the desktop's drawing.
- Pure functions whose tests say all a model could: policy decisions, `HostGit`'s
  environment, context assembly and scoring, prices, the Merkle tree, canonical form.
- What the operating system enforces: peer credentials, DACLs, file locks of SQLite; and
  cryptography.
- Sequential tools (`apply_patch`, `read_file`, `search_code`, `browser_verify`), which are
  argument checks around one call of the file layer or the runner; creating and deleting
  an agent's workspace; serving the interface's files; `linger`; migrations.
- The desktop's reconnection and its turns of a run, which are rebuilt from the events
  `ClientSession` delivers in order.
- `vitna run` and `vitna app` as two processes over one runner journal: each process keeps
  its own copy in memory, and neither rereads the file.
- The loss of power: WAL with `synchronous = NORMAL` (`store/src/lib.rs:181`) may lose
  committed rows, and the directory of the device key is not synced after `hard_link`
  (`key.rs:89`).  Both are facts about the disk below the steps of these models.
- Stubs (skills, telemetry), and the fake runner (`vitna-runner/src/fake.rs`), which
  follows the journal protocol of the runner: its fault modes are crash points of
  `CommandRunner`.

## Plan

Done: `SessionRuns`, `EventStream` with `SessionLog`, `CommandRunner`, `DeviceKey`,
`MergeQueue`, `TaskGraph` with `TaskPlan`, `AppServer`; `TaskRun` with `Receipts`; the ten
modules of `Surroundings`; proofs about each.

Left:

1. Proofs: how far the refinement of `SessionLog` goes for sessions whose runs overlap.
2. `TaskRun` over the rows of `SessionRuns`, so that a subscriber's prefix of a run's
   events is also a prefix `replay_run` understands.
3. The runner's journal shared by two processes.
4. Pure parts against a reference definition: policy, the aggregation of child receipts.

------------------------------- MODULE AppServer -------------------------------
(***************************************************************************)
(* vitna app (crates/app-server): the requests of a browser page that write  *)
(* and remove files, run commands and ask for a receipt, each a task of its  *)
(* own.  Writes and removals go through the tools' file layer                *)
(* (crates/tools/src/workspace_files.rs, workspace_fs.rs) as system calls.   *)
(*                                                                           *)
(* Content is compared by hash, so a name stands for both: a request names   *)
(* what it writes.  "empty" is a file just truncated or created, "torn" one  *)
(* that holds part of a write or parts of two.                               *)
(***************************************************************************)
EXTENDS Naturals, Sequences, FiniteSets

CONSTANTS
  Arrivals,    \* the requests, in the order they arrive
  Sessions,
  Files,
  Modes,       \* how the server may run commands: sandboxed ("namespaced", which takes
               \* all its processes with it, or "confined"), "unsandboxed", "refused"
  MaxAtOnce,   \* bound: requests in flight
  MaxOutside   \* bound: edits by others, failed calls, clients that hang up

Requests == {Arrivals[i] : i \in 1 .. Len(Arrivals)}

ASSUME AppAssumption ==
  /\ Arrivals \in Seq(Requests)
  /\ Requests \cap {"none", "start", "absent", "empty", "torn", "other"} = {}
  /\ "none" \notin Files
  /\ Modes \subseteq {"namespaced", "confined", "unsandboxed", "refused"}
  /\ MaxAtOnce \in Nat
  /\ MaxOutside \in Nat

VARIABLES
  commands, \* how it runs commands, decided when it starts
  disk,     \* what each file of the folder holds
  held,     \* the requests whose open handle is the file its path leads to
  asked,    \* what each request asks
  at,       \* where it stands, or how it was answered
  how,      \* of a command: "ran" or "not_run", as it is recorded
  line,     \* the command slot: who has it, then who waits for it, in order
  journal,  \* the journal of each session: the requests whose effects it holds
  taken,    \* the effects a receipt is made of
  signed,   \* the effects in a session's receipts so far
  \* Auxiliary: read by no action.
  last,     \* the request a file has its content from, "none" once it was changed again
  crossed,  \* requests that overlapped one about the same file, or receipts of one session
  spawned,  \* commands that were started
  outside   \* how many outside events there were

vars == <<commands, disk, held, asked, at, how, line, journal, taken, signed, last, crossed, spawned, outside>>
fileVars == <<commands, disk, held, last>>
recordVars == <<journal, taken, signed>>

Contents == Requests \cup {"start", "absent", "empty", "torn", "other"}

\* A write puts in its own text, a removal leaves the file absent.
Asks(r) ==
  [kind : {"write"}, session : Sessions, file : Files, expect : Contents, content : {r}]
  \cup [kind : {"remove"}, session : Sessions, file : Files, expect : Contents, content : {"absent"}]
  \cup [kind : {"run", "receipt"}, session : Sessions, file : {"none"}, expect : {"none"}, content : {"none"}]

Unsent == [kind |-> "none", session |-> "none", file |-> "none", expect |-> "none", content |-> "none"]

InFlight == {"sent", "prepared", "open", "written", "checked", "verified",
             "waiting", "running", "lingering", "ended", "taken"}
Answered == {"done", "refused", "failed", "signed", "dropped"}

Kind(r) == asked[r].kind
Session(r) == asked[r].session
File(r) == asked[r].file
Content(r) == asked[r].content

Move(r, to) == at' = [at EXCEPT ![r] = to]
Set(f, c) == disk' = [disk EXCEPT ![f] = c] /\ last' = [last EXCEPT ![f] = "none"]
Outside == outside < MaxOutside /\ outside' = outside + 1

\* What a request in flight and a new one must not share, for the order of their
\* effects to be known.
Rivals(ask) ==
  {q \in Requests : at[q] \in InFlight /\
     \/ ask.file # "none" /\ File(q) = ask.file
     \/ ask.kind = "receipt" /\ Kind(q) = "receipt" /\ Session(q) = ask.session}

\* A change names what the file held when the page last read it.
Send(r) ==
  /\ at[r] = "unsent"
  /\ Cardinality({q \in Requests : at[q] \in InFlight}) < MaxAtOnce
  /\ \E i \in DOMAIN Arrivals : Arrivals[i] = r /\ \A j \in 1 .. i - 1 : at[Arrivals[j]] # "unsent"
  /\ \E ask \in Asks(r) :
       /\ ask.file # "none" => ask.expect = disk[ask.file]
       /\ ask.kind = "remove" => ask.expect # "absent"
       /\ asked' = [asked EXCEPT ![r] = ask]
       /\ crossed' = crossed \cup (IF Rivals(ask) = {} THEN {} ELSE Rivals(ask) \cup {r})
  /\ Move(r, "sent")
  /\ UNCHANGED <<fileVars, how, line, recordVars, spawned, outside>>

--------------------------------------------------------------------------------
(* fs/write and fs/remove.                                                    *)

\* prepare_write, prepare_remove: the handle is opened and read, and its hash
\* compared with the one the request names.
Prepare(r) ==
  /\ at[r] = "sent"
  /\ Kind(r) \in {"write", "remove"}
  /\ IF disk[File(r)] = asked[r].expect
     THEN /\ Move(r, "prepared")
          /\ held' = IF disk[File(r)] = "absent" THEN held ELSE held \cup {r}
     ELSE Move(r, "refused") /\ UNCHANGED held
  /\ UNCHANGED <<commands, disk, last, asked, how, line, recordVars, crossed, spawned, outside>>

\* commit_write: what is there is truncated through the handle, which may no longer
\* be the path's file; what is not there is created by a call that fails if it is.
Open(r) ==
  /\ at[r] = "prepared"
  /\ Kind(r) = "write"
  /\ IF asked[r].expect # "absent"
     THEN /\ Move(r, "open")
          /\ IF r \in held THEN Set(File(r), "empty") ELSE UNCHANGED <<disk, last>>
          /\ UNCHANGED held
     ELSE IF disk[File(r)] = "absent"
          THEN Move(r, "open") /\ Set(File(r), "empty") /\ held' = held \cup {r}
          ELSE Move(r, "failed") /\ UNCHANGED fileVars
  /\ UNCHANGED <<commands, asked, how, line, recordVars, crossed, spawned, outside>>

\* write_synced: over another's bytes it may leave their end standing, and it may
\* stop part of the way or fail at the last flush.
Write(r) ==
  /\ at[r] = "open"
  /\ \E c \in {Content(r), "torn"}, ok \in BOOLEAN :
       /\ c = "torn" /\ ok => r \in held /\ disk[File(r)] # "empty"
       /\ IF r \in held THEN Set(File(r), c) ELSE UNCHANGED <<disk, last>>
       /\ IF ok THEN Move(r, "written") /\ UNCHANGED outside ELSE Move(r, "failed") /\ Outside
  /\ held' = held \ {r}
  /\ UNCHANGED <<commands, asked, how, line, recordVars, crossed, spawned>>

\* verify_written: the path is opened again and read back.
Verify(r) ==
  /\ at[r] = "written"
  /\ IF disk[File(r)] = Content(r)
     THEN Move(r, "verified") /\ last' = [last EXCEPT ![File(r)] = r]
     ELSE Move(r, "failed") /\ UNCHANGED last
  /\ UNCHANGED <<commands, disk, held, asked, how, line, recordVars, crossed, spawned, outside>>

\* commit_remove (unix): the name must still lead to the file that was hashed.
Check(r) ==
  /\ at[r] = "prepared"
  /\ Kind(r) = "remove"
  /\ Move(r, IF r \in held THEN "checked" ELSE "failed")
  /\ UNCHANGED <<fileVars, asked, how, line, recordVars, crossed, spawned, outside>>

\* unlinkat: whatever the name leads to by then.
Unlink(r) ==
  /\ at[r] = "checked"
  /\ IF disk[File(r)] = "absent"
     THEN Move(r, "failed") /\ held' = held \ {r} /\ UNCHANGED <<disk, last>>
     ELSE /\ Move(r, "verified")
          /\ disk' = [disk EXCEPT ![File(r)] = "absent"]
          /\ last' = [last EXCEPT ![File(r)] = r]
          /\ held' = {q \in held : File(q) # File(r)}
  /\ UNCHANGED <<commands, asked, how, line, recordVars, crossed, spawned, outside>>

\* A system call fails; a file that was opened for the write stays as it is.
Fault(r) ==
  /\ Kind(r) \in {"write", "remove"}
  /\ at[r] \in {"sent", "prepared", "open", "written", "checked"}
  /\ Outside
  /\ Move(r, "failed")
  /\ held' = held \ {r}
  /\ UNCHANGED <<commands, disk, last, asked, how, line, recordVars, crossed, spawned>>

\* A command, an editor or another program writes, replaces or removes a file.
OutsideEdit(f) ==
  /\ Outside
  /\ \E c \in {"other", "absent"}, replaced \in BOOLEAN :
       /\ replaced \/ (c = "other" /\ disk[f] # "absent")
       /\ Set(f, c)
       /\ held' = IF replaced THEN {q \in held : File(q) # f} ELSE held
  /\ UNCHANGED <<commands, asked, at, how, line, recordVars, crossed, spawned>>

--------------------------------------------------------------------------------
(* run.                                                                       *)

RefuseRun(r) ==
  /\ at[r] = "sent" /\ Kind(r) = "run"
  /\ commands = "refused"
  /\ Move(r, "ended")
  /\ how' = [how EXCEPT ![r] = "not_run"]
  /\ UNCHANGED <<fileVars, asked, line, recordVars, crossed, spawned, outside>>

\* command_slot: one permit, first come first served.
Wait(r) ==
  /\ at[r] = "sent" /\ Kind(r) = "run"
  /\ commands # "refused"
  /\ Move(r, "waiting")
  /\ line' = Append(line, r)
  /\ UNCHANGED <<fileVars, asked, how, recordVars, crossed, spawned, outside>>

\* The runner starts the command, or fails before that.
Start(r) ==
  /\ at[r] = "waiting" /\ Head(line) = r
  /\ \/ /\ Move(r, "running")
        /\ spawned' = spawned \cup {r}
        /\ UNCHANGED <<how, outside>>
     \/ /\ Outside
        /\ Move(r, "ended")
        /\ how' = [how EXCEPT ![r] = "not_run"]
        /\ UNCHANGED spawned
  /\ UNCHANGED <<fileVars, asked, line, recordVars, crossed>>

\* The command exits in time, but a process it left behind, outside a namespace, has
\* its output pipes: run_command goes on reading them, with no limit.
Linger(r) ==
  /\ at[r] = "running"
  /\ commands # "namespaced"
  /\ Move(r, "lingering")
  /\ UNCHANGED <<fileVars, asked, how, line, recordVars, crossed, spawned, outside>>

\* It exits, and the last process that has its pipes ends too; or the runner stops it
\* at its time limit, or cannot journal its end.
End(r) ==
  /\ at[r] \in {"running", "lingering"}
  /\ Move(r, "ended")
  /\ \E h \in {"ran", "not_run"} : how' = [how EXCEPT ![r] = h]
  /\ UNCHANGED <<fileVars, asked, line, recordVars, crossed, spawned, outside>>

Without(q, r) ==
  LET i == CHOOSE i \in DOMAIN q : q[i] = r IN SubSeq(q, 1, i - 1) \o SubSeq(q, i + 1, Len(q))

\* The client hangs up: the handler is dropped where it waits, and the slot with it.
Drop(r) ==
  /\ at[r] \in {"waiting", "running", "lingering"}
  /\ Outside
  /\ Move(r, "dropped")
  /\ line' = Without(line, r)
  /\ UNCHANGED <<fileVars, asked, how, recordVars, crossed, spawned>>

\* The permit goes back with the command that has it.
GiveBack(r) == IF line # <<>> /\ Head(line) = r THEN Tail(line) ELSE line

\* Mutant: the slot is given back only by a command that ran.
Record_SlotLeaks(r) ==
  /\ at[r] \in {"verified", "ended"}
  /\ Move(r, "done")
  /\ journal' = [journal EXCEPT ![Session(r)] = Append(@, r)]
  /\ line' = IF how[r] = "not_run" THEN line ELSE GiveBack(r)
  /\ UNCHANGED <<fileVars, asked, how, taken, signed, crossed, spawned, outside>>

\* The effect is recorded, then the reply is sent and the slot given back.
Record(r) ==
  /\ at[r] \in {"verified", "ended"}
  /\ Move(r, "done")
  /\ journal' = [journal EXCEPT ![Session(r)] = Append(@, r)]
  /\ line' = GiveBack(r)
  /\ UNCHANGED <<fileVars, asked, how, taken, signed, crossed, spawned, outside>>

--------------------------------------------------------------------------------
(* receipt.                                                                   *)

Take(r) ==
  /\ at[r] = "sent" /\ Kind(r) = "receipt"
  /\ Move(r, "taken")
  /\ taken' = [taken EXCEPT ![r] = journal[Session(r)]]
  /\ journal' = [journal EXCEPT ![Session(r)] = <<>>]
  /\ UNCHANGED <<fileVars, asked, how, line, signed, crossed, spawned, outside>>

\* The receipt is signed, written under a name of its own and answered.
Sign(r) ==
  /\ at[r] = "taken"
  /\ Move(r, "signed")
  /\ signed' = [signed EXCEPT ![Session(r)] = @ \o taken[r]]
  /\ UNCHANGED <<fileVars, asked, how, line, journal, taken, crossed, spawned, outside>>

\* Mutant: what was recorded since is forgotten.
Restore_Overwrites(r) ==
  /\ at[r] = "taken"
  /\ Outside
  /\ Move(r, "failed")
  /\ journal' = [journal EXCEPT ![Session(r)] = taken[r]]
  /\ taken' = [taken EXCEPT ![r] = <<>>]
  /\ UNCHANGED <<fileVars, asked, how, line, signed, crossed, spawned>>

\* Mutant: the effects go back at the end.
Restore_AtTheEnd(r) ==
  /\ at[r] = "taken"
  /\ Outside
  /\ Move(r, "failed")
  /\ journal' = [journal EXCEPT ![Session(r)] = @ \o taken[r]]
  /\ taken' = [taken EXCEPT ![r] = <<>>]
  /\ UNCHANGED <<fileVars, asked, how, line, signed, crossed, spawned>>

\* It could not be signed or written: the effects go back to the front.
Restore(r) ==
  /\ at[r] = "taken"
  /\ Outside
  /\ Move(r, "failed")
  /\ journal' = [journal EXCEPT ![Session(r)] = taken[r] \o @]
  /\ taken' = [taken EXCEPT ![r] = <<>>]
  /\ UNCHANGED <<fileVars, asked, how, line, signed, crossed, spawned>>

\* journal::receipt: the label counts commands recorded with the runner's statement.
Label(r) ==
  IF commands = "unsandboxed" /\ \E i \in DOMAIN taken[r] : how[taken[r][i]] = "ran"
  THEN "full_access" ELSE "guarded"

--------------------------------------------------------------------------------

Init ==
  /\ commands \in Modes
  /\ disk \in [Files -> {"start", "absent"}]
  /\ held = {}
  /\ asked = [r \in Requests |-> Unsent]
  /\ at = [r \in Requests |-> "unsent"]
  /\ how = [r \in Requests |-> "none"]
  /\ line = <<>>
  /\ journal = [s \in Sessions |-> <<>>]
  /\ taken = [r \in Requests |-> <<>>]
  /\ signed = [s \in Sessions |-> <<>>]
  /\ last = [f \in Files |-> "none"]
  /\ crossed = {}
  /\ spawned = {}
  /\ outside = 0

\* What the server does for a request whose client stays.
Serve(r) ==
  \/ Prepare(r) \/ Open(r) \/ Write(r) \/ Verify(r) \/ Check(r) \/ Unlink(r)
  \/ RefuseRun(r) \/ Wait(r) \/ Start(r) \/ End(r) \/ Record(r)
  \/ Take(r) \/ Sign(r) \/ Restore(r)

Next ==
  \/ \E r \in Requests : Send(r) \/ Serve(r) \/ Linger(r) \/ Fault(r) \/ Drop(r)
  \/ \E f \in Files : OutsideEdit(f)

Spec == Init /\ [][Next]_vars

\* The runtime runs every task that can go on, and the time limit stops a command that
\* has not exited.  Nothing ends the processes it left behind.
FairSpec == Spec /\ \A r \in Requests : WF_vars(at[r] # "lingering" /\ Serve(r))

--------------------------------------------------------------------------------
(* Properties.                                                                *)

\* The variables keep their types; a handle is held by a request that is not done
\* with it, on a file that is there, and the slot's line is the commands that wait
\* or run, the first of them alone past waiting.
TypeOK ==
  /\ commands \in Modes
  /\ disk \in [Files -> Contents]
  /\ held \subseteq {r \in Requests : at[r] \in {"prepared", "open", "checked"}}
  /\ \A r \in held : disk[File(r)] # "absent"
  /\ \A r \in Requests : asked[r] \in IF at[r] = "unsent" THEN {Unsent} ELSE Asks(r)
  /\ at \in [Requests -> {"unsent"} \cup InFlight \cup Answered]
  /\ how \in [Requests -> {"none", "ran", "not_run"}]
  /\ line \in Seq(Requests)
  /\ \A i \in DOMAIN line :
       at[line[i]] \in IF i = 1 THEN {"waiting", "running", "lingering", "ended"} ELSE {"waiting"}
  /\ journal \in [Sessions -> Seq(Requests)]
  /\ taken \in [Requests -> Seq(Requests)]
  /\ signed \in [Sessions -> Seq(Requests)]
  /\ last \in [Files -> Requests \cup {"none"}]
  /\ crossed \subseteq Requests
  /\ spawned \subseteq Requests
  /\ outside \in 0 .. MaxOutside

InHand(s) == {q \in Requests : at[q] = "taken" /\ Session(q) = s}

At(r, q) == {i \in DOMAIN q : q[i] = r}

\* "Nothing was lost: the next receipt covers these effects too" (api.rs:821), and
\* none is in two: an effect whose reply was sent is once in its session's journal,
\* in one receipt that is being made, or in one that was signed, however many
\* receipts are asked for at once and fail.
EffectsAreKept ==
  \A r \in Requests :
    LET s == Session(r)
        n == IF at[r] = "done" THEN 1 ELSE 0
    IN s \in Sessions =>
         n = Cardinality(At(r, journal[s])) + Cardinality(At(r, signed[s]))
             + Cardinality(UNION {{q} \X At(r, taken[q]) : q \in InHand(s)})

\* All effects of a session that makes one receipt at a time, in order.
Ledger(s) ==
  signed[s] \o (IF InHand(s) = {} THEN <<>> ELSE taken[CHOOSE q \in InHand(s) : TRUE]) \o journal[s]

\* A receipt has for each file "its state after the last" change (docs/adr/ADR-0006,
\* 8): of a file that no other has changed since, the last effect in the session's
\* receipts and journal is the change the file has its content from, unless requests
\* about the file, or receipts of the session, overlapped.
ReceiptsEndAtTheDisk ==
  \A f \in Files :
    LET r == last[f]
        all == Ledger(Session(r))
    IN r # "none" =>
         /\ disk[f] = Content(r)
         /\ at[r] = "done" /\ r \notin crossed
            /\ (\A q \in crossed : Kind(q) = "receipt" => Session(q) # Session(r))
            => \E i \in At(r, all) : \A j \in i + 1 .. Len(all) : File(all[j]) # f

\* The command that has the slot has exited, and a process it left behind has not.
SlotIsHeld == line # <<>> /\ at[Head(line)] = "lingering"

\* Every request is answered, unless its client hangs up.  A command waits for those
\* before it and no longer; of those, and of its own processes, only one that was left
\* behind outside a namespace, and keeps the pipes of a command that exited, can hold it
\* up for ever: no other command, no time limit and no client that hangs up.
EveryRequestIsAnswered ==
  \A r \in Requests :
    at[r] \in InFlight ~> at[r] \in Answered \/ (Kind(r) = "run" /\ SlotIsHeld)

\* "Full access the moment one command ran with nothing around it" (journal.rs:236):
\* a receipt that covers a command started without a sandbox says so.
LabelIsHonest ==
  \A r \in Requests :
    /\ commands = "unsandboxed" /\ at[r] = "signed"
    /\ \E i \in DOMAIN taken[r] : taken[r][i] \in spawned
    => Label(r) = "full_access"
================================================================================

------------------------------- MODULE PageReads -------------------------------
(***************************************************************************)
(* What the page of vitna app is sent of two other programs' files, read and  *)
(* never written (crates/app-server/src/ledger.rs and routines.rs): the newest *)
(* rows of the runtime's ledger, and each routine's definition, receipts and  *)
(* lock.  Those programs go on writing while the files are read: a size taken *)
(* before is not the size that is read.                                      *)
(***************************************************************************)
EXTENDS Naturals, Sequences

CONSTANTS
  LedgerCap,       \* MAX_LEDGER_BYTES
  MaxLedger,       \* bound: how long the ledger grows
  Definitions,     \* of each routine, by name, its definition: its kind and its size
  MaxDefinition,   \* MAX_DEFINITION_BYTES
  MaxReceipts,     \* MAX_RECEIPT_BYTES
  MaxReply,        \* MAX_REPLY_BYTES
  MaxListed,       \* MAX_DEFINITIONS
  MaxRuns          \* bound: how often a routine is run

ASSUME PageReadsAssumption ==
  /\ {LedgerCap, MaxLedger, MaxDefinition, MaxReceipts, MaxReply, MaxListed, MaxRuns} \subseteq Nat
  /\ Definitions \in Seq([kind : {"good", "not_json", "no_state"}, size : Nat])

VARIABLES
  file,      \* the ledger's bytes: of a row, its newline, or one of a character's two
  tail,      \* the reading of the ledger: how far it is, the size taken, what is sent
  history,  \* how long each routine's receipts are
  running,   \* the routines whose lock is held
  runs,      \* how often one was run
  place,     \* the reading of the routines: which, how far, and the size taken
  budget,    \* what is left of the reply
  rows       \* the reply so far

tailVars == <<file, tail>>
routineVars == <<history, running, runs, place, budget, rows>>

Routines == DOMAIN Definitions
Lesser(a, b) == IF a <= b THEN a ELSE b

--------------------------------------------------------------------------------
(* The ledger.                                                                *)

\* The runtime appends whole characters, but a reader may see one cut.
Append1(b) ==
  /\ Len(file) < MaxLedger
  /\ IF file # <<>> /\ file[Len(file)] = "first" THEN b = "second" ELSE b # "second"
  /\ file' = Append(file, b)
  /\ UNCHANGED tail

\* metadata: a missing file is an empty ledger.
TakeSize ==
  /\ tail.at = "idle"
  /\ tail' = [at |-> "sized", size |-> Len(file), from |-> 0, sent |-> <<>>]
  /\ UNCHANGED file

\* String::from_utf8: every character is whole.
IsText(q) ==
  \A i \in DOMAIN q :
    /\ q[i] = "first" => i < Len(q) /\ q[i + 1] = "second"
    /\ q[i] = "second" => i > 1 /\ q[i - 1] = "first"

\* Up to and with the first newline.
DropRow(q) ==
  IF \E i \in DOMAIN q : q[i] = "nl"
  THEN CHOOSE i \in DOMAIN q : q[i] = "nl" /\ \A j \in 1 .. i - 1 : q[j] # "nl"
  ELSE Len(q)

\* Mutant: the read starts at the cut, and so the row there always goes.
Cut_AtTheCap(size) ==
  LET start == IF size > LedgerCap THEN size - LedgerCap ELSE 0
      read == SubSeq(file, start + 1, Lesser(Len(file), start + LedgerCap))
  IN start + IF start = 0 THEN 0 ELSE DropRow(read)

\* How many bytes are left out of a ledger that had this size.  Past the cap the read
\* starts one byte early, and that byte says whether the cut falls on a row's start.
Cut(size) ==
  LET start == IF size > LedgerCap THEN size - LedgerCap ELSE 0
      read == SubSeq(file, start, Lesser(Len(file), start + LedgerCap))
  IN IF start = 0 THEN 0 ELSE start - 1 + DropRow(read)

\* read_capped, from the opening to the answer: what was appended since is read too, up
\* to the cap.
ReadTail ==
  /\ tail.at = "sized"
  /\ LET start == IF tail.size > LedgerCap THEN tail.size - LedgerCap ELSE 0
         sent == SubSeq(file, Cut(tail.size) + 1, Lesser(Len(file), start + LedgerCap))
     IN tail' = IF IsText(sent)
                THEN [tail EXCEPT !.at = "sent", !.from = Cut(tail.size), !.sent = sent]
                ELSE [tail EXCEPT !.at = "not_text"]
  /\ UNCHANGED file

--------------------------------------------------------------------------------
(* The routines.                                                              *)

\* The routine runner (external): a run has the lock while it adds its rows.
RunRoutine(i) ==
  /\ i \notin running /\ runs < MaxRuns
  /\ running' = running \cup {i} /\ runs' = runs + 1
  /\ UNCHANGED <<history, place, budget, rows>>

AppendRow(i) ==
  /\ i \in running /\ history[i] <= MaxReceipts
  /\ history' = [history EXCEPT ![i] = @ + 1]
  /\ UNCHANGED <<running, runs, place, budget, rows>>

EndRun(i) ==
  /\ i \in running
  /\ running' = running \ {i}
  /\ UNCHANGED <<history, runs, place, budget, rows>>

\* The definitions past MAX_DEFINITIONS are counted and not read.
Reading == place.routine \in Routines /\ place.routine <= MaxListed

\* A row of the reply: the routine, what is wrong with it, and what is sent of it.
ReplyRow(problem, definition, receipt, locked) ==
  [routine |-> place.routine, problem |-> problem, definition |-> definition,
   receipts |-> receipt, locked |-> locked]

At(at) == [place EXCEPT !.at = at, !.examined = FALSE]

\* The row is done.
Put(row) ==
  /\ rows' = Append(rows, row)
  /\ place' = [routine |-> place.routine + 1, at |-> "definition", examined |-> FALSE, size |-> 0]

OfDefinition == Definitions[place.routine].size
Size == IF place.at = "definition" THEN OfDefinition ELSE history[place.routine]
MaxSize == IF place.at = "definition" THEN MaxDefinition ELSE MaxReceipts

\* text: a file too large, or larger than what is left of the reply, is not sent.
Refused ==
  CASE place.at = "definition" /\ Size > MaxSize -> Put(ReplyRow("too_large", 0, 0, FALSE))
    [] place.at = "definition" /\ Size <= MaxSize -> Put(ReplyRow("reply_full", 0, 0, FALSE))
    [] place.at = "receipts" /\ Size > MaxSize -> Put(ReplyRow("receipts_too_large", OfDefinition, 0, FALSE))
    [] OTHER -> Put(ReplyRow("reply_full", OfDefinition, 0, FALSE))

Fits == Size <= MaxSize /\ Size <= budget

\* metadata.
ExamineFile ==
  /\ Reading /\ place.at \in {"definition", "receipts"} /\ ~place.examined
  /\ IF Fits
     THEN place' = [place EXCEPT !.examined = TRUE, !.size = Size] /\ UNCHANGED rows
     ELSE Refused
  /\ UNCHANGED <<history, running, runs, budget>>

\* What follows a file that was read: a definition is parsed, receipts are kept.
Taken ==
  IF place.at = "receipts"
  THEN place' = [At("lock") EXCEPT !.size = Size] /\ UNCHANGED rows
  ELSE IF Definitions[place.routine].kind = "good"
  THEN place' = At("receipts") /\ UNCHANGED rows
  ELSE Put(ReplyRow(Definitions[place.routine].kind, OfDefinition, 0, FALSE))

\* Mutant: the size taken before is charged, and nothing is checked again.
Take_AsExamined ==
  /\ Reading /\ place.examined
  /\ Taken
  /\ budget' = budget - place.size
  /\ UNCHANGED <<history, running, runs>>

\* The file is read, its size checked again and charged to the reply.
Take ==
  /\ Reading /\ place.examined
  /\ IF Fits THEN Taken /\ budget' = budget - Size ELSE Refused /\ UNCHANGED budget
  /\ UNCHANGED <<history, running, runs>>

\* It is gone, cannot be opened, or is not text.
Unreadable ==
  /\ Reading /\ place.at \in {"definition", "receipts"}
  /\ Put(ReplyRow("unreadable", IF place.at = "definition" THEN 0 ELSE OfDefinition, 0, FALSE))
  /\ UNCHANGED <<history, running, runs, budget>>

\* locked_at, after the receipts are read.
ReadLock ==
  /\ Reading /\ place.at = "lock"
  /\ \/ Put(ReplyRow("none", OfDefinition, place.size, place.routine \in running))
     \/ Put(ReplyRow("lock_unreadable", OfDefinition, 0, FALSE))
  /\ UNCHANGED <<history, running, runs, budget>>

--------------------------------------------------------------------------------

PageInit ==
  /\ file = <<>>
  /\ tail = [at |-> "idle", size |-> 0, from |-> 0, sent |-> <<>>]
  /\ history = [i \in Routines |-> 0]
  /\ running = {} /\ runs = 0
  /\ place = [routine |-> 1, at |-> "definition", examined |-> FALSE, size |-> 0]
  /\ budget = MaxReply
  /\ rows = <<>>

LedgerStep == (\E b \in {"a", "nl", "first", "second"} : Append1(b)) \/ TakeSize \/ ReadTail

RoutineStep ==
  \/ \E i \in Routines : RunRoutine(i) \/ AppendRow(i) \/ EndRun(i)
  \/ ExamineFile \/ Take \/ Unreadable \/ ReadLock

PageNext ==
  \/ LedgerStep /\ UNCHANGED routineVars
  \/ RoutineStep /\ UNCHANGED tailVars

--------------------------------------------------------------------------------
(* Properties.                                                                *)

\* "The newest rows of the ledger, as text, and how many bytes before them were left out"
\* (ledger.rs): what is sent is the ledger from there on, at most the cap, from the start
\* of a row; it goes at least as far as the ledger did when it was asked for; and a row is
\* left out only if the cap does not reach back to its start.
TailIsTheNewestRows ==
  tail.at = "sent" =>
    LET end == tail.from + Len(tail.sent) IN
    /\ tail.sent = SubSeq(file, tail.from + 1, end)
    /\ Len(tail.sent) <= LedgerCap
    /\ end >= tail.size
    /\ tail.from = 0 \/ file[tail.from] = "nl" \/ tail.from = end
    /\ \A i \in 1 .. tail.from :
         i = 1 \/ file[i - 1] = "nl" => i + LedgerCap <= tail.size

\* What the first n rows of the reply hold.
SentIn[n \in 0 .. Len(rows)] ==
  IF n = 0 THEN 0 ELSE SentIn[n - 1] + rows[n].definition + rows[n].receipts

\* However the receipts grow while they are read, the reply never holds more than it may,
\* nor a file more than a file may, and no row is missing or told twice.
ReplyFits ==
  /\ SentIn[Len(rows)] <= MaxReply
  /\ \A i \in DOMAIN rows : rows[i].routine = i /\ rows[i].receipts <= MaxReceipts
================================================================================

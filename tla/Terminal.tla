------------------------------- MODULE Terminal -------------------------------
(***************************************************************************)
(* vitna tui (apps/vitna-tui): a terminal that looks for the daemon and reads *)
(* the receipts directory off its drawing thread, and what each key does to   *)
(* what it shows.  Runs write receipts meanwhile, and a second look may start *)
(* before the first is over.                                                 *)
(***************************************************************************)
EXTENDS Receipts, Sequences, FiniteSets, Functions

CONSTANTS
  Answers,   \* what a search for the daemon may find
  MaxLooks,  \* bound: how often the daemon and the directory are looked for
  MaxWrites  \* bound: how often a receipt file is written

VARIABLES
  probe,     \* of each look, its search for the daemon: "none", "out", "answered"
  reading,   \* of each look, its reading of the directory
  link,      \* App.link: what the last answer said of the daemon
  ledger,    \* App.ledger: its rows
  trouble,   \* App.ledger: the directory, or a part of it, could not be listed
  screen,    \* App.screen: 0 for the list, i for the run in row i
  selected,  \* the chosen row
  draft,     \* whether something is typed
  notice,    \* whether the last Enter said why it sent nothing
  quit,
  seen       \* Auxiliary: when the look began whose ledger is shown

terminalVars == <<probe, reading, link, ledger, trouble, screen, selected, draft, notice, quit, seen>>

Looks == 1 .. MaxLooks

ASSUME TerminalAssumption ==
  /\ Answers \subseteq {"absent", "trouble", "open"}
  /\ MaxLooks \in Nat /\ MaxWrites \in Nat

\* The time of a row whose file could not be examined, older than any other.
NoTime == 0

Row == [id : Ids, stamp : Nat, shows : Runs \cup {"unreadable"}]

\* A reading is the names still to be read, the file examined and not read yet, the
\* rows so far, and its trouble; "since" is when the directory was listed.
NotReading ==
  [state |-> "none", left |-> {}, examined |-> {}, found |-> {}, trouble |-> FALSE, since |-> 0]
NoLedger == <<[id |-> "none"]>>
Rows == IF ledger = NoLedger THEN 0 ELSE Len(ledger)

Least(a, b) == IF a <= b THEN a ELSE b

\* look: the daemon, and the receipts.
Look(k) ==
  /\ probe[k] = "none" /\ \A j \in 1 .. k - 1 : probe[j] # "none"
  /\ probe' = [probe EXCEPT ![k] = "out"]
  /\ reading' = [reading EXCEPT ![k].state = "asked"]

\* link::probe, whatever it found: nothing listens, the handshake failed, was refused or
\* took three seconds, or it was accepted.
Answer(k) ==
  /\ probe[k] = "out"
  /\ probe' = [probe EXCEPT ![k] = "answered"]
  /\ link' \in Answers
  /\ UNCHANGED <<reading, ledger, screen, selected, draft, notice, quit, seen, trouble>>

--------------------------------------------------------------------------------
(* ledger::read.                                                              *)

InDirectory == {id \in Ids : receipts[id] # "absent"}

\* read_dir: it fails, or some of its entries do, and those that remain are read.
List(k) ==
  /\ reading[k].state = "asked"
  /\ \E names \in SUBSET InDirectory, partly \in BOOLEAN :
       /\ names # InDirectory => partly
       /\ reading' = [reading EXCEPT ![k] =
            [@ EXCEPT !.state = "listed", !.left = names, !.trouble = partly, !.since = clock]]
  /\ UNCHANGED <<probe, link, ledger, screen, selected, draft, notice, quit, seen, trouble>>

UnreadRow(id, stamp) == [id |-> id, stamp |-> stamp, shows |-> "unreadable"]

\* read_one: the time a file was written, or a row of its own where that fails.
Examine(k, id) ==
  /\ id \in reading[k].left /\ reading[k].examined = {}
  /\ \/ reading' = [reading EXCEPT ![k] =
          [@ EXCEPT !.left = reading[k].left \ {id}, !.examined = {<<id, written[id]>>}]]
     \/ reading' = [reading EXCEPT ![k] =
          [@ EXCEPT !.left = reading[k].left \ {id},
                    !.found = reading[k].found \cup {UnreadRow(id, NoTime)}]]
  /\ UNCHANGED <<probe, link, ledger, screen, selected, draft, notice, quit, seen, trouble>>

\* Mutant: a file that is no receipt has no row.
RowFor_Skips(id, stamp) ==
  IF receipts[id] \in Runs THEN {[id |-> id, stamp |-> stamp, shows |-> receipts[id]]} ELSE {}

\* A file that is no receipt has a row of its own.
RowFor(id, stamp) ==
  {IF receipts[id] \in Runs
   THEN [id |-> id, stamp |-> stamp, shows |-> receipts[id]] ELSE UnreadRow(id, stamp)}

\* Then what the file holds; one that cannot be opened or read has its row as well.
ReadOne(k) ==
  /\ \E x \in reading[k].examined :
       \E new \in {RowFor(x[1], x[2]), {UnreadRow(x[1], x[2])}} :
         reading' = [reading EXCEPT ![k] =
           [@ EXCEPT !.examined = {}, !.found = reading[k].found \cup new]]
  /\ UNCHANGED <<probe, link, ledger, screen, selected, draft, notice, quit, seen, trouble>>

NewestFirst(q) == \A i, j \in DOMAIN q : i < j => q[i].stamp >= q[j].stamp

\* Mutant: the list is taken as it comes.
Update_KeepsPlace(n) == UNCHANGED <<screen, selected>>

\* App::update: the chosen row and the run on screen are places in the new list.
Update(n) ==
  /\ selected' = Least(selected, IF n = 0 THEN 0 ELSE n - 1)
  /\ screen' = IF screen > n THEN 0 ELSE screen

ShowLedger(k) ==
  /\ reading[k].state = "listed" /\ reading[k].left = {} /\ reading[k].examined = {}
  /\ \E q \in [1 .. Cardinality(reading[k].found) -> reading[k].found] :
       /\ Range(q) = reading[k].found /\ NewestFirst(q)
       /\ ledger' = q
  /\ Update(Cardinality(reading[k].found))
  /\ reading' = [reading EXCEPT ![k] = [NotReading EXCEPT !.state = "shown"]]
  /\ seen' = reading[k].since
  /\ trouble' = reading[k].trouble
  /\ UNCHANGED <<probe, link, draft, notice, quit>>

--------------------------------------------------------------------------------
(* App::key.                                                                  *)

\* Ctrl+R.
Refresh ==
  /\ \E k \in Looks : Look(k)
  /\ link' = "probing"
  /\ notice' = FALSE
  /\ UNCHANGED <<ledger, screen, selected, draft, quit, seen, trouble>>

\* Enter: with something typed it says why it is not sent, else it opens the chosen run.
Enter ==
  /\ IF draft
     THEN notice' = TRUE /\ UNCHANGED screen
     ELSE /\ screen = 0 /\ Rows > 0
          /\ screen' = selected + 1
          /\ UNCHANGED notice
  /\ UNCHANGED <<probe, reading, link, ledger, selected, draft, quit, seen, trouble>>

Escape ==
  /\ IF notice
     THEN notice' = FALSE /\ UNCHANGED <<screen, selected>>
     ELSE screen # 0 /\ screen' = 0 /\ selected' = screen - 1 /\ UNCHANGED notice
  /\ UNCHANGED <<probe, reading, link, ledger, draft, quit, seen, trouble>>

\* The arrows, when nothing is typed; a page is more rows than there are.
Arrow ==
  /\ ~draft /\ screen = 0 /\ Rows > 0
  /\ selected' \in {Least(selected + 1, Rows - 1), IF selected = 0 THEN 0 ELSE selected - 1}
  /\ UNCHANGED <<probe, reading, link, ledger, screen, draft, notice, quit, seen, trouble>>

Page ==
  /\ screen = 0 /\ Rows > 0
  /\ selected' \in {0, Rows - 1}
  /\ UNCHANGED <<probe, reading, link, ledger, screen, draft, notice, quit, seen, trouble>>

\* Typing, a paste, or deleting what is typed.
Edit ==
  /\ draft' \in BOOLEAN
  /\ notice' = FALSE
  /\ UNCHANGED <<probe, reading, link, ledger, screen, selected, quit, seen, trouble>>

\* Ctrl+C and Ctrl+D.
Quit ==
  /\ ~draft
  /\ quit' = TRUE
  /\ UNCHANGED <<probe, reading, link, ledger, screen, selected, draft, notice, seen, trouble>>

--------------------------------------------------------------------------------

\* start: the first look is asked before the first frame.
TerminalInit ==
  /\ ReceiptsInit
  /\ probe = [k \in Looks |-> IF k = 1 THEN "out" ELSE "none"]
  /\ reading = [k \in Looks |-> [NotReading EXCEPT !.state = IF k = 1 THEN "asked" ELSE "none"]]
  /\ link = "probing"
  /\ ledger = NoLedger
  /\ screen = 0 /\ selected = 0
  /\ draft = FALSE /\ notice = FALSE /\ quit = FALSE
  /\ seen = 0
  /\ trouble = FALSE

Reader(k) == List(k) \/ (\E id \in Ids : Examine(k, id)) \/ ReadOne(k) \/ ShowLedger(k)

TerminalStep ==
  /\ ~quit
  /\ \/ \E k \in Looks : Answer(k) \/ Reader(k)
     \/ Refresh \/ Enter \/ Escape \/ Arrow \/ Page \/ Edit \/ Quit
  /\ UNCHANGED receiptVars

RunsWrite ==
  /\ clock < MaxWrites
  /\ ReceiptsNext
  /\ UNCHANGED terminalVars

TerminalNext == TerminalStep \/ RunsWrite

--------------------------------------------------------------------------------
(* Properties.                                                                *)

\* The chosen row and the run on screen are rows of the list, however many looks are
\* out and whichever of them is shown last.
PlaceIsInTheList ==
  /\ selected <= IF Rows = 0 THEN 0 ELSE Rows - 1
  /\ screen <= Rows

\* "A receipt that silently drops out of a list is how a failed run stops existing"
\* (ledger.rs:85): of the files not written since the list was made, each has a row,
\* unless the list says that a part of it is missing; none has two; and a row has its
\* file's time and content, or says that the file could not be read.  The rows are
\* newest first, those of unknown time last.
ListIsTrue ==
  ledger # NoLedger =>
    /\ NewestFirst(ledger)
    /\ \A i, j \in DOMAIN ledger : ledger[i].id = ledger[j].id => i = j
    /\ \A i \in DOMAIN ledger :
         LET row == ledger[i]
         IN written[row.id] \in 1 .. seen =>
              \/ row.stamp = written[row.id] /\ row.shows \in {receipts[row.id], "unreadable"}
              \/ row = UnreadRow(row.id, NoTime)
    /\ ~trouble =>
         \A id \in Ids : written[id] \in 1 .. seen => \E i \in DOMAIN ledger : ledger[i].id = id
================================================================================

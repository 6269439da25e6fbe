-------------------------------- MODULE Receipts --------------------------------
(***************************************************************************)
(* The receipts directory of a workspace, .vitna/receipts: one file for each *)
(* run id, written in place and without a lock by whoever finishes a run     *)
(* (crates/orchestration/src/engine.rs, finalize_run) and read by clients.   *)
(***************************************************************************)
EXTENDS Naturals

CONSTANTS
  Ids,  \* run ids: the names of the files
  Runs  \* the runs that receipts are about

ASSUME ReceiptsAssumption == Runs \cap {"absent", "torn"} = {}

VARIABLES
  receipts,  \* what each file holds: "absent", "torn", or the receipt of a run
  written,   \* when it was last written, 0 if never
  clock      \* the time: it passes when a file is written

receiptVars == <<receipts, written, clock>>

ReceiptsInit ==
  /\ receipts = [id \in Ids |-> "absent"]
  /\ written = [id \in Ids |-> 0]
  /\ clock = 0

Touch(id) ==
  /\ clock' = clock + 1
  /\ written' = [written EXCEPT ![id] = clock + 1]

\* fs::write opens the file and truncates it.
OpenReceipt(id) ==
  /\ receipts' = [receipts EXCEPT ![id] = "torn"]
  /\ Touch(id)

\* It writes the text.  Over a text that came since, the end of a longer one may be
\* left standing.
FillReceipt(id, r) ==
  /\ receipts[id] # "absent"
  /\ \E c \in {r, "torn"} :
       /\ c = "torn" => receipts[id] # "torn"
       /\ receipts' = [receipts EXCEPT ![id] = c]
  /\ Touch(id)

ReceiptsNext == \E id \in Ids : OpenReceipt(id) \/ \E r \in Runs : FillReceipt(id, r)
================================================================================

------------------------------- MODULE DeviceKey -------------------------------
(***************************************************************************)
(* The device key (crates/daemon/src/key.rs): daemons of one account start   *)
(* at the same moment or one after another, each calling load_or_create on   *)
(* the same file, while `vitna doctor` calls public_key_in.  Each system     *)
(* call is a step; a call may fail and a process may die between any two.    *)
(***************************************************************************)
EXTENDS Naturals

CONSTANTS
  Calls,        \* the calls made, by any process; a call that makes a key makes its own
  Names,        \* staging names: a process id and a counter, free again after a death
  FoundAtFirst, \* what the first call may find: "absent", "empty", "foreign", "old"
  EmptyOverlaps,\* TRUE when a daemon may start while another is at an empty file
  MaxFaults     \* bound: failed system calls and deaths

ASSUME KeyAssumption ==
  /\ EmptyOverlaps \in BOOLEAN
  /\ FoundAtFirst \subseteq {"absent", "empty", "foreign", "old"}
  /\ Calls \cap {"absent", "empty", "foreign", "old", "none"} = {}
  /\ "none" \notin Names
  /\ MaxFaults \in Nat

VARIABLES
  file,     \* device-key: no file, an empty one, one that is no key, or a key
  private,  \* the file's permissions admit this account only
  staging,  \* the staging file of each name: "none", "part", or "whole"
  at,       \* where a call stands
  name,     \* the staging name a call uses
  holds,    \* the key a call returned
  faults

vars == <<file, private, staging, at, name, holds, faults>>

\* A key is named for the call that made it, and one from before is "old".
Keys == Calls \cup {"old"}

At == {"idle", "clearing", "making", "staged", "written", "placed", "lost", "reading",
       "reporting", "ok", "reported", "nothing", "refused", "failed", "dead"}

Move(c, to) == at' = [at EXCEPT ![c] = to]

\* A system call fails for a reason of its own.
Fault == faults < MaxFaults /\ faults' = faults + 1

Busy(c) == at[c] \in {"clearing", "making", "staged", "written", "placed", "lost",
                      "reading", "reporting"}

Begin(c) == at[c] = "idle" /\ (EmptyOverlaps \/ file # "empty" \/ \A d \in Calls : ~Busy(d))

--------------------------------------------------------------------------------
(* load_or_create.                                                            *)

\* metadata.
Look(c) ==
  /\ Begin(c)
  /\ Move(c, CASE file = "absent" -> "making"
               [] file = "empty"  -> "clearing"
               [] OTHER           -> "reading")
  /\ UNCHANGED <<file, private, staging, name, holds, faults>>

\* check_owner_only, then remove_file: both are of the path, whatever is there by
\* now, and both fail when nothing is.
Clear(c) ==
  /\ at[c] = "clearing"
  /\ IF file # "absent" /\ private
     THEN file' = "absent" /\ Move(c, "making")
     ELSE UNCHANGED file /\ Move(c, "refused")
  /\ UNCHANGED <<private, staging, name, holds, faults>>

Live(c) == at[c] \in {"staged", "written", "placed", "lost"}

\* create_owner_only: fails on a name a dead process left behind.
Stage(c) ==
  /\ at[c] = "making"
  /\ \E n \in Names :
       /\ \A d \in Calls : Live(d) => name[d] # n
       /\ IF staging[n] = "none"
          THEN /\ staging' = [staging EXCEPT ![n] = "part"]
               /\ name' = [name EXCEPT ![c] = n]
               /\ Move(c, "staged")
          ELSE UNCHANGED <<staging, name>> /\ Move(c, "failed")
  /\ UNCHANGED <<file, private, holds, faults>>

\* write_all, sync_all.
Write(c) ==
  /\ at[c] = "staged"
  /\ staging' = [staging EXCEPT ![name[c]] = "whole"]
  /\ Move(c, "written")
  /\ UNCHANGED <<file, private, name, holds, faults>>

\* Either fails: the staging file is taken back, if that does not fail too.
WriteFails(c) ==
  /\ at[c] = "staged"
  /\ Fault
  /\ \E after \in {"none", "part", "whole"} : staging' = [staging EXCEPT ![name[c]] = after]
  /\ Move(c, "failed")
  /\ UNCHANGED <<file, private, name, holds>>

\* Mutant: the key file is created in place and written afterwards.
Place_InPlace(c) ==
  /\ at[c] = "written"
  /\ IF file = "absent"
     THEN file' = "foreign" /\ private' = TRUE /\ UNCHANGED at
     ELSE IF file = "foreign"
          THEN file' = c /\ Move(c, "placed") /\ UNCHANGED private
          ELSE Move(c, "lost") /\ UNCHANGED <<file, private>>
  /\ UNCHANGED <<staging, name, holds, faults>>

\* Mutant: rename, which replaces what is there.
Place_Rename(c) ==
  /\ at[c] = "written"
  /\ file' = c /\ private' = TRUE /\ Move(c, "placed")
  /\ UNCHANGED <<staging, name, holds, faults>>

\* hard_link: one step, refused when a key is there.
Place(c) ==
  /\ at[c] = "written"
  /\ IF file = "absent"
     THEN file' = c /\ private' = TRUE /\ Move(c, "placed")
     ELSE Move(c, "lost") /\ UNCHANGED <<file, private>>
  /\ UNCHANGED <<staging, name, holds, faults>>

\* Any other error of hard_link; the staging file goes as after any outcome.
PlaceFails(c) ==
  /\ at[c] = "written"
  /\ Fault
  /\ \E after \in {"none", "whole"} : staging' = [staging EXCEPT ![name[c]] = after]
  /\ Move(c, "failed")
  /\ UNCHANGED <<file, private, name, holds>>

\* Mutant: whoever lost the race signs with the key it made.
Unstage_KeepsOwn(c) ==
  /\ at[c] \in {"placed", "lost"}
  /\ staging' = [staging EXCEPT ![name[c]] = "none"]
  /\ Move(c, "ok") /\ holds' = [holds EXCEPT ![c] = c]
  /\ UNCHANGED <<file, private, name, faults>>

\* remove_file of the staging name, whose failure is ignored.  Who placed the key
\* returns it, who found one there reads it.
Unstage(c) ==
  /\ at[c] \in {"placed", "lost"}
  /\ \/ staging' = [staging EXCEPT ![name[c]] = "none"] /\ UNCHANGED faults
     \/ Fault /\ UNCHANGED staging
  /\ IF at[c] = "placed"
     THEN Move(c, "ok") /\ holds' = [holds EXCEPT ![c] = c]
     ELSE Move(c, "reading") /\ UNCHANGED holds
  /\ UNCHANGED <<file, private, name>>

\* read_key, for a daemon or a report: owner-only, and a key.
Read(c) ==
  /\ at[c] \in {"reading", "reporting"}
  /\ IF file \in Keys /\ private
     THEN /\ Move(c, IF at[c] = "reading" THEN "ok" ELSE "reported")
          /\ holds' = [holds EXCEPT ![c] = file]
     ELSE Move(c, "refused") /\ UNCHANGED holds
  /\ UNCHANGED <<file, private, staging, name, faults>>

\* metadata, check_owner_only or read_to_string fails.
ReadFails(c) ==
  /\ at[c] \in {"idle", "clearing", "reading", "reporting"}
  /\ Fault
  /\ Move(c, "failed")
  /\ UNCHANGED <<file, private, staging, name, holds>>

--------------------------------------------------------------------------------
(* public_key_in: reports on the key and never makes one.                     *)

Report(c) ==
  /\ at[c] = "idle"
  /\ Move(c, IF file \in {"absent", "empty"} THEN "nothing" ELSE "reporting")
  /\ UNCHANGED <<file, private, staging, name, holds, faults>>

--------------------------------------------------------------------------------

\* The process dies before the call returns; its staging file stays.
Die(c) ==
  /\ at[c] \in {"clearing", "making", "staged", "written", "placed", "lost", "reading"}
  /\ Fault
  /\ Move(c, "dead")
  /\ UNCHANGED <<file, private, staging, name, holds>>

Init ==
  /\ file \in FoundAtFirst
  /\ private \in IF file = "absent" THEN {TRUE} ELSE BOOLEAN
  /\ staging = [n \in Names |-> "none"]
  /\ at = [c \in Calls |-> "idle"]
  /\ name = [c \in Calls |-> "none"]
  /\ holds = [c \in Calls |-> "none"]
  /\ faults = 0

Step(c) ==
  \/ Look(c) \/ Clear(c) \/ Stage(c) \/ Write(c) \/ WriteFails(c) \/ Place(c) \/ PlaceFails(c)
  \/ Unstage(c) \/ Read(c) \/ ReadFails(c) \/ Report(c) \/ Die(c)

Next == \E c \in Calls : Step(c)

Spec == Init /\ [][Next]_vars

--------------------------------------------------------------------------------
(* Properties.                                                                *)

\* The variables keep their types, and what is linked into place is a whole file
\* that one call alone wrote.
TypeOK ==
  /\ file \in Keys \cup {"absent", "empty", "foreign"}
  /\ private \in BOOLEAN
  /\ staging \in [Names -> {"none", "part", "whole"}]
  /\ at \in [Calls -> At]
  /\ name \in [Calls -> Names \cup {"none"}]
  /\ \A c \in Calls : Live(c) => name[c] \in Names
  /\ \A c, d \in Calls : Live(c) /\ Live(d) /\ name[c] = name[d] => c = d
  /\ \A c \in Calls : at[c] = "written" => staging[name[c]] = "whole"
  /\ holds \in [Calls -> Keys \cup {"none"}]
  /\ faults \in 0 .. MaxFaults

Holds(c) == at[c] \in {"ok", "reported"}

\* "one per account whichever store a daemon opens" (key.rs:9): every daemon signs
\* with one key, that key is in the file, and it is what a report names.
OneSigner == \A c \in Calls : Holds(c) => holds[c] = file

\* "A daemon that starts at the same moment therefore finds no key or a whole one"
\* (key.rs:75): a call is told that the file is no key only when the first one
\* found it so, or readable by others.
NoHalfKey == \A c \in Calls : at[c] = "refused" => file = "foreign" \/ ~private

\* "made once, kept owner-only, never replaced behind anyone's back" (key.rs:1),
\* "A key file that exists and will not parse is never overwritten" (key.rs:33).
NeverReplaced == [][file \notin {"absent", "empty"} => file' = file]_vars

--------------------------------------------------------------------------------
\* What holds when no daemon starts while another is at an empty file: who is about
\* to remove an empty file still has an empty file in front of it.
IInv ==
  /\ TypeOK
  /\ file = "absent" => private
  /\ file = "empty" => \A c, d \in Calls : Busy(c) /\ Busy(d) => c = d
  /\ \A c \in Calls :
       /\ at[c] = "clearing" => file = "empty"
       /\ at[c] = "making" => file # "empty"
       /\ Live(c) => file # "empty"
       /\ at[c] \in {"reading", "reporting", "lost"} => file \notin {"absent", "empty"}
       /\ at[c] = "placed" => file = c
       /\ Holds(c) => holds[c] = file /\ file \in Keys
       /\ at[c] = "refused" => file = "foreign" \/ ~private
================================================================================

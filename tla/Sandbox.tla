-------------------------------- MODULE Sandbox --------------------------------
(***************************************************************************)
(* What a sandboxed command can do to its workspace: how a plan is made       *)
(* (crates/vitna-sandbox/src/lib.rs) from what the disk holds while it is made, *)
(* and what the mounts of bubblewrap or the profile of Seatbelt then let the    *)
(* command write.  The workspace has `.git` and `.vitna`, each a folder of      *)
(* pieces, and a free name beside them.  A folder keeps what it is when it is   *)
(* renamed; other programs change the workspace all the while.                *)
(***************************************************************************)
EXTENDS Naturals, Sequences

CONSTANTS
  Platforms,     \* those of "linux", "macos", "other"
  MaxCommands, MaxIntrusions  \* bounds: commands asked for, changes made by other programs

Names == {".git", ".vitna", "aside"}
Pieces == {"config", "hooks"}

\* The folder that begins as `.git`, the one that begins as `.vitna`, another.
FolderIds == {"repository", "records", "new"}
First == [n \in {".git", ".vitna"} |-> IF n = ".git" THEN "repository" ELSE "records"]

\* protected_subpaths: paths as sequences of names.  The other pieces of `.git` that it
\* lists are as these two.
Protectable == {<<".git", "config">>, <<".git", "hooks">>, <<".vitna">>}

ASSUME SandboxAssumption ==
  Platforms \subseteq {"linux", "macos", "other"}
  /\ MaxCommands \in Nat /\ MaxIntrusions \in Nat

VARIABLES
  platform,
  at,       \* the folder at each name, "file" for another thing, or "none"
  piece,    \* what the pieces of each folder hold: "none", "first", "outside", "command"
  able,     \* the system lets a sandbox be made
  probed,   \* what this process knows of that: "unknown", "yes", "no"
  command,  \* the command and its plan
  asked, outside

sandboxVars == <<platform, at, piece, able, probed, command, asked, outside>>
workspaceVars == <<at, piece>>

IsFolder(n) == at[n] \in FolderIds

\* What a path holds, and in which folder.
Holding(p) ==
  {<<at[p[1]], x, piece[at[p[1]]][x]>> : x \in IF ~IsFolder(p[1]) THEN {}
                                            ELSE IF Len(p) = 2 THEN {p[2]} ELSE Pieces}

Exists(p) == IF Len(p) = 1 THEN at[p[1]] # "none" ELSE IsFolder(p[1]) /\ piece[at[p[1]]][p[2]] # "none"

Idle == [step |-> "idle", guarantee |-> "guarded", protected |-> {}, pinned |-> FALSE, gap |-> FALSE,
         ro |-> {}, rw |-> {}, before |-> {}]

--------------------------------------------------------------------------------
(* plan.                                                                      *)

Step(s) == command' = [command EXCEPT !.step = s]

\* SandboxConfig::new and plan: two of the guarantees are planned.
Ask ==
  /\ command.step = "idle" /\ asked < MaxCommands
  /\ asked' = asked + 1
  /\ \E g \in {"read_only", "guarded", "strong", "full_access"} :
       command' = [Idle EXCEPT !.step = IF g \in {"read_only", "guarded"} THEN "probe" ELSE "refused",
                               !.guarantee = g,
                               !.before = {<<p, Holding(p)>> : p \in {c \in Protectable : Exists(c)}}]
  /\ UNCHANGED <<workspaceVars, able, probed, outside>>

\* bwrap_probe, seatbelt_probe: tried once, and its answer kept.
Probe ==
  /\ command.step = "probe"
  /\ LET answer == IF probed # "unknown" THEN probed
                   ELSE IF platform # "other" /\ able THEN "yes" ELSE "no"
     IN /\ probed' = answer
        /\ Step(IF answer = "no" THEN "refused" ELSE IF platform = "linux" THEN "git" ELSE "protected")
  /\ UNCHANGED <<workspaceVars, able, asked, outside>>

\* Mutant: only the pieces are protected.
PinGit_Not ==
  /\ command.step = "git"
  /\ Step(IF platform = "linux" THEN "protected" ELSE "gaps")
  /\ UNCHANGED <<workspaceVars, able, probed, asked, outside>>

\* `.git` itself, so that it cannot be renamed with the protected pieces in it.
PinGit ==
  /\ command.step = "git"
  /\ command' = [command EXCEPT !.step = IF platform = "linux" THEN "protected" ELSE "gaps",
                   !.pinned = IF platform = "linux" THEN IsFolder(".git") ELSE at[".git"] # "none"]
  /\ UNCHANGED <<workspaceVars, able, probed, asked, outside>>

\* The paths that exist now.
Protect ==
  /\ command.step = "protected"
  /\ command' = [command EXCEPT !.step = IF platform = "linux" THEN "gaps" ELSE "git",
                                !.protected = {c \in Protectable : Exists(c)}]
  /\ UNCHANGED <<workspaceVars, able, probed, asked, outside>>

\* plan_guarded: a `.git` that could be made inside is named as a gap.
NameGaps ==
  /\ command.step = "gaps"
  /\ command' = [command EXCEPT !.step = "planned", !.gap = at[".git"] = "none"]
  /\ UNCHANGED <<workspaceVars, able, probed, asked, outside>>

Enforcement == IF platform = "linux" /\ ~command.gap THEN "fully_enforced" ELSE "fallback"

--------------------------------------------------------------------------------
(* The command.                                                               *)

\* A mount is on the folder, or the piece of one, that the path leads to now.
MountOn(p) == <<at[p[1]]>> \o Tail(p)

\* bubblewrap binds every path or gives up; a mount on a mount covers it.  (The whole
\* start is one step.)
StartSandboxed ==
  /\ command.step = "planned"
  /\ LET mounted == command.protected \cup (IF command.pinned THEN {<<".git">>} ELSE {})
     IN IF platform = "macos" THEN Step("running")
        ELSE IF ~able \/ \E p \in mounted : ~Exists(p) THEN Step("failed")
        ELSE command' = [command EXCEPT !.step = "running",
               !.ro = {MountOn(p) : p \in command.protected},
               !.rw = {MountOn(p) : p \in mounted \ command.protected}]
  /\ UNCHANGED <<workspaceVars, able, probed, asked, outside>>

\* The piece x of the folder at n.  Linux: the innermost mount decides, the workspace's
\* own last.  macOS: the path does.
MayWrite(n, x) ==
  IF platform = "linux"
  THEN LET d == at[n]
       IN <<d, x>> \notin command.ro /\ <<d>> \notin command.ro
          /\ (<<d>> \in command.rw \/ command.guarantee = "guarded")
  ELSE command.guarantee = "guarded" /\ <<n, x>> \notin command.protected /\ <<n>> \notin command.protected

\* The name n: a mount point cannot be renamed or removed, a folder that only contains
\* some can.
MayRename(n) ==
  /\ command.guarantee = "guarded"
  /\ IF platform = "linux"
     THEN <<at[n]>> \notin command.ro \cup command.rw
     ELSE <<n>> \notin command.protected /\ ~(n = ".git" /\ command.pinned)

WritePiece ==
  /\ command.step = "running"
  /\ \E n \in Names, x \in Pieces, v \in {"none", "command"} :
       /\ IsFolder(n) /\ MayWrite(n, x)
       /\ piece' = [piece EXCEPT ![at[n]][x] = v]
  /\ UNCHANGED <<at, able, probed, command, asked, outside>>

RenameFolder ==
  /\ command.step = "running"
  /\ \E n, m \in Names :
       /\ at[n] # "none" /\ at[m] = "none" /\ MayRename(n) /\ MayRename(m)
       /\ at' = [at EXCEPT ![m] = at[n], ![n] = "none"]
  /\ UNCHANGED <<piece, able, probed, command, asked, outside>>

Free(d) == \A n \in Names : at[n] # d

MakeFolderInside ==
  /\ command.step = "running"
  /\ \E n \in Names, d \in FolderIds :
       /\ at[n] = "none" /\ MayRename(n) /\ Free(d)
       /\ at' = [at EXCEPT ![n] = d]
       /\ piece' = [piece EXCEPT ![d] = [x \in Pieces |-> "none"]]
  /\ UNCHANGED <<able, probed, command, asked, outside>>

End ==
  /\ command.step \in {"running", "failed", "refused"}
  /\ command' = Idle
  /\ UNCHANGED <<workspaceVars, able, probed, asked, outside>>

--------------------------------------------------------------------------------
(* Other programs.                                                            *)

\* What they change is theirs to change, with the mounts on what is gone.
Disturb(n, gone) ==
  command' = [command EXCEPT !.before = {b \in @ : b[1][1] # n},
                             !.ro = {m \in @ : m[1] \notin gone}, !.rw = {m \in @ : m[1] \notin gone}]

ChangeOutside ==
  /\ outside < MaxIntrusions /\ outside' = outside + 1
  /\ \/ \E n \in Names, x \in Pieces, v \in {"none", "outside"} :
          /\ IsFolder(n)
          /\ piece' = [piece EXCEPT ![at[n]][x] = v]
          /\ Disturb(n, {})
          /\ UNCHANGED <<at, able>>
     \/ \E n \in Names, d \in FolderIds \cup {"file", "none"} :
          /\ IF at[n] = "none" THEN d # "none" /\ Free(d) ELSE d = "none"
          /\ at' = [at EXCEPT ![n] = d]
          /\ piece' = IF d \in FolderIds THEN [piece EXCEPT ![d] = [x \in Pieces |-> "none"]] ELSE piece
          /\ Disturb(n, {at[n]})
          /\ UNCHANGED able
     \/ able' = ~able /\ UNCHANGED <<workspaceVars, command>>
  /\ UNCHANGED <<probed, asked>>

--------------------------------------------------------------------------------

SandboxStart(on, there, git, has, found) ==
  /\ at = [n \in Names |-> IF n \notin there THEN "none" ELSE IF n = ".git" THEN git ELSE First[n]]
  /\ piece = [d \in FolderIds |-> [x \in Pieces |->
       IF \E n \in there : First[n] = d /\ (n = ".vitna" \/ x \in has) THEN "first" ELSE "none"]]
  /\ platform = on /\ able = TRUE /\ probed = found
  /\ command = Idle /\ asked = 0 /\ outside = 0

\* With and without `.git` and `.vitna`; the `.git` of a worktree is a file.  An earlier
\* command of this process may have tried whether a sandbox can be made.
SandboxInit ==
  \E on \in Platforms, there \in SUBSET {".git", ".vitna"}, git \in {"repository", "file"},
     has \in SUBSET Pieces, found \in {"unknown", "yes", "no"} :
    /\ on = "other" => found # "yes"
    /\ SandboxStart(on, there, git, has, found)

SandboxNext ==
  /\ \/ Ask \/ Probe \/ PinGit \/ Protect \/ NameGaps \/ StartSandboxed
     \/ WritePiece \/ RenameFolder \/ MakeFolderInside \/ End
     \/ ChangeOutside
  /\ UNCHANGED platform

\* Hazard: protections written against paths and mounts, on a tree that is renamed.
\* "Without this the whole directory can simply be renamed and replaced, and every
\* protection below it goes with it" (lib.rs, generate_linux_bwrap_args): whatever a
\* command renames, makes and writes, each protected path that was there when its plan
\* was begun, and that nobody else touched, leads to the same thing holding the same.
ProtectedStay == \A b \in command.before : Holding(b[1]) = b[2]
================================================================================

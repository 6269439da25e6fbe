----------------------------- MODULE WorkspaceWalk -----------------------------
(***************************************************************************)
(* One call on a file of the workspace, system call by system call, while     *)
(* other programs rename folders, put links in their place and change files.  *)
(* The tools and vitna app resolve links and then ask the opened handle where *)
(* it lives (crates/tools/src/workspace_fs.rs, workspace_files.rs; the app    *)
(* keeps some folders from its page first, crates/app-server/src/api.rs,      *)
(* allowed); the git broker follows no link at all                           *)
(* (crates/git-broker/src/tree.rs).                                          *)
(*                                                                           *)
(* The path asked for is a file in a folder, Folder/f.  A place holds a folder, *)
(* a link to another place, or nothing, and a folder holds at most one entry,  *)
(* its f: a file, a link to the f of a place, or nothing.                     *)
(***************************************************************************)
EXTENDS Naturals

CONSTANTS
  Inside,   \* places in the workspace
  Kept,     \* those that vitna app keeps from its page
  Outside,  \* places that are not in the workspace
  Folder,   \* the place named by the path
  DirOf,    \* the folder that may be at each place when the call starts,
  FileOf,   \* and the file in it
  MaxMoves  \* bound: what other programs do

Places == Inside \cup Outside
Dirs == {DirOf[p] : p \in Places}
Files == {FileOf[p] : p \in Places}

ASSUME WalkAssumption ==
  /\ Folder \in Inside \ Kept /\ Kept \subseteq Inside
  /\ Inside \cap Outside = {} /\ Dirs \cap Places = {} /\ Files \cap Places = {}
  /\ "none" \notin Places \cup Dirs \cup Files
  /\ \A p, q \in Places : p # q => DirOf[p] # DirOf[q] /\ FileOf[p] # FileOf[q]
  /\ MaxMoves \in Nat

VARIABLES
  holds,  \* what is at each place
  entry,  \* what is at f in each folder
  home,   \* the folder each file is in, or was in when it was removed; "none" if unmade
  text,   \* what each file holds: "empty", "theirs", "ours"
  call,   \* the call: what it is, where it stands, and the paths and handles it has
  moves,
  \* Auxiliary: read by no action.
  been,   \* where each file has been, a removed one with the folder it was in
  used    \* what the call did to which file, what it made where, and what it relied on

walkVars == <<holds, entry, home, text, call, moves, been, used>>
diskVars == <<holds, entry, home, text, been>>

Tools == {"read", "write", "remove"}
Broker == {"entry", "merge"}

\* A path is walked through the links there are.  Bound: no link at a place leads to
\* another (a link at f may lead to one).
Leads(p) == IF holds[p] \in Places THEN holds[p] ELSE p
Dir(p) == IF holds[Leads(p)] \in Dirs THEN holds[Leads(p)] ELSE "none"
Entry(d) == IF d = "none" THEN "none" ELSE entry[d]

\* Where a handle lives, as the system says it.
PlaceOf(d) == {p \in Places : holds[p] = d}
Present(f) == {p \in Places : holds[p] \in Dirs /\ entry[holds[p]] = f}

Go(at) == call' = [call EXCEPT !.at = at]
Refuse == Go("refused")
Quietly == UNCHANGED <<diskVars, moves, used>>

--------------------------------------------------------------------------------
(* Workspace::resolve.                                                        *)

\* Where the file at f in the folder at p is, once links are resolved.
Final(p) == LET x == Entry(Dir(p)) IN IF x \in Places THEN Leads(x) ELSE Leads(p)

\* guarded: a name that the page may not use, anywhere on the way or at its end.
Guarded(p) == p \in Kept

\* allowed: neither the path nor where it leads is guarded, or the page is refused.
Locate ==
  /\ call.at = "asked"
  /\ IF Guarded(Folder) \/ Guarded(Final(Folder)) THEN Refuse ELSE Go("start")
  /\ used' = [used EXCEPT !.moved = FALSE]
  /\ UNCHANGED <<diskVars, moves>>

\* is_within: name by name, so that a folder whose name only begins like the workspace's
\* is outside.
Within(p) == p \in Inside

\* canonicalize, name by name: the folder, then the file.
ResolveFolder ==
  /\ call.at = "start" /\ call.op \in Tools
  /\ call' = IF Dir(Folder) = "none" THEN [call EXCEPT !.at = "missing"]
             ELSE [call EXCEPT !.at = "resolve", !.real = Leads(Folder)]
  /\ Quietly

ResolveFile ==
  /\ call.at = "resolve"
  /\ LET to == Final(call.real)
     IN call' = IF Entry(Dir(to)) \notin Files THEN [call EXCEPT !.at = "missing"]
                ELSE IF ~Within(to) THEN [call EXCEPT !.at = "refused"]
                ELSE [call EXCEPT !.at = "stat", !.real = to]
  /\ Quietly

\* Nothing is there, and no link: only a write goes on.
Missing ==
  /\ call.at = "missing"
  /\ IF Entry(Dir(Folder)) \in Places \/ call.op # "write" THEN Refuse ELSE Go("parent")
  /\ Quietly

--------------------------------------------------------------------------------
(* Opening a file.                                                            *)

\* metadata follows links: the path must lead to a regular file.
Stat ==
  /\ call.at = "stat"
  /\ IF Entry(Dir(Final(call.real))) \in Files THEN Go("open") ELSE Refuse
  /\ Quietly

\* open, name by name: links on the way are followed, a final one is not.
OpenFolder ==
  /\ call.at \in {"open", "create"}
  /\ call' = [call EXCEPT !.at = IF Dir(call.real) = "none" THEN "refused"
                                 ELSE IF call.at = "open" THEN "open file" ELSE "create file",
                          !.dir = Dir(call.real)]
  /\ Quietly

OpenFile ==
  /\ call.at = "open file"
  /\ call' = IF Entry(call.dir) \in Files THEN [call EXCEPT !.at = "opened", !.file = entry[call.dir]]
             ELSE [call EXCEPT !.at = "refused"]
  /\ Quietly

\* create_new takes nothing that is already there, a link neither.
CreateFile ==
  /\ call.at = "create file"
  /\ IF entry[call.dir] # "none"
     THEN Refuse /\ UNCHANGED <<diskVars, used>>
     ELSE \E f \in Files :
            /\ home[f] = "none"
            /\ home' = [home EXCEPT ![f] = call.dir]
            /\ entry' = [entry EXCEPT ![call.dir] = f]
            /\ been' = been \cup {<<f, p>> : p \in PlaceOf(call.dir)}
            /\ call' = [call EXCEPT !.at = "opened", !.file = f, !.made = TRUE]
            /\ used' = [used EXCEPT !.made = @ \cup {<<f, p>> : p \in PlaceOf(call.dir)}]
            /\ UNCHANGED <<holds, text>>
  /\ UNCHANGED moves

\* verify_location: where the handle's file lives, a removed one where it was, is in the
\* workspace.
InWorkspace(f) == \E p \in PlaceOf(home[f]) : Within(p)

\* The broker's own: the handle is the file at the very path it walked, and every folder
\* on it is a real one.
AtThePath(f) == holds[Folder] = home[f] /\ entry[home[f]] = f

LivesWell(f) == IF call.op \in Tools THEN InWorkspace(f) ELSE AtThePath(f)

\* Mutant: that the path led into the workspace is enough.
VerifyOpened_Trusts ==
  /\ call.at = "opened"
  /\ Go(IF call.op \in {"read", "entry"} THEN "take"
        ELSE IF call.op = "remove" THEN "folder"
        ELSE IF call.written THEN "read back"
        ELSE IF call.made THEN "write" ELSE "preimage")
  /\ Quietly

VerifyOpened ==
  /\ call.at = "opened"
  /\ Go(IF ~LivesWell(call.file) THEN "refused"
        ELSE IF call.op \in {"read", "entry"} THEN "take"
        ELSE IF call.op = "remove" THEN "folder"
        ELSE IF call.written THEN "read back"
        ELSE IF call.made THEN "write" ELSE "preimage")
  /\ Quietly

Use(how) == used' = [used EXCEPT ![how] = @ \cup {call.file}]

TakeText ==
  /\ call.at = "take"
  /\ Use("read")
  /\ Go("done")
  /\ UNCHANGED <<diskVars, moves>>

--------------------------------------------------------------------------------
(* prepare_write, commit_write; Tree::write.                                  *)

\* The preimage is read and the caller, or the broker, finds it is the one expected.
Preimage ==
  /\ call.at = "preimage"
  /\ Use("read")
  /\ Go("truncate") \/ Refuse
  /\ UNCHANGED <<diskVars, moves>>

Truncate ==
  /\ call.at = "truncate"
  /\ Use("changed")
  /\ text' = [text EXCEPT ![call.file] = "empty"]
  /\ Go("write")
  /\ UNCHANGED <<holds, entry, home, been, moves>>

\* The content, flushed; then the file is opened again by its path.
Write ==
  /\ call.at = "write"
  /\ Use("changed")
  /\ \/ /\ text' = [text EXCEPT ![call.file] = "ours"]
        /\ call' = [call EXCEPT !.at = IF call.op = "write" THEN "stat" ELSE "open", !.written = TRUE]
     \/ Go("failed") /\ UNCHANGED text
  /\ UNCHANGED <<holds, entry, home, been, moves>>

ReadBack ==
  /\ call.at = "read back"
  /\ Use("read")
  /\ Go(IF text[call.file] = "ours" THEN "done" ELSE "failed")
  /\ UNCHANGED <<diskVars, moves>>

\* existing_parent, before the write and again when it is made: the folder, or the
\* workspace's top if there is none.
Parent ==
  /\ call.at = "parent"
  /\ LET make == holds[Folder] = "none"
         sound == make \/ (Dir(Folder) # "none" /\ Within(Leads(Folder)))
     IN call' = IF ~sound THEN [call EXCEPT !.at = "refused"]
                ELSE IF ~call.checked THEN [call EXCEPT !.checked = TRUE]
                ELSE [call EXCEPT !.at = IF make THEN "make folder" ELSE "canonical",
                                  !.real = IF make THEN Folder ELSE Leads(Folder)]
  /\ Quietly

\* create_dir, through the links on the way; another's is taken if it is a real folder.
\* A link at Folder may as well be one on the way to it, so that the name is where it leads.
MakeFolder ==
  /\ call.at = "make folder"
  /\ LET next == IF call.op = "write" THEN "canonical" ELSE "lstat file"
     IN \E p \in {Folder} \cup ({holds[Folder]} \cap Places) :
          IF holds[p] = "none"
          THEN \E d \in Dirs :
                 /\ PlaceOf(d) = {} /\ entry[d] = "none" /\ \A f \in Files : home[f] # d
                 /\ holds' = [holds EXCEPT ![p] = d]
                 /\ used' = [used EXCEPT !.made = @ \cup {<<d, p>>}]
                 /\ Go(next)
          ELSE /\ IF holds[p] \in Dirs THEN Go(next) ELSE Refuse
               /\ UNCHANGED <<holds, used>>
  /\ UNCHANGED <<entry, home, text, been, moves>>

\* create_file resolves the folder again now that it exists.
Canonical ==
  /\ call.at = "canonical"
  /\ call' = IF Dir(call.real) = "none" \/ ~Within(Leads(call.real))
             THEN [call EXCEPT !.at = "refused"]
             ELSE [call EXCEPT !.at = "create", !.real = Leads(call.real)]
  /\ Quietly

--------------------------------------------------------------------------------
(* open_for_removal, remove_target.                                           *)

\* The folder is opened, not through a link, and asked where it lives.
OpenParent ==
  /\ call.at = "folder"
  /\ call' = IF holds[call.real] \in Dirs THEN [call EXCEPT !.at = "parent opened", !.dir = holds[call.real]]
             ELSE [call EXCEPT !.at = "refused"]
  /\ Quietly

\* Then the file is hashed, and the caller finds it is the one expected.
VerifyParent ==
  /\ call.at = "parent opened"
  /\ IF \A p \in PlaceOf(call.dir) : ~Within(p)
     THEN Refuse /\ UNCHANGED used
     ELSE Use("read") /\ (Go("confirm") \/ Refuse)
  /\ UNCHANGED <<diskVars, moves>>

\* Mutant: whatever has the name is removed.
Confirm_Nothing ==
  /\ call.at = "confirm"
  /\ Go("unlink")
  /\ used' = [used EXCEPT !.put = {}]
  /\ UNCHANGED <<diskVars, moves>>

\* openat and same_file: the name in that folder still leads to the file that was hashed.
Confirm ==
  /\ call.at = "confirm"
  /\ Go(IF entry[call.dir] = call.file THEN "unlink" ELSE "refused")
  /\ used' = [used EXCEPT !.put = {}]
  /\ UNCHANGED <<diskVars, moves>>

\* unlinkat: by name.
Unlink ==
  /\ call.at = "unlink"
  /\ used' = [used EXCEPT !.removed = {entry[call.dir]} \ {"none"}]
  /\ entry' = [entry EXCEPT ![call.dir] = "none"]
  /\ Go(IF entry[call.dir] = "none" THEN "failed" ELSE "done")
  /\ UNCHANGED <<holds, home, text, been, moves>>

--------------------------------------------------------------------------------
(* Tree::entry and Tree::write: the walk.                                     *)

\* lstat of the folder.
LstatFolder ==
  /\ call.at = "start" /\ call.op \in Broker
  /\ call' = [call EXCEPT !.real = Folder,
       !.at = IF holds[Folder] \in Dirs THEN "lstat file"
              ELSE IF holds[Folder] \in Places THEN "refused"
              ELSE IF call.op = "merge" THEN "make folder" ELSE "done"]
  /\ Quietly

\* lstat of the file.  A merge knows which it expects, a file or nothing.
LstatFile ==
  /\ call.at = "lstat file"
  /\ LET x == Entry(Dir(Folder))
     IN IF x \in Places THEN Refuse
        ELSE IF call.op = "entry" THEN Go(IF x = "none" THEN "done" ELSE "open")
        ELSE Go("open") \/ Go("create")
  /\ Quietly

--------------------------------------------------------------------------------
(* Other programs.                                                            *)

Move == moves < MaxMoves /\ moves' = moves + 1

\* What was at e comes to be at f in the folder d.
PutEntry(d, x) ==
  /\ entry' = [entry EXCEPT ![d] = x]
  /\ home' = IF x \in Files THEN [home EXCEPT ![x] = d] ELSE home
  /\ used' = [used EXCEPT !.moved = TRUE, !.put = @ \cup {x}]
  /\ been' = been \cup (IF x \in Files THEN {<<x, p>> : p \in PlaceOf(d)} ELSE {})

\* A folder or a link is renamed, or a link is made or removed.
MovePlace ==
  /\ Move
  /\ \E p \in Places :
       \/ \E q \in Places : holds[p] # "none" /\ holds[q] = "none"
                            /\ holds' = [holds EXCEPT ![q] = holds[p], ![p] = "none"]
       \/ \E q \in Places : holds[p] = "none" /\ holds[q] \in Dirs /\ holds' = [holds EXCEPT ![p] = q]
       \/ holds[p] \in Places /\ holds' = [holds EXCEPT ![p] = "none"]
  /\ \A p \in Places : holds'[p] \in Places => holds'[holds'[p]] \notin Places
  /\ been' = been \cup {b \in Files \X Places : home[b[1]] \in Dirs /\ holds'[b[2]] = home[b[1]]}
  /\ used' = [used EXCEPT !.moved = TRUE]
  /\ UNCHANGED <<entry, home, text, call>>

\* A file comes from another folder, a link is made, or what was there goes.
MoveEntry ==
  /\ Move
  /\ \E d \in Dirs :
       \/ \E x \in Places \cup {"none"} : x # entry[d] /\ PutEntry(d, x)
       \/ \E e \in Dirs \ {d} :
            /\ entry[e] \in Files
            /\ entry' = [entry EXCEPT ![d] = entry[e], ![e] = "none"]
            /\ home' = [home EXCEPT ![entry[e]] = d]
            /\ been' = been \cup {<<entry[e], p>> : p \in PlaceOf(d)}
            /\ used' = [used EXCEPT !.moved = TRUE, !.put = @ \cup {entry[e]}]
  /\ UNCHANGED <<holds, text, call>>

\* A file is rewritten in place.
Rewrite ==
  /\ Move
  /\ \E f \in Files : home[f] # "none" /\ text' = [text EXCEPT ![f] = "theirs"]
  /\ UNCHANGED <<holds, entry, home, been, call, used>>

--------------------------------------------------------------------------------

Call(op, app) ==
  [op |-> op, at |-> IF app THEN "asked" ELSE "start", app |-> app, real |-> Folder, dir |-> "none",
   file |-> "none", made |-> FALSE, written |-> FALSE, checked |-> FALSE]

\* The places kept and outside, and the path's if it is there, hold folders with a file in
\* them; the others are empty.
WalkStart(folder, asked) ==
  /\ LET there == Kept \cup Outside \cup folder IN
       /\ holds = [p \in Places |-> IF p \in there THEN DirOf[p] ELSE "none"]
       /\ entry = [d \in Dirs |-> IF \E p \in there : d = DirOf[p]
                                   THEN FileOf[CHOOSE p \in there : d = DirOf[p]] ELSE "none"]
  /\ home = [f \in Files |-> IF Present(f) = {} THEN "none" ELSE holds[CHOOSE p \in Present(f) : TRUE]]
  /\ text = [f \in Files |-> IF Present(f) = {} THEN "empty" ELSE "theirs"]
  /\ been = {b \in Files \X Places : b[2] \in Present(b[1])}
  /\ call = asked
  /\ moves = 0
  /\ used = [read |-> {}, changed |-> {}, removed |-> {}, made |-> {}, moved |-> FALSE, put |-> {}]

Calls == {Call(op, FALSE) : op \in Tools \cup Broker} \cup {Call(op, TRUE) : op \in Tools}

WalkInit == \E folder \in {{}, {Folder}}, asked \in Calls : WalkStart(folder, asked)

CallStep ==
  \/ Locate \/ ResolveFolder \/ ResolveFile \/ Missing
  \/ Stat \/ OpenFolder \/ OpenFile \/ CreateFile \/ VerifyOpened \/ TakeText
  \/ Preimage \/ Truncate \/ Write \/ ReadBack
  \/ Parent \/ MakeFolder \/ Canonical
  \/ OpenParent \/ VerifyParent \/ Confirm \/ Unlink
  \/ LstatFolder \/ LstatFile

Over == {"done", "refused", "failed"}

Others == call.at \notin Over /\ (MovePlace \/ MoveEntry \/ Rewrite)

WalkNext == CallStep \/ Others

--------------------------------------------------------------------------------
(* Properties.                                                                *)

\* Where the call may go: the broker, which names its folder, to that one.
May == IF call.op \in Broker THEN {Folder} ELSE IF call.app THEN Inside \ Kept ELSE Inside

\* "A rename between the check and the open cannot move the file outside"
\* (workspace_fs.rs), as far as it goes: whatever is moved under a call, it reads or
\* writes no file that was never in the workspace (a removed file is where the folder is
\* that it was in); the broker none that was never at the path it names, reached through
\* no link.  What is not said is where a file or a folder is made: through a path that
\* was changed it is made outside, and when that is refused it stays there, unwritten.
\* While nothing is moved, all is made, and the app's is, where the call may go.
CallsStayInside ==
  /\ \A f \in used.read \cup used.changed :
       /\ \E p \in IF call.op \in Broker THEN {Folder} ELSE Inside : <<f, p>> \in been
       /\ call.app /\ ~used.moved => Present(f) \cap Kept = {}
  /\ ~used.moved => \A m \in used.made : m[2] \in May

\* "Removes the very file that was hashed: one put in its place meanwhile is left alone"
\* (workspace_files.rs): what is removed is the file that was read, or came into its
\* place in the instant after that was confirmed.
RemovesWhatItRead == used.removed \subseteq used.read \cup used.put
================================================================================

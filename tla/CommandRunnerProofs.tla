-------------------------- MODULE CommandRunnerProofs --------------------------
(***************************************************************************)
(* Proofs about CommandRunner: whatever writes fail and whenever the process *)
(* dies, no command that was started is missing from the journal, and the    *)
(* journal never reads better than what happened.                            *)
(***************************************************************************)
EXTENDS CommandRunner, TLAPS

LEMMA EntryShape ==
  ASSUME TypeOK, NEW a \in Actions
  PROVE  mem[a] \in [state : States \cup {"none"}, boxed : BOOLEAN]
<1>1. mem[a] \in Record \/ mem[a] = NoRecord
  BY DEF TypeOK, Entry
<1>2. Record \subseteq [state : States \cup {"none"}, boxed : BOOLEAN]
  BY DEF Record
<1>3. NoRecord \in [state : States \cup {"none"}, boxed : BOOLEAN]
  BY DEF NoRecord
<1>4. QED
  BY <1>1, <1>2, <1>3

\* A record with its state replaced, or the isolation named, is a record.
LEMMA RecordBuilt ==
  ASSUME TypeOK, NEW a \in Actions, NEW state \in States
  PROVE  /\ Now(a, state) \in Record
         /\ Now(a, state).state = state /\ Now(a, state).boxed = mem[a].boxed
         /\ mem[a].boxed \in BOOLEAN
BY EntryShape DEF Record, Now

LEMMA SameRecord ==
  ASSUME NEW r \in Record
  PROVE  r = [state |-> r.state, boxed |-> r.boxed]
BY DEF Record

LEMMA BareTyped ==
  ASSUME NEW a \in Actions, NEW r \in Entry
  PROVE  /\ Bare(a, r) \in Tail
         /\ Bare(a, r).kind = "bare" /\ Bare(a, r).act = a /\ Bare(a, r).before = r
BY DEF Bare, Tail

LEMMA TailKinds ==
  /\ Clean \in Tail /\ Fragment \in Tail
  /\ Clean.kind = "clean" /\ Fragment.kind = "fragment"
  /\ \A x \in Tail : x.kind = "bare" => x.act \in Actions /\ x.before \in Entry
BY DEF Tail, Clean, Fragment

LEMMA UnreadTyped ==
  ASSUME TypeOK
  PROVE  Unread \in [Actions -> Entry]
BY TailKinds DEF TypeOK, Unread

LEMMA WrittenTyped ==
  ASSUME TypeOK, NEW a \in Actions, NEW r \in Record, Written(a, r)
  PROVE  kept' \in [Actions -> Entry] /\ tail' \in Tail
BY TailKinds, UnreadTyped DEF TypeOK, Written, Entry

LEMMA CutShortTyped ==
  ASSUME TypeOK, NEW a \in Actions, NEW r \in Record, CutShort(a, r)
  PROVE  kept' \in [Actions -> Entry] /\ tail' \in Tail
<1>1. CASE UNCHANGED <<kept, tail>>
  BY <1>1 DEF TypeOK
<1>2. CASE kept' = Unread /\ tail' = Fragment
  BY <1>2, UnreadTyped, TailKinds
<1>3. CASE kept' = [kept EXCEPT ![a] = r] /\ tail' = Bare(a, kept[a])
  <2>1. kept[a] \in Entry
    BY DEF TypeOK
  <2>2. Bare(a, kept[a]) \in Tail
    BY <2>1, BareTyped
  <2>3. QED
    BY <1>3, <2>2 DEF TypeOK, Entry
<1>4. CASE Written(a, r)
  BY <1>4, WrittenTyped
<1>5. QED
  BY <1>1, <1>2, <1>3, <1>4 DEF CutShort

\* What an append leaves behind, typed.
LEMMA AppendTyped ==
  ASSUME TypeOK, NEW a \in Actions, NEW r \in Record, NEW next \in At, Append(a, r, next)
  PROVE  /\ kept' \in [Actions -> Entry] /\ tail' \in Tail
         /\ mem' \in [Actions -> Entry] /\ faults' \in 0 .. MaxFaults
         /\ at' \in [Actions -> At]
         /\ \A b \in Actions : b # a => at'[b] = at[b]
         /\ at'[a] \in {next, "err"}
         /\ whole' = whole
<1>0. whole' = whole
  BY DEF Append, Written, CutShort
<1>1. CASE /\ Written(a, r)
           /\ mem' = [mem EXCEPT ![a] = r]
           /\ at' = [at EXCEPT ![a] = next]
           /\ UNCHANGED faults
  BY <1>0, <1>1, WrittenTyped DEF TypeOK, Entry
<1>2. CASE /\ faults < MaxFaults
           /\ CutShort(a, r)
           /\ at' = [at EXCEPT ![a] = "err"]
           /\ faults' = faults + 1
           /\ UNCHANGED mem
  <2>1. faults' \in 0 .. MaxFaults
    BY <1>2, RunnerAssumption DEF TypeOK
  <2>2. at' \in [Actions -> At]
    BY <1>2 DEF TypeOK, At
  <2>3. QED
    BY <1>0, <1>2, <2>1, <2>2, CutShortTyped DEF TypeOK
<1>3. QED
  BY <1>1, <1>2 DEF Append

--------------------------------------------------------------------------------
(* The file tells the truth.                                                  *)

\* Joining a line takes an honest file to an honest file.
LEMMA UnreadTells ==
  ASSUME TypeOK, FileTells, NEW b \in Actions
  PROVE  Tells(b, Unread[b])
BY TailKinds DEF TypeOK, FileTells, Unread

LEMMA WrittenTells ==
  ASSUME TypeOK, FileTells, NEW a \in Actions, NEW r \in Record, Tells(a, r), Written(a, r),
         NEW b \in Actions
  PROVE  Tells(b, kept'[b]) /\ tail' = Clean
BY UnreadTells DEF TypeOK, FileTells, Written

LEMMA CutShortTells ==
  ASSUME TypeOK, FileTells, NEW a \in Actions, NEW r \in Record, Tells(a, r), CutShort(a, r)
  PROVE  /\ \A b \in Actions : Tells(b, kept'[b])
         /\ tail'.kind = "bare" =>
              /\ Tells(tail'.act, tail'.before)
              /\ tail'.act = a \/ at[tail'.act] \in {"err", "ok", "gone"}
<1>1. CASE UNCHANGED <<kept, tail>>
  BY <1>1 DEF FileTells
<1>2. CASE kept' = Unread /\ tail' = Fragment
  BY <1>2, UnreadTells, TailKinds
<1>3. CASE kept' = [kept EXCEPT ![a] = r] /\ tail' = Bare(a, kept[a])
  <2>1. kept[a] \in Entry
    BY DEF TypeOK
  <2>2. tail'.act = a /\ tail'.before = kept[a]
    BY <1>3, <2>1, BareTyped
  <2>3. QED
    BY <1>3, <2>2 DEF TypeOK, FileTells
<1>4. CASE Written(a, r)
  BY <1>4, WrittenTells, TailKinds
<1>5. QED
  BY <1>1, <1>2, <1>3, <1>4 DEF CutShort

\* An append of an honest record keeps the file and the memory honest.
LEMMA AppendTells ==
  ASSUME TypeOK, FileTells, NEW a \in Actions, NEW r \in Record, NEW next \in At,
         Tells(a, r), Append(a, r, next), UNCHANGED <<child, journal>>
  PROVE  FileTells'
<1>1. \A b, x : Tells(b, x)' <=> Tells(b, x')
  BY DEF Tells
<1>2. CASE /\ Written(a, r)
           /\ mem' = [mem EXCEPT ![a] = r]
           /\ at' = [at EXCEPT ![a] = next]
  <2>1. \A b \in Actions : Tells(b, kept'[b])
    BY <1>2, WrittenTells
  <2>2. tail'.kind # "bare"
    BY <1>2, WrittenTells, TailKinds
  <2>3. journal # "closed" => \A b \in Actions : Tells(b, mem'[b])
    BY <1>2 DEF TypeOK, FileTells
  <2>4. QED
    BY <2>1, <2>2, <2>3 DEF FileTells, Tells
<1>3. CASE /\ CutShort(a, r)
           /\ at' = [at EXCEPT ![a] = "err"]
           /\ UNCHANGED mem
  <2>1. /\ \A b \in Actions : Tells(b, kept'[b])
        /\ tail'.kind = "bare" =>
              /\ Tells(tail'.act, tail'.before)
              /\ tail'.act = a \/ at[tail'.act] \in {"err", "ok", "gone"}
    BY <1>3, CutShortTells
  <2>2. tail' \in Tail
    BY <1>3, CutShortTyped
  <2>3. tail'.kind = "bare" => at'[tail'.act] \in {"err", "ok", "gone"}
    BY <1>3, <2>1, <2>2, TailKinds DEF TypeOK
  <2>4. QED
    BY <1>3, <2>1, <2>3 DEF FileTells, Tells
<1>4. QED
  BY <1>2, <1>3 DEF Append

\* An action whose latest record is untouched keeps it: an append by another
\* action cannot make a line unreadable that ends with a newline.
LEMMA OthersKept ==
  ASSUME TypeOK, FileTells, NEW a \in Actions, NEW r \in Record, NEW b \in Actions, b # a,
         at[b] \notin {"err", "ok", "gone"},
         Written(a, r) \/ CutShort(a, r)
  PROVE  kept'[b] = kept[b]
<1>1. Unread[b] = kept[b]
  BY TailKinds DEF TypeOK, FileTells, Unread
<1>2. QED
  BY <1>1 DEF TypeOK, Written, CutShort

--------------------------------------------------------------------------------
(* Where every other action stands.                                           *)

LEMMA OtherStands ==
  ASSUME IInv, NEW a \in Actions, NEW r \in Record, NEW next \in At, Append(a, r, next),
         NEW b \in Actions, b # a, child'[b] = child[b], journal' = journal
  PROVE  Standing(b)'
<1>1. TypeOK /\ FileTells /\ Standing(b)
  BY DEF IInv
<1>2. at[b] # "boxing" /\ at'[b] = at[b] /\ mem'[b] = mem[b]
  BY <1>1, AppendTyped DEF Append, TypeOK
<1>3. at[b] \notin {"err", "ok", "gone"} => kept'[b] = kept[b]
  BY <1>1, OthersKept DEF Append
<1>4. QED
  BY <1>1, <1>2, <1>3 DEF Standing

\* An append keeps the invariant if it keeps the place of its own action.
LEMMA AppendKeeps ==
  ASSUME IInv, NEW a \in Actions, NEW r \in Record, NEW next \in At, Append(a, r, next),
         Tells(a, r), journal' = journal, child' = child,
         approved' \in [Actions -> BOOLEAN],
         isolation' \in [Actions -> {"namespaced", "confined", "none"}],
         left' \in [Actions -> BOOLEAN],
         Standing(a)'
  PROVE  IInv'
<1>1. TypeOK /\ FileTells
  BY DEF IInv
<1>2. FileTells'
  BY <1>1, AppendTells
<1>3. \A b \in Actions : Standing(b)'
  BY OtherStands
<1>4. TypeOK'
  <2>1. \A b \in Actions : child'[b] # "none" =>
          at'[b] \notin {"idle", "prepared", "boxing", "boxed"}
    BY <1>3 DEF Standing
  <2>2. QED
    BY <1>1, <2>1, AppendTyped DEF TypeOK
<1>5. QED
  BY <1>2, <1>3, <1>4 DEF IInv

\* A step that writes nothing and moves only action a.
LEMMA QuietStep ==
  ASSUME IInv, NEW a \in Actions, UNCHANGED <<journal, mem, fileVars, faults>>,
         at' \in [Actions -> At],
         child' \in [Actions -> {"none", "running", "exited", "killed"}],
         UNCHANGED <<approved, isolation>>, left' \in [Actions -> BOOLEAN],
         \A b \in Actions : b # a => at'[b] = at[b] /\ child'[b] = child[b],
         Tells(a, kept[a])', Tells(a, mem[a])',
         tail.kind = "bare" => tail.act # a,
         Standing(a)'
  PROVE  IInv'
<1>1. TypeOK /\ FileTells /\ \A b \in Actions : Standing(b)
  BY DEF IInv
<1>2. \A b \in Actions : Standing(b)'
  BY <1>1 DEF Standing, fileVars
<1>3. TypeOK'
  BY <1>1, <1>2 DEF TypeOK, fileVars, Standing
<1>4. FileTells'
  <2>1. \A b \in Actions : Tells(b, kept[b])'
    BY <1>1 DEF FileTells, Tells, fileVars
  <2>2. journal' # "closed" => \A b \in Actions : Tells(b, mem[b])'
    BY <1>1 DEF FileTells, Tells
  <2>3. tail'.kind = "bare" => Tells(tail.act, tail.before)' /\ at'[tail'.act] \in {"err", "ok", "gone"}
    <3>1. tail' = tail
      BY DEF fileVars
    <3>2. tail.kind = "bare" => tail.act \in Actions /\ tail.act # a
      BY <1>1, TailKinds DEF TypeOK
    <3>3. QED
      BY <1>1, <3>1, <3>2 DEF FileTells, Tells
  <2>4. QED
    BY <2>1, <2>2, <2>3 DEF FileTells
<1>5. QED
  BY <1>2, <1>3, <1>4 DEF IInv

--------------------------------------------------------------------------------
(* run_command.                                                               *)

LEMMA AppendedMemory ==
  ASSUME TypeOK, NEW a \in Actions, NEW r \in Record, NEW next \in At, Append(a, r, next)
  PROVE  at'[a] = "err" \/ (at'[a] = next /\ mem'[a] = r /\ Written(a, r))
BY DEF Append, TypeOK

LEMMA PrepareKeeps == ASSUME IInv, NEW a \in Actions, Prepare(a) PROVE IInv'
<1> DEFINE r == [state |-> "Prepared", boxed |-> FALSE]
<1>1. r \in Record /\ "prepared" \in At /\ TypeOK /\ Standing(a)
  BY DEF Record, States, At, IInv
<1>2. Append(a, r, "prepared") /\ UNCHANGED <<journal, isolation, child, left>>
      /\ approved' \in [Actions -> BOOLEAN] /\ journal \in {"open", "settled"}
  BY <1>1 DEF Prepare, TypeOK, Ready
<1>3. child[a] = "none"
  BY <1>1 DEF Prepare, Standing
<1>4. Tells(a, r)
  BY <1>3 DEF Tells
<1>5. at'[a] \in {"err", "prepared"}
  BY <1>1, <1>2, AppendTyped
<1>6. Standing(a)'
  BY <1>2, <1>3, <1>5 DEF Standing
<1> HIDE DEF r
<1>7. QED
  BY <1>1, <1>2, <1>4, <1>6, AppendKeeps DEF TypeOK

LEMMA RefuseKeeps == ASSUME IInv, NEW a \in Actions, Refuse(a) \/ SpawnFails(a) PROVE IInv'
<1> DEFINE r == Now(a, "Refused")
<1>1. r \in Record /\ r.state = "Refused" /\ "err" \in At /\ TypeOK /\ Standing(a)
  BY RecordBuilt DEF States, At, IInv
<1>2. Append(a, r, "err") /\ UNCHANGED <<journal, approved, isolation, child, left>>
      /\ at[a] \in {"prepared", "boxed"}
  BY DEF Refuse, SpawnFails
<1>3. child[a] = "none" /\ journal \notin {"closed", "reconciling"}
  BY <1>1, <1>2 DEF Standing
<1>4. Tells(a, r)
  BY <1>1, <1>3 DEF Tells
<1>5. at'[a] = "err"
  BY <1>1, <1>2, AppendTyped
<1>6. Standing(a)'
  BY <1>2, <1>3, <1>5 DEF Standing
<1> HIDE DEF r
<1>7. QED
  BY <1>1, <1>2, <1>4, <1>6, AppendKeeps DEF TypeOK

LEMMA StartKeeps == ASSUME IInv, NEW a \in Actions, Start(a) PROVE IInv'
<1> DEFINE r == Now(a, "Started")
<1>1. r \in Record /\ r.state = "Started" /\ "boxing" \in At /\ TypeOK /\ FileTells /\ Standing(a)
  BY RecordBuilt DEF States, At, IInv
<1>2. /\ Append(a, r, "boxing") /\ UNCHANGED <<journal, approved, child, left>>
      /\ at[a] = "prepared"
      /\ isolation' \in [Actions -> {"namespaced", "confined", "none"}]
  BY <1>1 DEF Start, TypeOK
<1>3. child[a] = "none" /\ journal \notin {"closed", "reconciling"}
  BY <1>1, <1>2 DEF Standing
<1>4. Tells(a, r)
  BY <1>1, <1>3 DEF Tells
<1>5. at'[a] = "err" \/ (at'[a] = "boxing" /\ mem'[a] = r /\ tail' = Clean)
  BY <1>1, <1>2, AppendedMemory DEF Written
<1>6. Standing(a)'
  BY <1>1, <1>2, <1>3, <1>5 DEF Standing
<1> HIDE DEF r
<1>7. QED
  BY <1>1, <1>2, <1>4, <1>6, AppendKeeps DEF TypeOK

LEMMA RecordSandboxKeeps == ASSUME IInv, NEW a \in Actions, RecordSandbox(a) PROVE IInv'
<1> DEFINE r == [mem[a] EXCEPT !.boxed = TRUE]
<1>1. TypeOK /\ FileTells /\ Standing(a) /\ "boxed" \in At
  BY DEF At, IInv
<1>2. /\ Append(a, r, "boxed") /\ UNCHANGED <<journal, approved, isolation, child, left>>
      /\ at[a] = "boxing"
  BY DEF RecordSandbox
<1>3. /\ child[a] = "none" /\ journal \notin {"closed", "reconciling"}
      /\ mem[a].state = "Started" /\ tail = Clean
  BY <1>1, <1>2 DEF Standing
<1>4. r = [state |-> "Started", boxed |-> TRUE] /\ r \in Record
  <2>1. mem[a] \in [state : States \cup {"none"}, boxed : BOOLEAN]
    BY <1>1, EntryShape
  <2>2. r.state = "Started" /\ r.boxed = TRUE
    BY <1>3, <2>1
  <2>3. r \in [state : States, boxed : BOOLEAN]
    BY <1>3, <2>1 DEF States
  <2>4. QED
    BY <2>2, <2>3, SameRecord DEF Record
<1>5. Tells(a, r)
  BY <1>3, <1>4 DEF Tells
<1>6. at'[a] = "err" \/ (at'[a] = "boxed" /\ mem'[a] = r /\ kept'[a] = r)
  BY <1>1, <1>2, <1>3, <1>4, AppendedMemory DEF Written, TypeOK
<1>7. Standing(a)'
  BY <1>2, <1>3, <1>4, <1>6 DEF Standing
<1> HIDE DEF r
<1>8. QED
  BY <1>1, <1>2, <1>4, <1>5, <1>7, AppendKeeps DEF TypeOK

\* The three records of a command that ran: its latest names the isolation.
LEMMA OutcomeKeeps ==
  ASSUME IInv, NEW a \in Actions,
         RecordInterrupted(a) \/ Finish(a) \/ Acknowledge(a)
  PROVE  IInv'
<1>1. TypeOK /\ FileTells /\ Standing(a)
  BY DEF IInv
<1>2. /\ journal \notin {"closed", "reconciling"} /\ mem[a].boxed
      /\ at[a] \in {"exited", "finished"} => child[a] = "exited"
      /\ UNCHANGED <<journal, approved, isolation, child, left>>
  BY <1>1 DEF RecordInterrupted, Finish, Acknowledge, Standing
<1>3. CASE RecordInterrupted(a)
  <2> DEFINE r == Now(a, "NeedsReconciliation")
  <2>1. r \in Record /\ r.state = "NeedsReconciliation" /\ r.boxed /\ "err" \in At
    BY <1>1, <1>2, RecordBuilt DEF States, At
  <2>2. Append(a, r, "err")
    BY <1>3 DEF RecordInterrupted
  <2>3. Tells(a, r)
    BY <2>1 DEF Tells
  <2>4. at'[a] = "err"
    BY <1>1, <2>1, <2>2, AppendTyped
  <2>5. Standing(a)'
    BY <1>2, <2>4 DEF Standing
  <2> HIDE DEF r
  <2>6. QED
    BY <1>1, <1>2, <2>1, <2>2, <2>3, <2>5, AppendKeeps DEF TypeOK
<1>4. CASE Finish(a)
  <2> DEFINE r == Now(a, "Finished")
  <2>1. r \in Record /\ r.state = "Finished" /\ r.boxed /\ "finished" \in At
    BY <1>1, <1>2, RecordBuilt DEF States, At
  <2>2. Append(a, r, "finished") /\ child[a] = "exited" /\ at[a] = "exited"
    BY <1>2, <1>4 DEF Finish
  <2>3. r = [state |-> "Finished", boxed |-> TRUE]
    <3>1. mem[a] = [state |-> "Started", boxed |-> TRUE]
      BY <1>1, <2>2 DEF Standing
    <3>2. mem[a].boxed = TRUE
      BY <3>1
    <3>3. r.boxed = TRUE
      BY <1>1, <3>2, RecordBuilt DEF States
    <3>4. QED
      BY <2>1, <3>3, SameRecord
  <2>4. Tells(a, r)
    BY <2>1, <2>2 DEF Tells
  <2>5. at'[a] = "err" \/ (at'[a] = "finished" /\ mem'[a] = r)
    BY <1>1, <2>1, <2>2, AppendedMemory
  <2>6. Standing(a)'
    BY <1>2, <2>2, <2>3, <2>5 DEF Standing
  <2> HIDE DEF r
  <2>7. QED
    BY <1>1, <1>2, <2>1, <2>2, <2>4, <2>6, AppendKeeps DEF TypeOK
<1>5. CASE Acknowledge(a)
  <2> DEFINE r == Now(a, "Acknowledged")
  <2>1. r \in Record /\ r.state = "Acknowledged" /\ r.boxed /\ "ok" \in At
    BY <1>1, <1>2, RecordBuilt DEF States, At
  <2>2. Append(a, r, "ok") /\ child[a] = "exited"
    BY <1>2, <1>5 DEF Acknowledge
  <2>3. Tells(a, r)
    BY <2>1, <2>2 DEF Tells
  <2>4. at'[a] \in {"ok", "err"}
    BY <1>1, <2>1, <2>2, AppendTyped
  <2>5. Standing(a)'
    BY <1>2, <2>2, <2>4 DEF Standing
  <2> HIDE DEF r
  <2>6. QED
    BY <1>1, <1>2, <2>1, <2>2, <2>3, <2>5, AppendKeeps DEF TypeOK
<1>6. QED
  BY <1>3, <1>4, <1>5

\* The steps of an action whose latest record is the one of record_sandbox.
LEMMA RunningKeeps ==
  ASSUME IInv, NEW a \in Actions,
         Spawn(a) \/ ChildExits(a) \/ Drain(a) \/ TimeOut(a) \/ Dropped(a)
  PROVE  IInv'
<1>1. TypeOK /\ FileTells /\ Standing(a)
  BY DEF IInv
<1>2. at[a] \in {"boxed", "running", "draining"}
  BY DEF Spawn, ChildExits, Drain, TimeOut, Dropped
<1>3. /\ mem[a] = [state |-> "Started", boxed |-> TRUE] /\ kept[a] = mem[a]
      /\ journal \notin {"closed", "reconciling"}
      /\ tail.kind = "bare" => tail.act # a
  BY <1>1, <1>2 DEF Standing, FileTells
<1>4. /\ UNCHANGED <<journal, mem, fileVars, faults, approved, isolation>>
      /\ left' \in [Actions -> BOOLEAN]
  BY <1>1 DEF Spawn, ChildExits, Drain, TimeOut, Dropped, TypeOK
<1>5. /\ at' \in [Actions -> At]
      /\ child' \in [Actions -> {"none", "running", "exited", "killed"}]
      /\ \A b \in Actions : b # a => at'[b] = at[b] /\ child'[b] = child[b]
  BY <1>1 DEF Spawn, ChildExits, Drain, TimeOut, Dropped, TypeOK, At
<1>6. \/ at'[a] = "running" /\ child'[a] = "running"
      \/ at'[a] \in {"draining", "exited"} /\ child'[a] = "exited"
      \/ at'[a] = "interrupting" /\ child'[a] = "killed"
      \/ at'[a] = "dropped" /\ child'[a] \in {"killed", "exited"}
  BY <1>1 DEF Spawn, ChildExits, Drain, TimeOut, Dropped, TypeOK, Standing
<1>7. mem'[a] = mem[a] /\ kept'[a] = mem[a] /\ journal' = journal
  BY <1>3, <1>4 DEF fileVars
<1>8. Tells(a, kept[a])' /\ Tells(a, mem[a])'
  BY <1>3, <1>6, <1>7 DEF Tells
<1>9. Standing(a)'
  BY <1>3, <1>6, <1>7 DEF Standing
<1>10. QED
  BY <1>2, <1>3, <1>4, <1>5, <1>8, <1>9, QuietStep

--------------------------------------------------------------------------------
(* The life of the journal.                                                   *)

LEMMA OpenKeeps == ASSUME IInv, Open PROVE IInv'
<1>1. TypeOK /\ FileTells /\ \A a \in Actions : Standing(a)
  BY DEF IInv
<1>2. /\ journal = "closed" /\ mem' = kept /\ journal' \in {"reconciling", "open"}
      /\ kept' = kept /\ tail' = tail /\ whole' \in BOOLEAN
      /\ UNCHANGED <<at, approved, isolation, child, left, faults>>
  BY DEF Open
<1>3. TypeOK'
  BY <1>1, <1>2 DEF TypeOK
<1>4. FileTells'
  BY <1>1, <1>2 DEF FileTells, Tells
<1>5. ASSUME NEW a \in Actions PROVE Standing(a)'
  <2>1. at'[a] \in {"idle", "ok", "gone"}
    BY <1>1, <1>2 DEF Standing
  <2>2. QED
    BY <1>1, <1>2, <2>1 DEF Standing
<1>6. QED
  BY <1>3, <1>4, <1>5 DEF IInv

LEMMA ReconcileOneKeeps == ASSUME IInv, NEW a \in Actions, ReconcileOne(a) PROVE IInv'
<1> DEFINE r == Now(a, "NeedsReconciliation")
<1>1. TypeOK /\ FileTells /\ \A b \in Actions : Standing(b)
  BY DEF IInv
<1>2. /\ journal = "reconciling" /\ mem[a].state \in {"Prepared", "Started"}
      /\ UNCHANGED <<at, approved, isolation, child, left, whole>>
  BY DEF ReconcileOne, Unfinished, Written, CutShort
<1>3. r \in Record /\ r.state = "NeedsReconciliation" /\ r.boxed = mem[a].boxed
  BY <1>1, RecordBuilt DEF States
<1>4. Tells(a, mem[a])
  BY <1>1, <1>2 DEF FileTells
<1>5. Tells(a, r)
  BY <1>3, <1>4 DEF Tells
<1>6. \A b \in Actions : at[b] \in {"idle", "ok", "gone"}
  BY <1>1, <1>2 DEF Standing
<1>7. at[a] \in {"ok", "gone"}
  <2>1. mem[a] # NoRecord
    BY <1>2 DEF NoRecord
  <2>2. QED
    BY <1>1, <1>6, <2>1 DEF Standing
<1>8. ASSUME NEW b \in Actions, at[b] = "idle", Written(a, r) \/ CutShort(a, r)
      PROVE  b # a /\ kept'[b] = kept[b]
  BY <1>1, <1>3, <1>7, <1>8, OthersKept
<1> HIDE DEF r
<1>9. CASE /\ Written(a, r) /\ mem' = [mem EXCEPT ![a] = r] /\ UNCHANGED <<journal, faults>>
  <2>1. kept' \in [Actions -> Entry] /\ tail' \in Tail /\ tail' = Clean
    BY <1>1, <1>3, <1>9, WrittenTyped DEF Written
  <2>2. \A b \in Actions : Tells(b, kept'[b])
    BY <1>1, <1>3, <1>5, <1>9, WrittenTells
  <2>3. \A b \in Actions : Tells(b, mem'[b])
    BY <1>1, <1>2, <1>5, <1>9 DEF TypeOK, FileTells
  <2>4. FileTells'
    BY <1>2, <1>9, <2>1, <2>2, <2>3, TailKinds DEF FileTells, Tells
  <2>5. TypeOK'
    BY <1>1, <1>2, <1>3, <1>9, <2>1 DEF TypeOK, Entry
  <2>6. \A b \in Actions : Standing(b)'
    BY <1>1, <1>2, <1>6, <1>8, <1>9 DEF Standing, TypeOK
  <2>7. QED
    BY <2>4, <2>5, <2>6 DEF IInv
<1>10. CASE /\ faults < MaxFaults /\ CutShort(a, r) /\ journal' = "open"
           /\ faults' = faults + 1 /\ UNCHANGED mem
  <2>1. kept' \in [Actions -> Entry] /\ tail' \in Tail
    BY <1>1, <1>3, <1>10, CutShortTyped
  <2>2. faults' \in 0 .. MaxFaults
    BY <1>1, <1>10, RunnerAssumption DEF TypeOK
  <2>3. TypeOK'
    BY <1>1, <1>2, <1>10, <2>1, <2>2 DEF TypeOK
  <2>4. /\ \A b \in Actions : Tells(b, kept'[b])
        /\ tail'.kind = "bare" =>
             /\ Tells(tail'.act, tail'.before)
             /\ tail'.act = a \/ at[tail'.act] \in {"err", "ok", "gone"}
    BY <1>1, <1>3, <1>5, <1>10, CutShortTells
  <2>5. FileTells'
    BY <1>1, <1>2, <1>7, <1>10, <2>4 DEF FileTells, Tells
  <2>6. \A b \in Actions : Standing(b)'
    BY <1>1, <1>2, <1>6, <1>8, <1>10 DEF Standing
  <2>7. QED
    BY <2>3, <2>5, <2>6 DEF IInv
<1>11. QED
  BY <1>9, <1>10 DEF ReconcileOne, r

LEMMA CrashKeeps == ASSUME IInv, Crash PROVE IInv'
<1>1. TypeOK /\ FileTells /\ \A a \in Actions : Standing(a)
  BY DEF IInv
<1>2. /\ journal' = "closed" /\ kept' = kept /\ tail' = tail /\ whole' = whole
      /\ UNCHANGED <<approved, isolation, left>>
      /\ faults < MaxFaults /\ faults' = faults + 1
      /\ mem' = [a \in Actions |-> NoRecord]
  BY DEF Crash, fileVars
<1>3. \A a \in Actions :
        /\ at'[a] \in {"idle", "ok", "gone"}
        /\ at'[a] \in {"idle", "ok"} => at'[a] = at[a]
        /\ at[a] \in {"err", "ok", "gone"} => at'[a] \in {"ok", "gone"}
        /\ child'[a] # "none" <=> child[a] # "none"
        /\ child[a] = "exited" => child'[a] = "exited"
  BY DEF Crash
<1>4. TypeOK'
  <2>1. at' \in [Actions -> At] /\ child' \in [Actions -> {"none", "running", "exited", "killed"}]
    BY <1>1 DEF Crash, TypeOK, At
  <2>2. faults' \in 0 .. MaxFaults
    BY <1>1, <1>2, RunnerAssumption DEF TypeOK
  <2>3. mem' \in [Actions -> Entry]
    BY <1>2 DEF Entry
  <2>4. \A a \in Actions : child'[a] # "none" =>
          at'[a] \notin {"idle", "prepared", "boxing", "boxed"}
    BY <1>1, <1>3 DEF TypeOK
  <2>5. QED
    BY <1>1, <1>2, <2>1, <2>2, <2>3, <2>4 DEF TypeOK
<1>5. FileTells'
  <2>1. tail.kind = "bare" => tail.act \in Actions
    BY <1>1, TailKinds DEF TypeOK
  <2>2. \A a \in Actions : Tells(a, kept[a])'
    BY <1>1, <1>2, <1>3 DEF FileTells, Tells
  <2>3. tail'.kind = "bare" => Tells(tail.act, tail.before)' /\ at'[tail'.act] \in {"err", "ok", "gone"}
    BY <1>1, <1>2, <1>3, <2>1 DEF FileTells, Tells
  <2>4. QED
    BY <1>2, <2>2, <2>3 DEF FileTells, Tells
<1>6. ASSUME NEW a \in Actions PROVE Standing(a)'
  BY <1>1, <1>2, <1>3 DEF Standing
<1>7. QED
  BY <1>4, <1>5, <1>6 DEF IInv

--------------------------------------------------------------------------------

LEMMA InitHolds == Init => IInv
<1> SUFFICES ASSUME Init PROVE IInv
  OBVIOUS
<1>1. TypeOK
  BY TailKinds, RunnerAssumption DEF Init, TypeOK, Entry, At
<1>2. FileTells
  BY TailKinds DEF Init, FileTells, Tells, NoRecord
<1>3. \A a \in Actions : Standing(a)
  BY DEF Init, Standing
<1>4. QED
  BY <1>1, <1>2, <1>3 DEF IInv

LEMMA NextKeeps == IInv /\ [Next]_vars => IInv'
<1> SUFFICES ASSUME IInv, [Next]_vars PROVE IInv'
  OBVIOUS
<1>1. ASSUME NEW a \in Actions,
             Prepare(a) \/ Step(a) \/ ChildExits(a) \/ LeftoverEnds(a) \/ Dropped(a)
                \/ ReconcileOne(a)
      PROVE  IInv'
  <2>1. CASE LeftoverEnds(a)
    <3>1. /\ UNCHANGED <<journal, mem, kept, tail, whole, at, approved, isolation, child, faults>>
          /\ left' \in [Actions -> BOOLEAN]
      BY <2>1 DEF LeftoverEnds, fileVars, IInv, TypeOK
    <3>2. QED
      BY <3>1 DEF IInv, TypeOK, FileTells, Tells, Standing
  <2>2. CASE Prepare(a)
    BY <2>2, PrepareKeeps
  <2>3. CASE Refuse(a) \/ SpawnFails(a)
    BY <2>3, RefuseKeeps
  <2>4. CASE Start(a)
    BY <2>4, StartKeeps
  <2>5. CASE RecordSandbox(a)
    BY <2>5, RecordSandboxKeeps
  <2>6. CASE RecordInterrupted(a) \/ Finish(a) \/ Acknowledge(a)
    BY <2>6, OutcomeKeeps
  <2>7. CASE Spawn(a) \/ ChildExits(a) \/ Drain(a) \/ TimeOut(a) \/ Dropped(a)
    BY <2>7, RunningKeeps
  <2>8. CASE ReconcileOne(a)
    BY <2>8, ReconcileOneKeeps
  <2>9. QED
    BY <1>1, <2>1, <2>2, <2>3, <2>4, <2>5, <2>6, <2>7, <2>8 DEF Step
<1>2. CASE ReconcileEnds
  <2>1. /\ journal = "reconciling" /\ journal' = "settled"
        /\ UNCHANGED <<mem, kept, tail, whole, at, approved, isolation, child, left, faults>>
    BY <1>2 DEF ReconcileEnds, fileVars
  <2>2. QED
    BY <2>1 DEF IInv, TypeOK, FileTells, Tells, Standing
<1>3. CASE UNCHANGED vars
  BY <1>3 DEF vars, fileVars, IInv, TypeOK, FileTells, Tells, Standing
<1>4. QED
  BY <1>1, <1>2, <1>3, OpenKeeps, CrashKeeps DEF Next

LEMMA InvariantHolds == Spec => []IInv
BY InitHolds, NextKeeps, PTL DEF Spec

\* The variables keep their types, whatever the actions and however many faults.
THEOREM TypeCorrect == Spec => []TypeOK
<1>1. IInv => TypeOK
  BY DEF IInv
<1>2. QED
  BY <1>1, InvariantHolds, PTL

\* Every command that was ever started is on record with its isolation, through
\* any sequence of failed writes and deaths of the process.
THEOREM StartedCommandsAreOnRecord == Spec => []SpawnedIsOnDisk
<1>1. IInv => SpawnedIsOnDisk
  BY DEF IInv, FileTells, Tells, SpawnedIsOnDisk
<1>2. QED
  BY <1>1, InvariantHolds, PTL

\* The journal never reads better than what happened.
THEOREM JournalIsHonest == Spec => []RecordsAreHonest
<1>1. IInv => RecordsAreHonest
  BY DEF IInv, FileTells, Tells, Standing, RecordsAreHonest
<1>2. QED
  BY <1>1, InvariantHolds, PTL

--------------------------------------------------------------------------------
(* Reconciliation.                                                            *)

\* An append to the file of a reconciled journal leaves the records of the earlier
\* processes' actions as they are, and none of them on the unfinished line.
LEMMA AppendSparesEarlier ==
  ASSUME TypeOK, Reconciled, journal = "settled", whole,
         NEW a \in Actions, NEW r, at[a] # "gone", Written(a, r) \/ CutShort(a, r)
  PROVE  /\ \A b \in Actions : at[b] = "gone" => kept'[b] = kept[b]
         /\ tail'.kind = "bare" => tail'.act = a \/ (tail.kind = "bare" /\ tail'.act = tail.act)
<1>1. tail.kind = "bare" => at[tail.act] # "gone"
  BY DEF Reconciled
<1>2. \A b \in Actions : at[b] = "gone" => Unread[b] = kept[b]
  BY <1>1 DEF TypeOK, Unread
<1>3. Bare(a, kept[a]).act = a /\ Clean.kind # "bare" /\ Fragment.kind # "bare"
  BY DEF Bare, Clean, Fragment
<1>4. CASE Written(a, r)
  BY <1>2, <1>3, <1>4 DEF TypeOK, Written
<1>5. CASE CutShort(a, r)
  BY <1>2, <1>3, <1>4, <1>5 DEF TypeOK, CutShort
<1>6. QED
  BY <1>4, <1>5

\* A step of run_command keeps it: its action is not of an earlier process, before or after.
LEMMA CommandKeepsReconciled ==
  ASSUME IInv, Reconciled, NEW a \in Actions,
         Prepare(a) \/ Step(a) \/ ChildExits(a) \/ LeftoverEnds(a) \/ Dropped(a)
  PROVE  Reconciled'
<1>1. TypeOK /\ Standing(a)
  BY DEF IInv
<1>2. ASSUME NEW r, NEW next, Append(a, r, next), next # "gone", at[a] # "gone", journal' = journal,
             journal # "reconciling"
      PROVE  Reconciled'
  <2>1. /\ whole' = whole
        /\ Written(a, r) \/ CutShort(a, r)
        /\ \A b \in Actions : at'[b] = "gone" <=> at[b] = "gone"
    BY <1>1, <1>2 DEF Append, Written, CutShort, TypeOK
  <2>2. ASSUME journal = "settled", whole
        PROVE  /\ \A b \in Actions : at[b] = "gone" => kept'[b] = kept[b]
               /\ tail'.kind = "bare" => tail'.act = a \/ (tail.kind = "bare" /\ tail'.act = tail.act)
    BY <1>1, <1>2, <2>1, <2>2, AppendSparesEarlier
  <2>3. tail.kind = "bare" => tail.act \in Actions
    BY <1>1, TailKinds DEF TypeOK
  <2>4. QED
    BY <1>2, <2>1, <2>2, <2>3 DEF Reconciled, ReconciledInTheFile
<1>3. CASE Prepare(a) \/ Refuse(a) \/ Start(a) \/ RecordSandbox(a) \/ SpawnFails(a)
           \/ RecordInterrupted(a) \/ Finish(a) \/ Acknowledge(a)
  <2>1. journal # "reconciling" /\ journal' = journal
    BY <1>1, <1>3 DEF Standing, Ready, Prepare, Refuse, Start, RecordSandbox, SpawnFails,
      RecordInterrupted, Finish, Acknowledge
  <2>2. QED
    BY <1>2, <1>3, <2>1 DEF Prepare, Refuse, Start, RecordSandbox, SpawnFails, RecordInterrupted,
      Finish, Acknowledge
<1>4. CASE Spawn(a) \/ Drain(a) \/ TimeOut(a) \/ ChildExits(a) \/ LeftoverEnds(a) \/ Dropped(a)
  <2>1. /\ UNCHANGED <<journal, mem, kept, tail, whole>>
        /\ \A b \in Actions : at'[b] = "gone" <=> at[b] = "gone"
    BY <1>1, <1>4 DEF Spawn, Drain, TimeOut, ChildExits, LeftoverEnds, Dropped, TypeOK, fileVars
  <2>2. tail.kind = "bare" => tail.act \in Actions
    BY <1>1, TailKinds DEF TypeOK
  <2>3. QED
    BY <2>1, <2>2 DEF Reconciled, ReconciledInTheFile
<1>5. QED
  BY <1>3, <1>4 DEF Step

\* A reconciled record goes to the file and to memory, or the reconciliation has failed.
LEMMA ReconcileOneKeepsReconciled ==
  ASSUME TypeOK, Reconciled, NEW a \in Actions, ReconcileOne(a)
  PROVE  Reconciled'
<1> DEFINE r == Now(a, "NeedsReconciliation")
<1>1. journal = "reconciling" /\ at' = at /\ whole' = whole
  BY DEF ReconcileOne, Written, CutShort
<1> HIDE DEF r
<1>2. CASE Written(a, r) /\ mem' = [mem EXCEPT ![a] = r] /\ journal' = journal
  BY <1>1, <1>2, TailKinds DEF Written, TypeOK, Reconciled, ReconciledInTheFile
<1>3. CASE journal' = "open"
  BY <1>1, <1>3 DEF Reconciled, ReconciledInTheFile
<1>4. QED
  BY <1>2, <1>3 DEF ReconcileOne, r

\* Any number of actions and faults: once a reconciliation has returned without an
\* error, a file that ended with a newline when it was opened has none of the earlier
\* processes' actions open, and keeps none open (ReconciledInTheFile).
THEOREM ReconciledStaysInTheFile == Spec => []ReconciledInTheFile
<1>1. Init => Reconciled
  BY TailKinds DEF Init, Reconciled, ReconciledInTheFile
<1>2. IInv /\ Reconciled /\ [Next]_vars => Reconciled'
  <2> SUFFICES ASSUME IInv, Reconciled, [Next]_vars PROVE Reconciled'
    OBVIOUS
  <2>0. TypeOK
    BY DEF IInv
  <2>1. CASE \E a \in Actions : Prepare(a) \/ Step(a) \/ ChildExits(a) \/ LeftoverEnds(a) \/ Dropped(a)
    BY <2>1, CommandKeepsReconciled
  <2>2. CASE \E a \in Actions : ReconcileOne(a)
    BY <2>0, <2>2, ReconcileOneKeepsReconciled
  <2>3. CASE ReconcileEnds
    <3>1. /\ journal = "reconciling" /\ journal' = "settled"
          /\ \A a \in Actions : mem[a].state \notin {"Prepared", "Started"}
          /\ UNCHANGED <<kept, tail, at, whole>>
      BY <2>3 DEF ReconcileEnds, Unfinished, fileVars
    <3>2. QED
      BY <3>1, TailKinds DEF Reconciled, ReconciledInTheFile
  <2>4. CASE Open
    BY <2>4 DEF Open, Reconciled, ReconciledInTheFile
  <2>5. CASE Crash
    BY <2>5 DEF Crash, Reconciled, ReconciledInTheFile
  <2>6. CASE UNCHANGED vars
    BY <2>6 DEF vars, fileVars, Reconciled, ReconciledInTheFile
  <2>7. QED
    BY <2>1, <2>2, <2>3, <2>4, <2>5, <2>6 DEF Next
<1>3. Reconciled => ReconciledInTheFile
  BY DEF Reconciled, ReconciledInTheFile
<1>4. QED
  BY <1>1, <1>2, <1>3, InvariantHolds, PTL DEF Spec
================================================================================

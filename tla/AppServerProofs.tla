----------------------------- MODULE AppServerProofs -----------------------------
(***************************************************************************)
(* Proofs about AppServer, for any requests, sessions and files and any        *)
(* bounds: the types, that no effect is lost or doubled, and that a receipt    *)
(* ends at what the disk holds.                                              *)
(***************************************************************************)
EXTENDS AppServer, SequenceTheorems, FiniteSetTheorems, TLAPS

\* What a request may be at, by what it asks.
AtTheFile == {"prepared", "open", "written", "checked", "verified"}
AtTheSlot == {"waiting", "running", "lingering"}
AtTheReceipt == {"taken", "signed"}

Fits(r) ==
  /\ at[r] \in AtTheFile => Kind(r) \in {"write", "remove"}
  /\ at[r] \in {"open", "written"} => Kind(r) = "write"
  /\ at[r] = "checked" => Kind(r) = "remove"
  /\ at[r] \in AtTheSlot \cup {"ended"} => Kind(r) = "run"
  /\ at[r] \in AtTheReceipt => Kind(r) = "receipt"

\* Who waits or runs stands in the line, and no one twice.
InLineOnce ==
  /\ \A i, j \in DOMAIN line : line[i] = line[j] => i = j
  /\ \A r \in Requests : at[r] \in AtTheSlot => \E i \in DOMAIN line : line[i] = r

\* Who found nothing there has no handle before it has made the file.
HandlesFit == \A r \in held : at[r] = "prepared" => asked[r].expect # "absent"

TypeInv ==
  /\ TypeOK /\ DOMAIN asked = Requests
  /\ \A r \in Requests : Fits(r)
  /\ HandlesFit /\ InLineOnce

\* The journals and receipts hold effects that were answered, each its session's.
EntriesOf(q, s) == \A i \in DOMAIN q : at[q[i]] = "done" /\ Session(q[i]) = s

EntriesInv ==
  /\ \A s \in Sessions : EntriesOf(journal[s], s) /\ EntriesOf(signed[s], s)
  /\ \A q \in Requests :
       taken[q] # <<>> => at[q] \in AtTheReceipt /\ EntriesOf(taken[q], Session(q))

Once(r, q) == \E i \in DOMAIN q : q[i] = r /\ \A j \in DOMAIN q : q[j] = r => j = i
Never(r, q) == \A i \in DOMAIN q : q[i] # r

\* An effect is in one of a journal, what was signed and what the receipts in hand took.
InOneOf(r, j, g, hand, t) ==
  \/ Once(r, j) /\ Never(r, g) /\ \A q \in hand : Never(r, t[q])
  \/ Never(r, j) /\ Once(r, g) /\ \A q \in hand : Never(r, t[q])
  \/ /\ Never(r, j) /\ Never(r, g)
     /\ \E q \in hand : Once(r, t[q]) /\ \A o \in hand \ {q} : Never(r, t[o])

InOnePlace(r) ==
  InOneOf(r, journal[Session(r)], signed[Session(r)], InHand(Session(r)), taken)

\* An effect that was answered is in one place of its session.
KeptInv == EntriesInv /\ \A r \in Requests : at[r] = "done" => InOnePlace(r)

\* Requests in flight together are known to have crossed; and so is one that changed a
\* file after another that has still to record its change.
CrossedInv ==
  /\ \A q, r \in Requests :
       q # r /\ at[q] \in InFlight /\ at[r] \in InFlight =>
         /\ File(q) # "none" /\ File(q) = File(r) => r \in crossed
         /\ Kind(q) = "receipt" /\ Kind(r) = "receipt" /\ Session(q) = Session(r) => r \in crossed
  /\ \A f \in Files, q \in Requests :
       last[f] # "none" /\ last[f] # q /\ at[q] = "verified" /\ File(q) = f => last[f] \in crossed
  /\ \A r \in crossed : at[r] # "unsent"

\* A file's last change is one of it, and the disk has it.
LastInv ==
  \A f \in Files : last[f] # "none" =>
    /\ disk[f] = Content(last[f]) /\ File(last[f]) = f
    /\ at[last[f]] \in {"verified", "done"}

\* It is the last of the file in its session's ledger.
EndsAt(r, q, f) == \E i \in At(r, q) : \A j \in i + 1 .. Len(q) : File(q[j]) # f

EndsWith(f) ==
  LET r == last[f] IN
  /\ r # "none" /\ at[r] = "done" /\ r \notin crossed
  /\ \A q \in crossed : Kind(q) = "receipt" => Session(q) # Session(r)
  => EndsAt(r, Ledger(Session(r)), f)

LedgerInv == LastInv /\ CrossedInv /\ \A f \in Files : EndsWith(f)

--------------------------------------------------------------------------------
(* Types.                                                                     *)

LEMMA AtMoves ==
  ASSUME at \in [Requests -> {"unsent"} \cup InFlight \cup Answered], NEW r \in Requests,
         NEW to \in InFlight \cup Answered, Move(r, to)
  PROVE  /\ at' \in [Requests -> {"unsent"} \cup InFlight \cup Answered]
         /\ at'[r] = to /\ \A q \in Requests \ {r} : at'[q] = at[q]
  BY DEF Move

LineTypes ==
  /\ line \in Seq(Requests)
  /\ \A i \in DOMAIN line :
       at[line[i]] \in IF i = 1 THEN {"waiting", "running", "lingering", "ended"} ELSE {"waiting"}
  /\ InLineOnce

\* A request of those who are not in the line leaves it alone.
LEMMA LineRests ==
  ASSUME TypeInv, NEW r \in Requests, at[r] \notin {"waiting", "running", "lingering", "ended"},
         at'[r] \notin AtTheSlot, \A q \in Requests \ {r} : at'[q] = at[q], UNCHANGED line
  PROVE  LineTypes'
<1>1. \A i \in DOMAIN line : line[i] \in Requests
  BY ElementOfSeq, LenProperties DEF TypeInv, TypeOK
<1>2. \A i \in DOMAIN line : at[line[i]] \in {"waiting", "running", "lingering", "ended"}
  BY DEF TypeInv, TypeOK
<1> QED
  BY <1>1, <1>2 DEF TypeInv, TypeOK, LineTypes, InLineOnce

\* What a step of a request keeps, given what it does to the file, the records and the line.
LEMMA StepTypes ==
  ASSUME TypeInv, NEW r \in Requests, at[r] \in InFlight, NEW to \in InFlight \cup Answered, Move(r, to),
         UNCHANGED <<commands, asked, crossed>>,
         disk' \in [Files -> Contents], last' \in [Files -> Requests \cup {"none"}],
         how' \in [Requests -> {"none", "ran", "not_run"}],
         journal' \in [Sessions -> Seq(Requests)], taken' \in [Requests -> Seq(Requests)],
         signed' \in [Sessions -> Seq(Requests)], spawned' \subseteq Requests, outside' \in 0 .. MaxOutside,
         held' \subseteq held \cup {r}, r \in held' => to \in {"prepared", "open", "checked"},
         \A q \in held' : disk'[File(q)] # "absent",
         r \in held' /\ to = "prepared" => asked[r].expect # "absent",
         to \in AtTheFile => Kind(r) \in {"write", "remove"},
         to \in {"open", "written"} => Kind(r) = "write", to = "checked" => Kind(r) = "remove",
         to \in AtTheSlot \cup {"ended"} => Kind(r) = "run", to \in AtTheReceipt => Kind(r) = "receipt",
         LineTypes'
  PROVE  TypeInv'
<1>1. /\ at' \in [Requests -> {"unsent"} \cup InFlight \cup Answered]
      /\ at'[r] = to /\ \A q \in Requests \ {r} : at'[q] = at[q]
  BY AtMoves DEF TypeInv, TypeOK
<1>2. held' \subseteq {q \in Requests : at'[q] \in {"prepared", "open", "checked"}}
  BY <1>1 DEF TypeInv, TypeOK
<1>3. \A q \in held' : (disk[File(q)] # "absent")'
  BY DEF File
<1>4. \A q \in Requests : asked'[q] \in IF at'[q] = "unsent" THEN {Unsent} ELSE Asks(q)
  <2>1. at[r] # "unsent" /\ to # "unsent"
    BY DEF InFlight, Answered
  <2>2. \A q \in Requests : at'[q] = "unsent" <=> at[q] = "unsent"
    BY <1>1, <2>1
  <2> QED
    BY <2>2 DEF TypeInv, TypeOK
<1>5. \A q \in Requests : Fits(q)'
  BY <1>1 DEF TypeInv, Fits, Kind
<1>6. commands \in Modes /\ crossed \subseteq Requests
  BY DEF TypeInv, TypeOK
<1>7. HandlesFit'
  BY <1>1, <1>2 DEF TypeInv, HandlesFit
<1> QED
  BY <1>1, <1>2, <1>3, <1>4, <1>5, <1>6, <1>7 DEF TypeInv, TypeOK, LineTypes

\* What the request of a step about a file asks.
LEMMA AsksOfAFile ==
  ASSUME TypeInv, NEW r \in Requests, at[r] # "unsent", Kind(r) \in {"write", "remove"}
  PROVE  /\ File(r) \in Files /\ asked[r].expect \in Contents /\ Session(r) \in Sessions
         /\ Content(r) = IF Kind(r) = "write" THEN r ELSE "absent"
  BY DEF TypeInv, TypeOK, Asks, Kind, File, Session, Content, Unsent

LEMMA AsksOfASession ==
  ASSUME TypeInv, NEW r \in Requests, at[r] # "unsent"
  PROVE  Session(r) \in Sessions /\ Kind(r) \in {"write", "remove", "run", "receipt"}
  BY DEF TypeInv, TypeOK, Asks, Session, Kind

LEMMA Names ==
  /\ {"none", "start", "absent", "empty", "torn", "other"} \cap Requests = {} /\ MaxOutside \in Nat
  /\ \A r \in Requests : r \in Contents
  /\ {"start", "absent", "empty", "torn", "other"} \subseteq Contents
  BY AppAssumption DEF Contents

LEMMA OutsideCounts == ASSUME TypeInv, outside' = outside \/ Outside PROVE outside' \in 0 .. MaxOutside
  BY Names DEF TypeInv, TypeOK, Outside

LEMMA Setting ==
  ASSUME TypeInv, NEW f \in Files, NEW c \in Contents, Set(f, c)
  PROVE  /\ disk' \in [Files -> Contents] /\ disk'[f] = c /\ \A g \in Files \ {f} : disk'[g] = disk[g]
         /\ last' \in [Files -> Requests \cup {"none"}] /\ last'[f] = "none"
         /\ \A g \in Files \ {f} : last'[g] = last[g]
  BY DEF TypeInv, TypeOK, Set

\* A handle's file is there, in any state of the disk that differs at most in one file
\* that is there.
LEMMA HeldAreThere ==
  ASSUME TypeInv, NEW f \in Files, disk'[f] # "absent", \A g \in Files \ {f} : disk'[g] = disk[g]
  PROVE  \A q \in held : disk'[File(q)] # "absent"
<1> SUFFICES ASSUME NEW q \in held PROVE disk'[File(q)] # "absent"
  OBVIOUS
<1>1. q \in Requests /\ at[q] \in {"prepared", "open", "checked"} /\ disk[File(q)] # "absent"
  BY DEF TypeInv, TypeOK
<1>2. File(q) \in Files
  BY <1>1, AsksOfAFile DEF TypeInv, Fits, AtTheFile
<1> QED
  BY <1>1, <1>2

LEMMA FileStepsType ==
  ASSUME TypeInv, NEW r \in Requests,
         Prepare(r) \/ Open(r) \/ Write(r) \/ Verify(r) \/ Check(r) \/ Unlink(r) \/ Fault(r)
  PROVE  TypeInv'
<1>0. /\ at[r] \in InFlight /\ at[r] # "unsent" /\ at[r] \notin {"waiting", "running", "lingering", "ended"}
      /\ Kind(r) \in {"write", "remove"}
  BY DEF Prepare, Open, Write, Verify, Check, Unlink, Fault, InFlight, TypeInv, Fits, AtTheFile
<1>1. /\ File(r) \in Files /\ asked[r].expect \in Contents /\ Session(r) \in Sessions
      /\ Content(r) = IF Kind(r) = "write" THEN r ELSE "absent"
  BY <1>0, AsksOfAFile
<1>2. /\ UNCHANGED <<commands, asked, crossed, how, line, journal, taken, signed, spawned>>
      /\ outside' \in 0 .. MaxOutside
  BY OutsideCounts, Zenon DEF Prepare, Open, Write, Verify, Check, Unlink, Fault, fileVars, recordVars
<1>3. /\ how \in [Requests -> {"none", "ran", "not_run"}]
      /\ journal \in [Sessions -> Seq(Requests)] /\ taken \in [Requests -> Seq(Requests)]
      /\ signed \in [Sessions -> Seq(Requests)] /\ spawned \subseteq Requests
      /\ disk \in [Files -> Contents] /\ last \in [Files -> Requests \cup {"none"}]
      /\ at \in [Requests -> {"unsent"} \cup InFlight \cup Answered]
  BY DEF TypeInv, TypeOK
<1>4. \A q \in held : q \in Requests /\ disk[File(q)] # "absent"
  BY DEF TypeInv, TypeOK
<1>5. ASSUME NEW to \in InFlight \cup Answered, Move(r, to),
             to \notin {"waiting", "running", "lingering", "ended", "taken", "signed"},
             to \in {"open", "written"} => Kind(r) = "write", to = "checked" => Kind(r) = "remove",
             disk' \in [Files -> Contents], last' \in [Files -> Requests \cup {"none"}],
             held' \subseteq held \cup {r}, r \in held' => to \in {"prepared", "open", "checked"},
             \A q \in held' : disk'[File(q)] # "absent",
             r \in held' /\ to = "prepared" => asked[r].expect # "absent"
      PROVE  TypeInv'
  <2>1. LineTypes'
    BY <1>0, <1>2, <1>3, <1>5, AtMoves, LineRests DEF AtTheSlot
  <2> QED
    BY <1>0, <1>2, <1>3, <1>5, <2>1, StepTypes DEF AtTheFile, AtTheSlot, AtTheReceipt
<1>6. CASE Prepare(r)
  <2>1. UNCHANGED <<disk, last>> /\ r \notin held
    BY <1>6 DEF Prepare, TypeInv, TypeOK
  <2>2. CASE Move(r, "refused") /\ UNCHANGED held
    BY <1>3, <1>4, <1>5, <2>1, <2>2 DEF InFlight, Answered
  <2>3. CASE /\ disk[File(r)] = asked[r].expect /\ Move(r, "prepared")
             /\ held' = IF disk[File(r)] = "absent" THEN held ELSE held \cup {r}
    BY <1>3, <1>4, <1>5, <2>1, <2>3 DEF InFlight, Answered
  <2> QED
    BY <1>6, <2>2, <2>3 DEF Prepare
<1>7. CASE Open(r)
  <2>1. Kind(r) = "write" /\ at[r] = "prepared"
    BY <1>7 DEF Open
  <2>2. CASE Move(r, "failed") /\ UNCHANGED fileVars /\ asked[r].expect = "absent"
    <3>1. r \notin held
      BY <2>1, <2>2 DEF TypeInv, HandlesFit
    <3> QED
      BY <1>3, <1>4, <1>5, <2>2, <3>1 DEF InFlight, Answered, fileVars
  <2>3. CASE Move(r, "open") /\ UNCHANGED <<disk, last, held>>
    BY <1>3, <1>4, <1>5, <2>1, <2>3 DEF InFlight, Answered
  <2>4. CASE Move(r, "open") /\ Set(File(r), "empty") /\ held' \subseteq held \cup {r}
    <3>1. /\ disk' \in [Files -> Contents] /\ disk'[File(r)] = "empty"
          /\ \A g \in Files \ {File(r)} : disk'[g] = disk[g]
          /\ last' \in [Files -> Requests \cup {"none"}]
      BY <1>1, <2>4, Setting, Names
    <3>2. \A q \in held \cup {r} : disk'[File(q)] # "absent"
      BY <1>1, <3>1, HeldAreThere
    <3> QED
      BY <1>5, <2>1, <2>4, <3>1, <3>2 DEF InFlight, Answered
  <2> QED
    BY <1>7, <2>2, <2>3, <2>4, Zenon DEF Open
<1>8. CASE Write(r)
  <2>1. Kind(r) = "write" /\ held' = held \ {r}
    BY <1>8 DEF Write, TypeInv, Fits
  <2>2. PICK to \in {"written", "failed"} : Move(r, to)
    BY <1>8 DEF Write
  <2>3. CASE UNCHANGED <<disk, last>>
    BY <1>3, <1>4, <1>5, <2>1, <2>2, <2>3 DEF InFlight, Answered
  <2>4. CASE \E c \in {Content(r), "torn"} : Set(File(r), c)
    <3>1. PICK c \in {r, "torn"} : Set(File(r), c)
      BY <1>1, <2>1, <2>4
    <3>2. c \in Contents /\ c # "absent"
      BY <3>1, Names
    <3>3. /\ disk' \in [Files -> Contents] /\ disk'[File(r)] # "absent"
          /\ \A g \in Files \ {File(r)} : disk'[g] = disk[g]
          /\ last' \in [Files -> Requests \cup {"none"}]
      BY <1>1, <3>1, <3>2, Setting
    <3>4. \A q \in held : disk'[File(q)] # "absent"
      BY <1>1, <3>3, HeldAreThere
    <3> QED
      BY <1>5, <2>1, <2>2, <3>3, <3>4 DEF InFlight, Answered
  <2> QED
    BY <1>8, <2>3, <2>4 DEF Write
<1>9. CASE Verify(r)
  <2>1. UNCHANGED <<disk, held>> /\ last' \in [Files -> Requests \cup {"none"}]
    BY <1>3, <1>9 DEF Verify
  <2>3. r \notin held
    BY <1>9 DEF Verify, TypeInv, TypeOK
  <2>2. PICK to \in {"verified", "failed"} : Move(r, to)
    BY <1>9 DEF Verify
  <2> QED
    BY <1>3, <1>4, <1>5, <2>1, <2>2, <2>3 DEF InFlight, Answered
<1>10. CASE Check(r)
  <2>1. UNCHANGED <<disk, last, held>> /\ Kind(r) = "remove"
    BY <1>10 DEF Check, fileVars
  <2>2. PICK to \in {"checked", "failed"} : Move(r, to) /\ (r \in held => to = "checked")
    BY <1>10 DEF Check
  <2> QED
    BY <1>3, <1>4, <1>5, <2>1, <2>2 DEF InFlight, Answered
<1>11. CASE Unlink(r)
  <2>1. CASE Move(r, "failed") /\ held' = held \ {r} /\ UNCHANGED <<disk, last>>
    BY <1>3, <1>4, <1>5, <2>1 DEF InFlight, Answered
  <2>2. CASE /\ Move(r, "verified")
             /\ disk' = [disk EXCEPT ![File(r)] = "absent"]
             /\ last' = [last EXCEPT ![File(r)] = r]
             /\ held' = {q \in held : File(q) # File(r)}
    <3>1. disk' \in [Files -> Contents] /\ last' \in [Files -> Requests \cup {"none"}]
      BY <1>3, <2>2, Names
    <3>2. \A q \in held' : File(q) \in Files
      BY <2>2, AsksOfAFile DEF TypeInv, TypeOK, Fits, AtTheFile
    <3>3. \A q \in held' : disk'[File(q)] # "absent"
      BY <1>3, <1>4, <2>2, <3>2
    <3> QED
      BY <1>5, <2>2, <3>1, <3>3 DEF InFlight, Answered
  <2> QED
    BY <1>11, <2>1, <2>2 DEF Unlink
<1>12. CASE Fault(r)
  <2>1. Move(r, "failed") /\ UNCHANGED <<disk, last>> /\ held' = held \ {r}
    BY <1>12 DEF Fault
  <2> QED
    BY <1>3, <1>4, <1>5, <2>1 DEF InFlight, Answered
<1> QED
  BY <1>6, <1>7, <1>8, <1>9, <1>10, <1>11, <1>12

LEMMA EditsType == ASSUME TypeInv, NEW f \in Files, OutsideEdit(f) PROVE TypeInv'
<1>1. PICK c \in {"other", "absent"}, replaced \in BOOLEAN :
        /\ replaced \/ (c = "other" /\ disk[f] # "absent")
        /\ Set(f, c)
        /\ held' = IF replaced THEN {q \in held : File(q) # f} ELSE held
  BY DEF OutsideEdit
<1>2. /\ UNCHANGED <<commands, asked, at, how, line, recordVars, crossed, spawned>>
      /\ outside' \in 0 .. MaxOutside
  BY OutsideCounts DEF OutsideEdit
<1>3. /\ disk' \in [Files -> Contents] /\ disk'[f] = c /\ \A g \in Files \ {f} : disk'[g] = disk[g]
      /\ last' \in [Files -> Requests \cup {"none"}]
  BY <1>1, Setting, Names
<1>4. held' \subseteq held /\ \A q \in held' : q \in Requests /\ disk[File(q)] # "absent"
  BY <1>1 DEF TypeInv, TypeOK
<1>5. \A q \in held' : File(q) \in Files
  BY <1>4, AsksOfAFile DEF TypeInv, TypeOK, Fits, AtTheFile
<1>6. \A q \in held' : disk'[File(q)] # "absent"
  BY <1>1, <1>3, <1>4, <1>5
<1>7. \A q \in held' : (disk[File(q)] # "absent")'
  BY <1>2, <1>6 DEF File
<1>8. (\A r \in Requests : Fits(r))' /\ HandlesFit' /\ InLineOnce'
  BY <1>2, <1>4 DEF TypeInv, Fits, Kind, HandlesFit, InLineOnce
<1> QED
  BY <1>2, <1>3, <1>4, <1>7, <1>8 DEF TypeInv, TypeOK, recordVars

LEMMA SendTypes == ASSUME TypeInv, NEW r \in Requests, Send(r) PROVE TypeInv'
<1>1. PICK ask \in Asks(r) : asked' = [asked EXCEPT ![r] = ask]
                           /\ crossed' = crossed \cup (IF Rivals(ask) = {} THEN {} ELSE Rivals(ask) \cup {r})
  BY DEF Send
<1>2. /\ at[r] = "unsent" /\ Move(r, "sent") /\ UNCHANGED <<fileVars, how, line, recordVars, spawned, outside>>
  BY DEF Send
<1>3. /\ at' \in [Requests -> {"unsent"} \cup InFlight \cup Answered]
      /\ at'[r] = "sent" /\ \A q \in Requests \ {r} : at'[q] = at[q]
  BY <1>2, AtMoves DEF TypeInv, TypeOK, InFlight
<1>4. asked'[r] = ask /\ \A q \in Requests \ {r} : asked'[q] = asked[q]
  BY <1>1 DEF TypeInv
<1>5. r \notin held /\ LineTypes'
  BY <1>2, <1>3, LineRests DEF TypeInv, TypeOK, AtTheSlot
<1>6. held' \subseteq {q \in Requests : at'[q] \in {"prepared", "open", "checked"}}
  BY <1>2, <1>3, <1>5 DEF TypeInv, TypeOK, fileVars
<1>h. held' = held /\ \A q \in held : q \in Requests \ {r}
  BY <1>2, <1>5 DEF TypeInv, TypeOK, fileVars
<1>7. \A q \in held' : (disk[File(q)] # "absent")'
  <2>1. \A q \in held : disk[File(q)] # "absent" /\ asked'[q] = asked[q]
    BY <1>4, <1>h DEF TypeInv, TypeOK
  <2> QED
    BY <1>2, <1>h, <2>1 DEF File, fileVars
<1>8. \A q \in Requests : asked'[q] \in IF at'[q] = "unsent" THEN {Unsent} ELSE Asks(q)
  <2> SUFFICES ASSUME NEW q \in Requests
               PROVE  asked'[q] \in IF at'[q] = "unsent" THEN {Unsent} ELSE Asks(q)
    OBVIOUS
  <2>1. CASE q = r
    BY <1>3, <1>4, <2>1
  <2>2. CASE q # r
    BY <1>3, <1>4, <2>2 DEF TypeInv, TypeOK
  <2> QED
    BY <2>1, <2>2
<1>9. (\A q \in Requests : Fits(q))' /\ HandlesFit'
  <2>1. \A q \in Requests : Fits(q)'
    <3> SUFFICES ASSUME NEW q \in Requests PROVE Fits(q)'
      OBVIOUS
    <3>1. CASE q = r
      BY <1>3, <3>1 DEF Fits, AtTheFile, AtTheSlot, AtTheReceipt
    <3>2. CASE q # r
      BY <1>3, <1>4, <3>2 DEF TypeInv, Fits, Kind
    <3> QED
      BY <3>1, <3>2
  <2>2. HandlesFit'
    BY <1>3, <1>4, <1>h DEF TypeInv, HandlesFit
  <2> QED
    BY <2>1, <2>2
<1>10. crossed' \subseteq Requests /\ DOMAIN asked' = Requests
  BY <1>1 DEF TypeInv, TypeOK, Rivals
<1> QED
  BY <1>2, <1>3, <1>5, <1>6, <1>7, <1>8, <1>9, <1>10
     DEF TypeInv, TypeOK, LineTypes, fileVars, recordVars

\* A step of a request that is about no file.
LEMMA RecordStepTypes ==
  ASSUME TypeInv, NEW r \in Requests, at[r] \in InFlight, r \notin held,
         NEW to \in InFlight \cup Answered, Move(r, to), UNCHANGED <<fileVars, asked, crossed>>,
         how' \in [Requests -> {"none", "ran", "not_run"}],
         journal' \in [Sessions -> Seq(Requests)], taken' \in [Requests -> Seq(Requests)],
         signed' \in [Sessions -> Seq(Requests)], spawned' \subseteq Requests, outside' \in 0 .. MaxOutside,
         to \notin AtTheFile, to \in AtTheSlot \cup {"ended"} => Kind(r) = "run",
         to \in AtTheReceipt => Kind(r) = "receipt",
         LineTypes'
  PROVE  TypeInv'
<1>1. /\ disk' \in [Files -> Contents] /\ last' \in [Files -> Requests \cup {"none"}] /\ held' = held
      /\ UNCHANGED commands /\ \A q \in held' : disk'[File(q)] # "absent"
  BY DEF fileVars, TypeInv, TypeOK
<1> QED
  BY <1>1, StepTypes DEF AtTheFile

LEMMA LineIs == ASSUME TypeInv PROVE line \in Seq(Requests) /\ DOMAIN line = 1 .. Len(line) /\ Len(line) \in Nat
                                     /\ \A i \in 1 .. Len(line) : line[i] \in Requests
  BY LenProperties, ElementOfSeq DEF TypeInv, TypeOK

\* A sequence without one of its elements.
LEMMA TakenOut ==
  ASSUME NEW S, NEW q \in Seq(S), NEW k \in 1 .. Len(q)
  PROVE  LET c == SubSeq(q, 1, k - 1) \o SubSeq(q, k + 1, Len(q))
         IN /\ c \in Seq(S) /\ Len(c) = Len(q) - 1
            /\ \A i \in 1 .. Len(q) - 1 : c[i] = IF i < k THEN q[i] ELSE q[i + 1]
<1> DEFINE n == Len(q)
           a == SubSeq(q, 1, k - 1)
           b == SubSeq(q, k + 1, n)
<1>1. n \in Nat /\ (\A i \in 1 .. n : q[i] \in S) /\ k \in Int /\ k \in 1 .. n
  BY LenProperties
<1>2. a \in Seq(S) /\ Len(a) = k - 1 /\ \A i \in 1 .. k - 1 : a[i] = q[i]
  <2>1. \A i \in 1 .. k - 1 : q[i] \in S
    BY <1>1
  <2>2. /\ a \in Seq(S) /\ Len(a) = IF 1 <= k - 1 THEN (k - 1) - 1 + 1 ELSE 0
        /\ \A i \in 1 .. (k - 1) - 1 + 1 : a[i] = q[1 + i - 1]
    BY <1>1, <2>1, SubSeqProperties
  <2> QED
    BY <1>1, <2>2
<1>3. b \in Seq(S) /\ Len(b) = n - k /\ \A i \in 1 .. n - k : b[i] = q[k + i]
  <2>1. \A i \in k + 1 .. n : q[i] \in S
    BY <1>1
  <2>2. /\ b \in Seq(S) /\ Len(b) = IF k + 1 <= n THEN n - (k + 1) + 1 ELSE 0
        /\ \A i \in 1 .. n - (k + 1) + 1 : b[i] = q[(k + 1) + i - 1]
    BY <1>1, <2>1, SubSeqProperties
  <2> QED
    BY <1>1, <2>2
<1> HIDE DEF a, b
<1>4. /\ a \o b \in Seq(S) /\ Len(a \o b) = Len(a) + Len(b)
      /\ \A i \in 1 .. Len(a) + Len(b) : (a \o b)[i] = IF i <= Len(a) THEN a[i] ELSE b[i - Len(a)]
  BY <1>2, <1>3, ConcatProperties
<1> DEFINE c == a \o b
<1> HIDE DEF c
<1>6. c \in Seq(S) /\ Len(c) = n - 1 /\ \A i \in 1 .. n - 1 : c[i] = IF i < k THEN q[i] ELSE q[i + 1]
  BY <1>1, <1>2, <1>3, <1>4 DEF c
<1> QED
  BY <1>6 DEF c, a, b

\* The line without a request that needs the slot no more.
LEMMA LineCloses ==
  ASSUME TypeInv, NEW r \in Requests, NEW k \in 1 .. Len(line), line[k] = r,
         at'[r] \notin AtTheSlot, \A q \in Requests \ {r} : at'[q] = at[q],
         line' \in Seq(Requests), DOMAIN line' = 1 .. Len(line) - 1,
         \A i \in 1 .. Len(line) - 1 : line'[i] = IF i < k THEN line[i] ELSE line[i + 1]
  PROVE  LineTypes'
<1> DEFINE n == Len(line)
<1>1. n \in Nat /\ DOMAIN line = 1 .. n /\ \A i \in 1 .. n : line[i] \in Requests
  BY LineIs
<1>2. /\ \A i \in 1 .. n : at[line[i]] \in IF i = 1 THEN {"waiting", "running", "lingering", "ended"} ELSE {"waiting"}
      /\ \A i, j \in 1 .. n : line[i] = line[j] => i = j
      /\ \A q \in Requests : at[q] \in AtTheSlot => \E i \in 1 .. n : line[i] = q
  BY <1>1 DEF TypeInv, TypeOK, InLineOnce
<1> HIDE DEF n
<1>3. \A i \in 1 .. n - 1 :
        at'[line'[i]] \in IF i = 1 THEN {"waiting", "running", "lingering", "ended"} ELSE {"waiting"}
  <2> SUFFICES ASSUME NEW i \in 1 .. n - 1
               PROVE  at'[line'[i]] \in IF i = 1 THEN {"waiting", "running", "lingering", "ended"} ELSE {"waiting"}
    OBVIOUS
  <2>1. CASE i < k
    <3>1. i \in 1 .. n /\ i # k /\ line'[i] = line[i]
      BY <1>1, <2>1 DEF n
    <3>2. line[i] \in Requests \ {r}
      BY <1>1, <1>2, <3>1
    <3> QED
      BY <1>2, <3>1, <3>2
  <2>2. CASE ~(i < k)
    <3>1. i + 1 \in 1 .. n /\ i + 1 # k /\ i + 1 # 1 /\ line'[i] = line[i + 1]
      BY <1>1, <2>2 DEF n
    <3>2. line[i + 1] \in Requests \ {r}
      BY <1>1, <1>2, <3>1
    <3> QED
      BY <1>2, <3>1, <3>2
  <2> QED
    BY <2>1, <2>2
<1>4. \A i, j \in 1 .. n - 1 : line'[i] = line'[j] => i = j
  <2> SUFFICES ASSUME NEW i \in 1 .. n - 1, NEW j \in 1 .. n - 1, line'[i] = line'[j] PROVE i = j
    OBVIOUS
  <2>1. PICK a \in 1 .. n : line'[i] = line[a] /\ a = IF i < k THEN i ELSE i + 1
    BY <1>1 DEF n
  <2>2. PICK b \in 1 .. n : line'[j] = line[b] /\ b = IF j < k THEN j ELSE j + 1
    BY <1>1 DEF n
  <2>3. line[a] = line[b]
    BY <2>1, <2>2
  <2>4. a = b
    BY <1>2, <2>3
  <2> QED
    BY <2>1, <2>2, <2>4
<1>5. \A q \in Requests : at'[q] \in AtTheSlot => \E i \in 1 .. n - 1 : line'[i] = q
  <2> SUFFICES ASSUME NEW q \in Requests, at'[q] \in AtTheSlot PROVE \E i \in 1 .. n - 1 : line'[i] = q
    OBVIOUS
  <2>1. q # r /\ at'[q] = at[q]
    OBVIOUS
  <2>2. PICK j \in 1 .. n : line[j] = q
    BY <1>2, <2>1
  <2>3. CASE j < k
    BY <1>1, <2>2, <2>3 DEF n
  <2>4. CASE j > k
    <3>1. j - 1 \in 1 .. n - 1 /\ ~(j - 1 < k) /\ (j - 1) + 1 = j
      BY <1>1, <2>4 DEF n
    <3>2. line'[j - 1] = line[j]
      BY <3>1 DEF n
    <3> QED
      BY <2>2, <3>1, <3>2
  <2> QED
    BY <1>1, <2>1, <2>2, <2>3, <2>4
<1> QED
  BY <1>3, <1>4, <1>5 DEF LineTypes, InLineOnce, n

LEMMA SlotStepsType ==
  ASSUME TypeInv, NEW r \in Requests,
         RefuseRun(r) \/ Wait(r) \/ Start(r) \/ Linger(r) \/ End(r) \/ Drop(r)
  PROVE  TypeInv'
<1>0. /\ at[r] \in InFlight /\ Kind(r) = "run" /\ r \notin held
      /\ UNCHANGED <<fileVars, asked, crossed, recordVars>>
      /\ outside' \in 0 .. MaxOutside
  <2>1. /\ at[r] \in {"sent", "waiting", "running", "lingering"} /\ Kind(r) = "run"
        /\ UNCHANGED <<fileVars, asked, crossed, recordVars>> /\ (outside' = outside \/ Outside)
    BY DEF RefuseRun, Wait, Start, Linger, End, Drop, TypeInv, Fits, AtTheSlot
  <2>2. at[r] \notin {"prepared", "open", "checked"}
    BY <2>1
  <2> QED
    BY <2>1, <2>2, OutsideCounts DEF InFlight, TypeInv, TypeOK
<1>1. /\ journal' \in [Sessions -> Seq(Requests)] /\ taken' \in [Requests -> Seq(Requests)]
      /\ signed' \in [Sessions -> Seq(Requests)] /\ how \in [Requests -> {"none", "ran", "not_run"}]
      /\ spawned \subseteq Requests /\ at \in [Requests -> {"unsent"} \cup InFlight \cup Answered]
  BY <1>0 DEF TypeInv, TypeOK, recordVars
<1>2. /\ line \in Seq(Requests) /\ DOMAIN line = 1 .. Len(line) /\ Len(line) \in Nat
      /\ \A i \in 1 .. Len(line) : line[i] \in Requests
  BY LineIs
<1>3. /\ \A i \in 1 .. Len(line) :
           at[line[i]] \in IF i = 1 THEN {"waiting", "running", "lingering", "ended"} ELSE {"waiting"}
      /\ \A i, j \in 1 .. Len(line) : line[i] = line[j] => i = j
      /\ \A q \in Requests : at[q] \in AtTheSlot => \E i \in 1 .. Len(line) : line[i] = q
  BY <1>2 DEF TypeInv, TypeOK, InLineOnce
<1>4. ASSUME NEW to \in {"waiting", "running", "lingering", "ended", "dropped"}, Move(r, to),
             how' \in [Requests -> {"none", "ran", "not_run"}], spawned' \subseteq Requests, LineTypes'
      PROVE  TypeInv'
  BY <1>0, <1>1, <1>4, RecordStepTypes DEF InFlight, Answered, AtTheFile, AtTheReceipt
<1>5. CASE RefuseRun(r)
  <2>1. Move(r, "ended") /\ how' \in [Requests -> {"none", "ran", "not_run"}] /\ UNCHANGED <<line, spawned>>
    BY <1>1, <1>5 DEF RefuseRun
  <2>2. at[r] = "sent" /\ at'[r] = "ended" /\ \A q \in Requests \ {r} : at'[q] = at[q]
    BY <1>1, <1>5, <2>1, AtMoves DEF RefuseRun, InFlight
  <2>3. LineTypes'
    BY <2>1, <2>2, LineRests DEF AtTheSlot
  <2> QED
    BY <1>1, <1>4, <2>1, <2>3
<1>6. CASE Wait(r)
  <2>1. Move(r, "waiting") /\ UNCHANGED <<how, spawned>> /\ line' = Append(line, r) /\ at[r] = "sent"
    BY <1>6 DEF Wait
  <2>2. at'[r] = "waiting" /\ \A q \in Requests \ {r} : at'[q] = at[q]
    BY <1>1, <2>1, AtMoves DEF InFlight
  <2>3. \A i \in 1 .. Len(line) : line[i] # r
    BY <1>3, <2>1
  <2>4. /\ line' \in Seq(Requests) /\ Len(line') = Len(line) + 1 /\ DOMAIN line' = 1 .. Len(line')
        /\ \A i \in 1 .. Len(line) : line'[i] = line[i]
        /\ line'[Len(line) + 1] = r
    BY <1>2, <2>1, AppendProperties, LenProperties
  <2>5. LineTypes'
    <3>1. \A i \in 1 .. Len(line') :
            at'[line'[i]] \in IF i = 1 THEN {"waiting", "running", "lingering", "ended"} ELSE {"waiting"}
      <4> SUFFICES ASSUME NEW i \in 1 .. Len(line')
                   PROVE  at'[line'[i]] \in IF i = 1 THEN {"waiting", "running", "lingering", "ended"} ELSE {"waiting"}
        OBVIOUS
      <4>1. CASE i \in 1 .. Len(line)
        BY <1>2, <1>3, <2>2, <2>3, <2>4, <4>1
      <4>2. CASE i = Len(line) + 1
        BY <2>2, <2>4, <4>2
      <4> QED
        BY <1>2, <2>4, <4>1, <4>2
    <3>2. \A i, j \in 1 .. Len(line') : line'[i] = line'[j] => i = j
      BY <1>2, <1>3, <2>3, <2>4
    <3>3. \A q \in Requests : at'[q] \in AtTheSlot => \E i \in 1 .. Len(line') : line'[i] = q
      <4> SUFFICES ASSUME NEW q \in Requests, at'[q] \in AtTheSlot
                   PROVE  \E i \in 1 .. Len(line') : line'[i] = q
        OBVIOUS
      <4>1. CASE q = r
        BY <1>2, <2>4, <4>1
      <4>2. CASE q # r
        BY <1>2, <1>3, <2>2, <2>4, <4>2
      <4> QED
        BY <4>1, <4>2
    <3> QED
      BY <2>4, <3>1, <3>2, <3>3 DEF LineTypes, InLineOnce
  <2> QED
    BY <1>1, <1>4, <2>1, <2>5
<1>7. CASE Start(r) \/ Linger(r) \/ End(r)
  <2>1. PICK to \in {"running", "lingering", "ended"} : Move(r, to)
    BY <1>7 DEF Start, Linger, End
  <2>2. /\ UNCHANGED line /\ how' \in [Requests -> {"none", "ran", "not_run"}] /\ spawned' \subseteq Requests
    BY <1>1, <1>7 DEF Start, Linger, End
  <2>3. at'[r] = to /\ \A q \in Requests \ {r} : at'[q] = at[q]
    BY <1>1, <2>1, AtMoves DEF InFlight
  <2>4. \A i \in 1 .. Len(line) : line[i] = r => i = 1
    <3>1. CASE at[r] \in {"running", "lingering"}
      BY <1>3, <3>1
    <3>2. CASE Start(r)
      <4> SUFFICES ASSUME NEW i \in 1 .. Len(line), line[i] = r PROVE i = 1
        OBVIOUS
      <4>1. line[1] = r /\ 1 \in 1 .. Len(line)
        BY <1>2, <3>2 DEF Start
      <4> QED
        BY <1>3, <4>1
    <3> QED
      BY <1>7, <3>1, <3>2 DEF Linger, End
  <2>5. LineTypes'
    <3>1. \A i \in 1 .. Len(line) :
            at'[line[i]] \in IF i = 1 THEN {"waiting", "running", "lingering", "ended"} ELSE {"waiting"}
      <4> SUFFICES ASSUME NEW i \in 1 .. Len(line)
                   PROVE  at'[line[i]] \in IF i = 1 THEN {"waiting", "running", "lingering", "ended"} ELSE {"waiting"}
        OBVIOUS
      <4>1. CASE line[i] = r
        BY <2>1, <2>3, <2>4, <4>1
      <4>2. CASE line[i] # r
        BY <1>2, <1>3, <2>3, <4>2
      <4> QED
        BY <4>1, <4>2
    <3>2. \A q \in Requests : at'[q] \in AtTheSlot => \E i \in 1 .. Len(line) : line[i] = q
      <4>1. \E i \in 1 .. Len(line) : line[i] = r
        BY <1>3, <1>7 DEF Start, Linger, End, AtTheSlot
      <4> QED
        BY <1>3, <2>3, <4>1
    <3> QED
      BY <1>2, <1>3, <2>2, <3>1, <3>2 DEF LineTypes, InLineOnce
  <2> QED
    BY <1>4, <2>1, <2>2, <2>5
<1>8. CASE Drop(r)
  <2>1. Move(r, "dropped") /\ UNCHANGED <<how, spawned>> /\ line' = Without(line, r)
        /\ at[r] \in {"waiting", "running", "lingering"}
    BY <1>8 DEF Drop
  <2>2. at'[r] = "dropped" /\ \A q \in Requests \ {r} : at'[q] = at[q]
    BY <1>1, <2>1, AtMoves DEF Answered
  <2> DEFINE k == CHOOSE i \in DOMAIN line : line[i] = r
             n == Len(line)
  <2>a. k \in 1 .. n /\ line[k] = r
    BY <1>2, <1>3, <2>1 DEF AtTheSlot
  <2>b. /\ line' \in Seq(Requests) /\ DOMAIN line' = 1 .. n - 1
        /\ \A i \in 1 .. n - 1 : line'[i] = IF i < k THEN line[i] ELSE line[i + 1]
    <3>1. line' = SubSeq(line, 1, k - 1) \o SubSeq(line, k + 1, n)
      BY <2>1 DEF Without
    <3> HIDE DEF k
    <3> QED
      BY <1>2, <2>a, <3>1, TakenOut, LenProperties
  <2>3. LineTypes'
    <3> HIDE DEF k
    <3> QED
      BY <2>2, <2>a, <2>b, LineCloses DEF AtTheSlot
  <2> QED
    BY <1>1, <1>4, <2>1, <2>3
<1> QED
  BY <1>5, <1>6, <1>7, <1>8

LEMMA RecordsType ==
  ASSUME TypeInv, NEW r \in Requests, Record(r) \/ Take(r) \/ Sign(r) \/ Restore(r)
  PROVE  TypeInv'
<1>0. /\ at[r] \in {"sent", "verified", "ended", "taken"} /\ r \notin held
      /\ UNCHANGED <<fileVars, asked, how, crossed, spawned>> /\ outside' \in 0 .. MaxOutside
  <2>1. /\ at[r] \in {"sent", "verified", "ended", "taken"}
        /\ UNCHANGED <<fileVars, asked, how, crossed, spawned>> /\ (outside' = outside \/ Outside)
    BY DEF Record, Take, Sign, Restore
  <2>2. at[r] \notin {"prepared", "open", "checked"}
    BY <2>1
  <2> QED
    BY <2>1, <2>2, OutsideCounts DEF TypeInv, TypeOK
<1>1. /\ journal \in [Sessions -> Seq(Requests)] /\ taken \in [Requests -> Seq(Requests)]
      /\ signed \in [Sessions -> Seq(Requests)] /\ how \in [Requests -> {"none", "ran", "not_run"}]
      /\ spawned \subseteq Requests /\ at \in [Requests -> {"unsent"} \cup InFlight \cup Answered]
  BY DEF TypeInv, TypeOK
<1>2. at[r] \in InFlight /\ Session(r) \in Sessions
  BY <1>0, AsksOfASession DEF InFlight
<1>3. journal[Session(r)] \in Seq(Requests) /\ signed[Session(r)] \in Seq(Requests) /\ taken[r] \in Seq(Requests)
  BY <1>1, <1>2
<1>4. ASSUME NEW to \in {"done", "taken", "signed", "failed"}, Move(r, to),
             to \in AtTheReceipt => Kind(r) = "receipt",
             journal' \in [Sessions -> Seq(Requests)], taken' \in [Requests -> Seq(Requests)],
             signed' \in [Sessions -> Seq(Requests)], LineTypes'
      PROVE  TypeInv'
  BY <1>0, <1>1, <1>2, <1>4, RecordStepTypes DEF InFlight, Answered, AtTheFile, AtTheSlot
<1>5. CASE Record(r)
  <2>1. /\ Move(r, "done") /\ journal' = [journal EXCEPT ![Session(r)] = Append(@, r)]
        /\ line' = GiveBack(r) /\ UNCHANGED <<taken, signed>> /\ at[r] \in {"verified", "ended"}
    BY <1>5 DEF Record
  <2>2. at'[r] = "done" /\ \A q \in Requests \ {r} : at'[q] = at[q]
    BY <1>1, <2>1, AtMoves DEF Answered
  <2>3. journal' \in [Sessions -> Seq(Requests)]
    <3>1. Append(journal[Session(r)], r) \in Seq(Requests)
      BY <1>3, AppendProperties
    <3> QED
      BY <1>1, <2>1, <3>1
  <2>4. LineTypes'
    <3>0. /\ line \in Seq(Requests) /\ DOMAIN line = 1 .. Len(line) /\ Len(line) \in Nat
          /\ \A i \in 1 .. Len(line) : line[i] \in Requests
      BY LineIs
    <3>1. CASE line # <<>> /\ Head(line) = r
      <4>1. line' = Tail(line)
        BY <2>1, <3>1 DEF GiveBack
      <4>2. 1 \in 1 .. Len(line) /\ line[1] = r
        BY <3>0, <3>1, HeadTailProperties, EmptySeq
      <4>3. /\ line' \in Seq(Requests) /\ Len(line') = Len(line) - 1 /\ DOMAIN line' = 1 .. Len(line')
            /\ \A i \in 1 .. Len(line) - 1 : line'[i] = line[i + 1]
        BY <3>0, <3>1, <4>1, HeadTailProperties, LenProperties
      <4> QED
        BY <2>2, <3>0, <4>2, <4>3, LineCloses DEF AtTheSlot
    <3>2. CASE ~(line # <<>> /\ Head(line) = r)
      <4>1. line' = line
        BY <2>1, <3>2 DEF GiveBack
      <4>2. \A i \in 1 .. Len(line) : line[i] # r
        <5> SUFFICES ASSUME NEW i \in 1 .. Len(line), line[i] = r PROVE FALSE
          OBVIOUS
        <5>1. i = 1
          BY <2>1, <3>0 DEF TypeInv, TypeOK
        <5>2. line # <<>> /\ Head(line) = line[1]
          BY <3>0, EmptySeq
        <5> QED
          BY <3>2, <5>1, <5>2
      <4>3. \A q \in Requests : at'[q] \in AtTheSlot => at[q] \in AtTheSlot
        BY <2>2 DEF AtTheSlot
      <4>4. \A i \in 1 .. Len(line) : at'[line[i]] = at[line[i]]
        BY <2>2, <3>0, <4>2
      <4> QED
        BY <3>0, <4>1, <4>3, <4>4 DEF TypeInv, TypeOK, LineTypes, InLineOnce
    <3> QED
      BY <3>1, <3>2
  <2> QED
    BY <1>1, <1>4, <2>1, <2>3, <2>4 DEF AtTheReceipt
<1>6. ASSUME Take(r) \/ Sign(r) \/ Restore(r) PROVE LineTypes'
  <2>1. /\ at[r] \notin {"waiting", "running", "lingering", "ended"} /\ UNCHANGED line
        /\ \E to \in {"taken", "signed", "failed"} : Move(r, to)
    BY <1>6 DEF Take, Sign, Restore
  <2>2. PICK to \in {"taken", "signed", "failed"} : at'[r] = to /\ \A q \in Requests \ {r} : at'[q] = at[q]
    BY <1>1, <2>1, AtMoves DEF InFlight, Answered
  <2> QED
    BY <2>1, <2>2, LineRests DEF AtTheSlot
<1>7. CASE Take(r)
  <2>1. /\ Move(r, "taken") /\ Kind(r) = "receipt" /\ UNCHANGED signed
        /\ taken' = [taken EXCEPT ![r] = journal[Session(r)]]
        /\ journal' = [journal EXCEPT ![Session(r)] = <<>>]
    BY <1>7 DEF Take
  <2>2. journal' \in [Sessions -> Seq(Requests)] /\ taken' \in [Requests -> Seq(Requests)]
    BY <1>1, <1>3, <2>1, EmptySeq
  <2> QED
    BY <1>1, <1>4, <1>6, <1>7, <2>1, <2>2
<1>8. CASE Sign(r)
  <2>1. /\ Move(r, "signed") /\ Kind(r) = "receipt" /\ UNCHANGED <<journal, taken>>
        /\ signed' = [signed EXCEPT ![Session(r)] = @ \o taken[r]]
    BY <1>8 DEF Sign, TypeInv, Fits, AtTheReceipt
  <2>2. signed' \in [Sessions -> Seq(Requests)]
    <3>1. signed[Session(r)] \o taken[r] \in Seq(Requests)
      BY <1>3, ConcatProperties
    <3> QED
      BY <1>1, <2>1, <3>1
  <2> QED
    BY <1>1, <1>4, <1>6, <1>8, <2>1, <2>2
<1>9. CASE Restore(r)
  <2>1. /\ Move(r, "failed") /\ UNCHANGED signed
        /\ journal' = [journal EXCEPT ![Session(r)] = taken[r] \o @]
        /\ taken' = [taken EXCEPT ![r] = <<>>]
    BY <1>9 DEF Restore
  <2>2. journal' \in [Sessions -> Seq(Requests)] /\ taken' \in [Requests -> Seq(Requests)]
    <3>1. taken[r] \o journal[Session(r)] \in Seq(Requests)
      BY <1>3, ConcatProperties
    <3> QED
      BY <1>1, <2>1, <3>1, EmptySeq
  <2> QED
    BY <1>1, <1>4, <1>6, <1>9, <2>1, <2>2 DEF AtTheReceipt
<1> QED
  BY <1>5, <1>7, <1>8, <1>9

LEMMA NextTypes == ASSUME TypeInv, [Next]_vars PROVE TypeInv'
<1>1. CASE Next
  <2>1. CASE \E r \in Requests : Send(r) \/ Serve(r) \/ Linger(r) \/ Fault(r) \/ Drop(r)
    BY <2>1, SendTypes, FileStepsType, SlotStepsType, RecordsType DEF Serve
  <2>2. CASE \E f \in Files : OutsideEdit(f)
    BY <2>2, EditsType
  <2> QED
    BY <1>1, <2>1, <2>2 DEF Next
<1>2. CASE UNCHANGED vars
  <2>1. TypeOK'
    BY <1>2 DEF vars, TypeInv, TypeOK, File
  <2> QED
    BY <1>2, <2>1 DEF vars, TypeInv, Fits, Kind, HandlesFit, InLineOnce
<1> QED
  BY <1>1, <1>2

LEMMA InitTypes == ASSUME Init PROVE TypeInv
<1>1. disk \in [Files -> Contents] /\ line = <<>> /\ line \in Seq(Requests) /\ DOMAIN line = {}
  BY Names, EmptySeq DEF Init
<1>2. TypeOK
  BY <1>1, Names, EmptySeq DEF Init, TypeOK, InFlight, Answered
<1>3. \A r \in Requests : at[r] = "unsent"
  BY DEF Init
<1>4. DOMAIN asked = Requests /\ held = {}
  BY DEF Init
<1> QED
  BY <1>1, <1>2, <1>3, <1>4
     DEF TypeInv, Fits, HandlesFit, InLineOnce, AtTheFile, AtTheSlot, AtTheReceipt

\* For any requests: the variables keep their types, a handle is held only by a request
\* that still uses it, and the slot's line is the commands that wait or run.
THEOREM TypeCorrect == Spec => []TypeOK
<1>1. Init => TypeInv
  BY InitTypes
<1>2. TypeInv /\ [Next]_vars => TypeInv'
  BY NextTypes
<1>3. TypeInv => TypeOK
  BY DEF TypeInv
<1> QED
  BY <1>1, <1>2, <1>3, PTL DEF Spec

--------------------------------------------------------------------------------
(* No effect is lost or doubled.                                              *)

LEMMA Placed ==
  ASSUME NEW S, NEW q \in Seq(S), NEW p \in Seq(S), NEW r
  PROVE  /\ Never(r, p) /\ Never(r, q) => Never(r, p \o q)
         /\ Once(r, p) /\ Never(r, q) => Once(r, p \o q)
         /\ Never(r, p) /\ Once(r, q) => Once(r, p \o q)
<1> DEFINE c == p \o q
<1>1. /\ c \in Seq(S) /\ Len(c) = Len(p) + Len(q)
      /\ \A i \in 1 .. Len(p) + Len(q) : c[i] = IF i <= Len(p) THEN p[i] ELSE q[i - Len(p)]
  BY ConcatProperties
<1>2. /\ Len(p) \in Nat /\ Len(q) \in Nat /\ DOMAIN p = 1 .. Len(p) /\ DOMAIN q = 1 .. Len(q)
      /\ DOMAIN c = 1 .. Len(p) + Len(q)
  BY <1>1, LenProperties
<1> HIDE DEF c
<1>3. \A i \in 1 .. Len(p) : i \in DOMAIN c /\ c[i] = p[i]
  BY <1>1, <1>2
<1>4. \A i \in 1 .. Len(q) : Len(p) + i \in DOMAIN c /\ c[Len(p) + i] = q[i]
  <2> SUFFICES ASSUME NEW i \in 1 .. Len(q) PROVE Len(p) + i \in DOMAIN c /\ c[Len(p) + i] = q[i]
    OBVIOUS
  <2>1. /\ Len(p) + i \in 1 .. Len(p) + Len(q) /\ ~(Len(p) + i <= Len(p))
        /\ (Len(p) + i) - Len(p) = i
    BY <1>2
  <2> QED
    BY <1>1, <1>2, <2>1
<1>5. \A i \in DOMAIN c : \/ i \in 1 .. Len(p) /\ c[i] = p[i]
                          \/ i - Len(p) \in 1 .. Len(q) /\ c[i] = q[i - Len(p)]
  BY <1>1, <1>2
<1>6. Never(r, p) /\ Never(r, q) => Never(r, c)
  BY <1>2, <1>5 DEF Never
<1>7. Once(r, p) /\ Never(r, q) => Once(r, c)
  BY <1>2, <1>3, <1>5 DEF Once, Never
<1>8. Never(r, p) /\ Once(r, q) => Once(r, c)
  <2> SUFFICES ASSUME Never(r, p), Once(r, q) PROVE Once(r, c)
    OBVIOUS
  <2>1. PICK i \in 1 .. Len(q) : q[i] = r /\ \A j \in 1 .. Len(q) : q[j] = r => j = i
    BY <1>2 DEF Once
  <2>2. \A j \in DOMAIN c : c[j] = r => j = Len(p) + i
    <3> SUFFICES ASSUME NEW j \in DOMAIN c, c[j] = r PROVE j = Len(p) + i
      OBVIOUS
    <3>1. j - Len(p) \in 1 .. Len(q) /\ q[j - Len(p)] = r
      BY <1>2, <1>5 DEF Never
    <3>2. j - Len(p) = i
      BY <2>1, <3>1
    <3> QED
      BY <1>2, <3>2
  <2> QED
    BY <1>4, <2>1, <2>2 DEF Once
<1> QED
  BY <1>6, <1>7, <1>8 DEF c

LEMMA PlacedLast ==
  ASSUME NEW S, NEW q \in Seq(S), NEW e \in S, NEW r
  PROVE  /\ Never(e, q) => Once(e, Append(q, e))
         /\ r # e /\ Never(r, q) => Never(r, Append(q, e))
         /\ r # e /\ Once(r, q) => Once(r, Append(q, e))
<1>1. /\ Append(q, e) \in Seq(S) /\ Len(Append(q, e)) = Len(q) + 1 /\ Len(q) \in Nat
      /\ DOMAIN Append(q, e) = 1 .. Len(q) + 1 /\ DOMAIN q = 1 .. Len(q)
      /\ \A i \in 1 .. Len(q) : Append(q, e)[i] = q[i]
      /\ Append(q, e)[Len(q) + 1] = e
  BY AppendProperties, LenProperties
<1> DEFINE c == Append(q, e)
           n == Len(q)
<1> HIDE DEF c, n
<1>2. /\ n \in Nat /\ DOMAIN c = 1 .. n + 1 /\ DOMAIN q = 1 .. n /\ c[n + 1] = e /\ n + 1 \in 1 .. n + 1
      /\ \A i \in 1 .. n : c[i] = q[i] /\ i \in 1 .. n + 1
      /\ \A i \in 1 .. n + 1 : i \in 1 .. n \/ i = n + 1
  BY <1>1 DEF c, n
<1>3. Never(e, q) => Once(e, c)
  BY <1>2 DEF Never, Once
<1>4. r # e /\ Never(r, q) => Never(r, c)
  BY <1>2 DEF Never
<1>5. r # e /\ Once(r, q) => Once(r, c)
  BY <1>2 DEF Once
<1> QED
  BY <1>3, <1>4, <1>5 DEF c

LEMMA NothingPlaced == \A r : Never(r, <<>>)
  BY EmptySeq, LenProperties DEF Never

\* The places of an effect when a receipt takes the journal, is signed or gives it back.
LEMMA PlaceWhenTaken ==
  ASSUME NEW j, NEW g, NEW hand, NEW t, NEW u, NEW q, NEW r, InOneOf(r, j, g, hand, t), q \notin hand,
         u[q] = j, \A o \in hand : u[o] = t[o]
  PROVE  InOneOf(r, <<>>, g, hand \cup {q}, u)
  BY NothingPlaced DEF InOneOf

LEMMA PlaceWhenSigned ==
  ASSUME NEW S, NEW j, NEW g \in Seq(S), NEW hand, NEW t, NEW q \in hand, t[q] \in Seq(S), NEW r,
         InOneOf(r, j, g, hand, t)
  PROVE  InOneOf(r, j, g \o t[q], hand \ {q}, t)
  BY Placed DEF InOneOf

LEMMA PlaceWhenGivenBack ==
  ASSUME NEW S, NEW j \in Seq(S), NEW g, NEW hand, NEW t, NEW u, NEW q \in hand, t[q] \in Seq(S), NEW r,
         InOneOf(r, j, g, hand, t), \A o \in hand \ {q} : u[o] = t[o]
  PROVE  InOneOf(r, t[q] \o j, g, hand \ {q}, u)
  BY Placed DEF InOneOf

\* Steps that are about no record leave every effect where it is.
LEMMA KeptRests ==
  ASSUME TypeInv, KeptInv, NEW r \in Requests, at[r] \notin AtTheReceipt \cup {"done"},
         at'[r] \notin {"taken", "done"}, \A q \in Requests \ {r} : at'[q] = at[q],
         \A q \in Requests : at[q] # "unsent" => asked'[q] = asked[q], UNCHANGED recordVars
  PROVE  KeptInv'
<1>1. UNCHANGED <<journal, taken, signed>>
  BY DEF recordVars
<1>2. \A q \in Requests : at[q] \in AtTheReceipt \cup {"done"} => at'[q] = at[q] /\ asked'[q] = asked[q]
  BY DEF AtTheReceipt
<1>3. \A s \in Sessions : journal[s] \in Seq(Requests) /\ signed[s] \in Seq(Requests)
  BY DEF TypeInv, TypeOK
<1>4. \A q \in Requests : taken[q] \in Seq(Requests)
  BY DEF TypeInv, TypeOK
<1>5. ASSUME NEW q \in Seq(Requests), NEW s, EntriesOf(q, s) PROVE EntriesOf(q, s)'
  <2>1. \A i \in DOMAIN q : q[i] \in Requests
    BY LenProperties, ElementOfSeq
  <2> QED
    BY <1>2, <1>5, <2>1 DEF EntriesOf, Session
<1>6. EntriesInv'
  <2>1. \A s \in Sessions : EntriesOf(journal[s], s)' /\ EntriesOf(signed[s], s)'
    BY <1>1, <1>3, <1>5 DEF KeptInv, EntriesInv
  <2>2. ASSUME NEW q \in Requests, taken[q] # <<>> PROVE at'[q] \in AtTheReceipt /\ EntriesOf(taken[q], Session(q))'
    <3>1. at[q] \in AtTheReceipt /\ EntriesOf(taken[q], Session(q))
      BY <2>2 DEF KeptInv, EntriesInv
    <3>2. at'[q] = at[q] /\ Session(q)' = Session(q)
      BY <1>2, <3>1 DEF Session
    <3>3. EntriesOf(taken[q], Session(q))'
      BY <1>1, <1>2, <1>4, <3>1, <3>2, ElementOfSeq, LenProperties DEF EntriesOf, Session
    <3> QED
      BY <3>1, <3>2, <3>3
  <2> QED
    BY <1>1, <2>1, <2>2 DEF EntriesInv
<1>7. ASSUME NEW o \in Requests, at'[o] = "done" PROVE InOnePlace(o)'
  <2>1. at[o] = "done" /\ Session(o)' = Session(o) /\ InOnePlace(o)
    BY <1>2, <1>7 DEF KeptInv, Session
  <2>2. InHand(Session(o))' = InHand(Session(o))
    <3>1. \A q \in Requests : at'[q] = "taken" <=> at[q] = "taken"
      BY DEF AtTheReceipt
    <3>2. \A q \in Requests : at[q] = "taken" => asked'[q].session = asked[q].session
      BY <1>2 DEF AtTheReceipt
    <3> QED
      BY <2>1, <3>1, <3>2 DEF InHand, Session
  <2> QED
    BY <1>1, <2>1, <2>2 DEF InOnePlace
<1> QED
  BY <1>6, <1>7 DEF KeptInv

\* What entries are, in any step that only moves one request.
EntriesThen(q, s) == \A i \in DOMAIN q : at'[q[i]] = "done" /\ asked'[q[i]].session = s

LEMMA EntriesStay ==
  ASSUME NEW r \in Requests, at[r] # "done", \A q \in Requests \ {r} : at'[q] = at[q], UNCHANGED asked
  PROVE  \A q \in Seq(Requests) : \A s : EntriesOf(q, s) => Never(r, q) /\ EntriesThen(q, s)
<1> SUFFICES ASSUME NEW q \in Seq(Requests), NEW s, EntriesOf(q, s) PROVE Never(r, q) /\ EntriesThen(q, s)
  OBVIOUS
<1>1. \A i \in DOMAIN q : q[i] \in Requests
  BY LenProperties, ElementOfSeq
<1> QED
  BY <1>1 DEF EntriesOf, EntriesThen, Never, Session

LEMMA EntriesThere ==
  ASSUME UNCHANGED asked, \A s \in Sessions : EntriesThen(journal'[s], s) /\ EntriesThen(signed'[s], s),
         \A q \in Requests : taken'[q] # <<>> => at'[q] \in AtTheReceipt /\ EntriesThen(taken'[q], Session(q))
  PROVE  EntriesInv'
  BY DEF EntriesInv, EntriesOf, EntriesThen, Session

\* No entry is of a request that is not answered.
LEMMA EntriesOfOthers ==
  ASSUME TypeInv, KeptInv, NEW r \in Requests, at[r] # "done"
  PROVE  /\ \A s \in Sessions : Never(r, journal[s]) /\ Never(r, signed[s])
         /\ \A q \in Requests : Never(r, taken[q])
<1>1. /\ \A s \in Sessions : journal[s] \in Seq(Requests) /\ signed[s] \in Seq(Requests)
      /\ \A q \in Requests : taken[q] \in Seq(Requests)
  BY DEF TypeInv, TypeOK
<1>2. \A q \in Seq(Requests) : \A s : EntriesOf(q, s) => Never(r, q)
  BY DEF EntriesOf, Never
<1>3. \A s \in Sessions : Never(r, journal[s]) /\ Never(r, signed[s])
  BY <1>1, <1>2 DEF KeptInv, EntriesInv
<1>4. ASSUME NEW q \in Requests PROVE Never(r, taken[q])
  <2>1. CASE taken[q] = <<>>
    BY <2>1, NothingPlaced
  <2>2. CASE taken[q] # <<>>
    BY <1>1, <1>2, <2>2 DEF KeptInv, EntriesInv
  <2> QED
    BY <2>1, <2>2
<1> QED
  BY <1>3, <1>4

LEMMA ThenLast ==
  ASSUME NEW q \in Seq(Requests), NEW e \in Requests, NEW s, EntriesThen(q, s), at'[e] = "done", asked'[e].session = s
  PROVE  EntriesThen(Append(q, e), s)
<1> DEFINE n == Len(q)
           c == Append(q, e)
<1>1. /\ DOMAIN c = 1 .. n + 1 /\ DOMAIN q = 1 .. n /\ n \in Nat
      /\ (\A i \in 1 .. n : c[i] = q[i]) /\ c[n + 1] = e
  BY AppendProperties, LenProperties
<1> HIDE DEF n, c
<1>2. ASSUME NEW i \in 1 .. n + 1 PROVE at'[c[i]] = "done" /\ asked'[c[i]].session = s
  <2>1. CASE i \in 1 .. n
    BY <1>1, <2>1 DEF EntriesThen
  <2>2. CASE i = n + 1
    BY <1>1, <2>2
  <2> QED
    BY <1>1, <2>1, <2>2
<1>3. EntriesThen(c, s)
  BY <1>1, <1>2 DEF EntriesThen
<1> QED
  BY <1>3 DEF c

LEMMA ThenBoth ==
  ASSUME NEW p \in Seq(Requests), NEW q \in Seq(Requests), NEW s, EntriesThen(p, s), EntriesThen(q, s)
  PROVE  EntriesThen(p \o q, s)
<1> DEFINE c == p \o q
<1>1. /\ DOMAIN p = 1 .. Len(p) /\ DOMAIN q = 1 .. Len(q) /\ DOMAIN c = 1 .. Len(p) + Len(q)
      /\ Len(p) \in Nat /\ Len(q) \in Nat
      /\ \A i \in 1 .. Len(p) + Len(q) : c[i] = IF i <= Len(p) THEN p[i] ELSE q[i - Len(p)]
  BY ConcatProperties, LenProperties
<1> HIDE DEF c
<1>2. \A i \in DOMAIN c : (i \in DOMAIN p /\ c[i] = p[i]) \/ (i - Len(p) \in DOMAIN q /\ c[i] = q[i - Len(p)])
  BY <1>1
<1>3. EntriesThen(c, s)
  BY <1>2 DEF EntriesThen
<1> QED
  BY <1>3 DEF c

LEMMA RecordKeeps == ASSUME TypeInv, KeptInv, NEW r \in Requests, Record(r) PROVE KeptInv'
<1> DEFINE s == Session(r)
<1>1. /\ at[r] \in {"verified", "ended"} /\ Move(r, "done") /\ UNCHANGED <<asked, taken, signed>>
      /\ journal' = [journal EXCEPT ![s] = Append(@, r)]
  BY DEF Record
<1>2. at'[r] = "done" /\ at[r] # "done" /\ at[r] # "taken" /\ \A q \in Requests \ {r} : at'[q] = at[q]
  BY <1>1, AtMoves DEF TypeInv, TypeOK, Answered
<1>3. /\ journal \in [Sessions -> Seq(Requests)] /\ signed \in [Sessions -> Seq(Requests)]
      /\ taken \in [Requests -> Seq(Requests)] /\ s \in Sessions
  BY <1>1, AsksOfASession DEF TypeInv, TypeOK
<1>4. /\ \A o \in Sessions : EntriesThen(journal[o], o) /\ EntriesThen(signed[o], o)
      /\ \A q \in Requests : taken[q] # <<>> => at[q] \in AtTheReceipt /\ EntriesThen(taken[q], Session(q))
  <2>1. \A q \in Seq(Requests) : \A o : EntriesOf(q, o) => EntriesThen(q, o)
    BY <1>1, <1>2, EntriesStay
  <2> QED
    BY <1>3, <2>1 DEF KeptInv, EntriesInv
<1>5. /\ \A o \in Sessions : Never(r, journal[o]) /\ Never(r, signed[o])
      /\ \A q \in Requests : Never(r, taken[q])
  BY <1>2, EntriesOfOthers
<1>6. journal'[s] = Append(journal[s], r) /\ \A o \in Sessions \ {s} : journal'[o] = journal[o]
  BY <1>1, <1>3
<1>7. \A q \in Requests : Session(q)' = Session(q)
  BY <1>1 DEF Session
<1>8. \A o : InHand(o)' = InHand(o)
  BY <1>1, <1>2, <1>7 DEF InHand
<1>9. EntriesInv'
  <2>1. EntriesThen(journal'[s], s)
    BY <1>1, <1>2, <1>3, <1>4, <1>6, ThenLast DEF Session
  <2>2. \A o \in Sessions : EntriesThen(journal'[o], o) /\ EntriesThen(signed'[o], o)
    BY <1>1, <1>4, <1>6, <2>1
  <2>3. \A q \in Requests : taken'[q] # <<>> => at'[q] \in AtTheReceipt /\ EntriesThen(taken'[q], Session(q))
    <3>1. at[r] \notin AtTheReceipt
      BY <1>1 DEF AtTheReceipt
    <3> QED
      BY <1>1, <1>2, <1>4, <3>1
  <2> QED
    BY <1>1, <2>2, <2>3, EntriesThere
<1>10. ASSUME NEW o \in Requests, at'[o] = "done" PROVE InOnePlace(o)'
  <2>1. InOnePlace(o)' <=> InOneOf(o, journal'[Session(o)], signed[Session(o)], InHand(Session(o)), taken)
    BY <1>1, <1>7, <1>8 DEF InOnePlace
  <2>2. CASE o = r
    BY <1>3, <1>5, <1>6, <2>1, <2>2, PlacedLast DEF InOneOf, InHand
  <2>3. CASE o # r
    <3>1. at[o] = "done" /\ InOneOf(o, journal[Session(o)], signed[Session(o)], InHand(Session(o)), taken)
      BY <1>2, <1>10, <2>3 DEF KeptInv, InOnePlace
    <3>2. Session(o) \in Sessions
      BY <3>1, AsksOfASession
    <3>3. CASE Session(o) = s
      <4>1. /\ Never(o, journal[s]) => Never(o, journal'[s])
            /\ Once(o, journal[s]) => Once(o, journal'[s])
        BY <1>3, <1>6, <2>3, PlacedLast
      <4> QED
        BY <2>1, <3>1, <3>3, <4>1 DEF InOneOf
    <3>4. CASE Session(o) # s
      BY <1>6, <2>1, <3>1, <3>2, <3>4
    <3> QED
      BY <3>3, <3>4
  <2> QED
    BY <2>2, <2>3
<1> QED
  BY <1>9, <1>10 DEF KeptInv

LEMMA ReceiptStepsKeep ==
  ASSUME TypeInv, KeptInv, NEW r \in Requests, Take(r) \/ Sign(r) \/ Restore(r)
  PROVE  KeptInv'
<1> DEFINE s == Session(r)
           H(o) == {q \in Requests : at'[q] = "taken" /\ Session(q) = o}
<1>0. /\ at[r] \in {"sent", "taken"} /\ UNCHANGED asked
      /\ \E to \in {"taken", "signed", "failed"} : Move(r, to)
  BY DEF Take, Sign, Restore
<1>1. PICK to \in {"taken", "signed", "failed"} : Move(r, to)
  BY <1>0
<1>2. at'[r] = to /\ at[r] # "done" /\ at'[r] # "done" /\ \A q \in Requests \ {r} : at'[q] = at[q]
  BY <1>0, <1>1, AtMoves DEF TypeInv, TypeOK, InFlight, Answered
<1>3. /\ journal \in [Sessions -> Seq(Requests)] /\ signed \in [Sessions -> Seq(Requests)]
      /\ taken \in [Requests -> Seq(Requests)] /\ s \in Sessions
  BY <1>0, AsksOfASession DEF TypeInv, TypeOK
<1>4. /\ \A o \in Sessions : EntriesThen(journal[o], o) /\ EntriesThen(signed[o], o)
      /\ \A q \in Requests : taken[q] # <<>> => at[q] \in AtTheReceipt /\ EntriesThen(taken[q], Session(q))
  <2>1. \A q \in Seq(Requests) : \A o : EntriesOf(q, o) => EntriesThen(q, o)
    BY <1>0, <1>2, EntriesStay
  <2> QED
    BY <1>3, <2>1 DEF KeptInv, EntriesInv
<1>5. EntriesThen(<<>>, s) /\ EntriesThen(taken[r], s)
  <2>1. EntriesThen(<<>>, s)
    BY EmptySeq, LenProperties DEF EntriesThen
  <2> QED
    BY <1>4, <2>1
<1>6. \A q \in Requests : Session(q)' = Session(q)
  BY <1>0 DEF Session
<1>7. ASSUME NEW o \in Requests, at'[o] = "done"
      PROVE  /\ InOneOf(o, journal[Session(o)], signed[Session(o)], InHand(Session(o)), taken)
             /\ Session(o) \in Sessions
             /\ InOnePlace(o)' <=> InOneOf(o, journal'[Session(o)], signed'[Session(o)],
                                           H(Session(o)), taken')
  <2>1. at[o] = "done"
    BY <1>2, <1>7
  <2>2. Session(o) \in Sessions
    BY <2>1, AsksOfASession
  <2>3. InHand(Session(o))' = H(Session(o))
    BY <1>0 DEF InHand, Session
  <2>4. InOnePlace(o)' <=> InOneOf(o, journal'[Session(o)], signed'[Session(o)], InHand(Session(o))', taken')
    BY <1>6 DEF InOnePlace
  <2> QED
    BY <2>1, <2>2, <2>3, <2>4 DEF KeptInv, InOnePlace
<1> HIDE DEF H
<1>8. CASE Take(r)
  <2>1. /\ at[r] = "sent" /\ to = "taken" /\ UNCHANGED signed
        /\ taken' = [taken EXCEPT ![r] = journal[s]] /\ journal' = [journal EXCEPT ![s] = <<>>]
    BY <1>2, <1>8, AtMoves DEF Take, TypeInv, TypeOK, InFlight
  <2>2. /\ taken'[r] = journal[s] /\ \A q \in Requests \ {r} : taken'[q] = taken[q]
        /\ journal'[s] = <<>> /\ \A o \in Sessions \ {s} : journal'[o] = journal[o]
    BY <1>3, <2>1
  <2>3. /\ r \notin InHand(s) /\ H(s) = InHand(s) \cup {r}
        /\ \A o \in Sessions \ {s} : H(o) = InHand(o)
    BY <1>2, <2>1 DEF InHand, H
  <2>4. EntriesInv'
    <3>1. \A o \in Sessions : EntriesThen(journal'[o], o) /\ EntriesThen(signed'[o], o)
      BY <1>4, <1>5, <2>1, <2>2
    <3>2. ASSUME NEW q \in Requests, taken'[q] # <<>>
          PROVE at'[q] \in AtTheReceipt /\ EntriesThen(taken'[q], Session(q))
      <4>1. CASE q = r
        BY <1>2, <1>3, <1>4, <2>1, <2>2, <4>1 DEF AtTheReceipt
      <4>2. CASE q # r
        BY <1>2, <1>4, <2>2, <3>2, <4>2
      <4> QED
        BY <4>1, <4>2
    <3> QED
      BY <1>0, <3>1, <3>2, EntriesThere
  <2>5. ASSUME NEW o \in Requests, at'[o] = "done" PROVE InOnePlace(o)'
    <3>1. CASE Session(o) = s
      <4>1. \A q \in InHand(s) : taken'[q] = taken[q]
        BY <2>2, <2>3 DEF InHand
      <4>2. InOneOf(o, <<>>, signed[s], InHand(s) \cup {r}, taken')
        BY <1>7, <2>2, <2>3, <2>5, <3>1, <4>1, PlaceWhenTaken
      <4> QED
        BY <1>7, <2>1, <2>2, <2>3, <2>5, <3>1, <4>2
    <3>2. CASE Session(o) # s
      <4>1. \A q \in InHand(Session(o)) : taken'[q] = taken[q]
        BY <2>2, <3>2 DEF InHand
      <4> QED
        BY <1>7, <2>1, <2>2, <2>3, <2>5, <3>2, <4>1 DEF InOneOf
    <3> QED
      BY <3>1, <3>2
  <2> QED
    BY <2>4, <2>5 DEF KeptInv
<1>9. ASSUME Sign(r) \/ Restore(r)
      PROVE  /\ r \in InHand(s) /\ H(s) = InHand(s) \ {r} /\ to # "taken"
             /\ \A o \in Sessions \ {s} : H(o) = InHand(o)
  <2>1. at[r] = "taken" /\ to # "taken"
    BY <1>2, <1>9, AtMoves DEF Sign, Restore, TypeInv, TypeOK, Answered
  <2> QED
    BY <1>2, <2>1 DEF InHand, H
<1>10. CASE Sign(r)
  <2>1. /\ to = "signed" /\ UNCHANGED <<journal, taken>> /\ signed' = [signed EXCEPT ![s] = @ \o taken[r]]
    BY <1>2, <1>10, AtMoves DEF Sign, TypeInv, TypeOK, Answered
  <2>2. signed'[s] = signed[s] \o taken[r] /\ \A o \in Sessions \ {s} : signed'[o] = signed[o]
    BY <1>3, <2>1
  <2>4. EntriesInv'
    <3>1. EntriesThen(signed'[s], s)
      BY <1>3, <1>4, <1>5, <2>2, ThenBoth
    <3>2. \A o \in Sessions : EntriesThen(journal'[o], o) /\ EntriesThen(signed'[o], o)
      BY <1>4, <2>1, <2>2, <3>1
    <3>3. \A q \in Requests : taken'[q] # <<>> => at'[q] \in AtTheReceipt /\ EntriesThen(taken'[q], Session(q))
      BY <1>2, <1>4, <2>1 DEF AtTheReceipt
    <3> QED
      BY <1>0, <3>2, <3>3, EntriesThere
  <2>5. ASSUME NEW o \in Requests, at'[o] = "done" PROVE InOnePlace(o)'
    <3>1. CASE Session(o) = s
      <4>1. InOneOf(o, journal[s], signed[s] \o taken[r], InHand(s) \ {r}, taken)
        BY <1>3, <1>7, <1>9, <1>10, <2>5, <3>1, PlaceWhenSigned
      <4> QED
        BY <1>7, <1>9, <1>10, <2>1, <2>2, <2>5, <3>1, <4>1
    <3>2. CASE Session(o) # s
      BY <1>7, <1>9, <1>10, <2>1, <2>2, <2>5, <3>2
    <3> QED
      BY <3>1, <3>2
  <2> QED
    BY <2>4, <2>5 DEF KeptInv
<1>11. CASE Restore(r)
  <2>1. /\ UNCHANGED signed /\ journal' = [journal EXCEPT ![s] = taken[r] \o @]
        /\ taken' = [taken EXCEPT ![r] = <<>>]
    BY <1>11 DEF Restore
  <2>2. /\ taken'[r] = <<>> /\ \A q \in Requests \ {r} : taken'[q] = taken[q]
        /\ journal'[s] = taken[r] \o journal[s] /\ \A o \in Sessions \ {s} : journal'[o] = journal[o]
    BY <1>3, <2>1
  <2>4. EntriesInv'
    <3>1. EntriesThen(journal'[s], s)
      BY <1>3, <1>4, <1>5, <2>2, ThenBoth
    <3>2. \A o \in Sessions : EntriesThen(journal'[o], o) /\ EntriesThen(signed'[o], o)
      BY <1>4, <2>1, <2>2, <3>1
    <3>3. \A q \in Requests : taken'[q] # <<>> => at'[q] \in AtTheReceipt /\ EntriesThen(taken'[q], Session(q))
      BY <1>2, <1>4, <2>2
    <3> QED
      BY <1>0, <3>2, <3>3, EntriesThere
  <2>5. ASSUME NEW o \in Requests, at'[o] = "done" PROVE InOnePlace(o)'
    <3>0. \A q \in InHand(Session(o)) \ {r} : taken'[q] = taken[q]
      BY <2>2 DEF InHand
    <3>1. CASE Session(o) = s
      <4>1. InOneOf(o, taken[r] \o journal[s], signed[s], InHand(s) \ {r}, taken')
        BY <1>3, <1>7, <1>9, <1>11, <2>5, <3>0, <3>1, PlaceWhenGivenBack
      <4> QED
        BY <1>7, <1>9, <1>11, <2>1, <2>2, <2>5, <3>1, <4>1
    <3>2. CASE Session(o) # s
      <4>1. r \notin InHand(Session(o))
        BY <3>2 DEF InHand
      <4>2. \A q \in InHand(Session(o)) : taken'[q] = taken[q]
        BY <3>0, <4>1
      <4> QED
        BY <1>7, <1>9, <1>11, <2>1, <2>2, <2>5, <3>2, <4>2 DEF InOneOf
    <3> QED
      BY <3>1, <3>2
  <2> QED
    BY <2>4, <2>5 DEF KeptInv
<1> QED
  BY <1>8, <1>10, <1>11

LEMMA NextKeeps == ASSUME TypeInv, KeptInv, [Next]_vars PROVE KeptInv'
<1>1. ASSUME NEW r \in Requests, Send(r) PROVE KeptInv'
  <2>1. at[r] = "unsent" /\ Move(r, "sent") /\ UNCHANGED recordVars
    BY <1>1 DEF Send
  <2>2. at'[r] = "sent" /\ \A q \in Requests \ {r} : at'[q] = at[q]
    BY <2>1, AtMoves DEF TypeInv, TypeOK, InFlight
  <2>3. \A q \in Requests \ {r} : asked'[q] = asked[q]
    BY <1>1 DEF Send, TypeInv
  <2> QED
    BY <2>1, <2>2, <2>3, KeptRests DEF AtTheReceipt
<1>2. ASSUME NEW r \in Requests,
             \/ Prepare(r) \/ Open(r) \/ Write(r) \/ Verify(r) \/ Check(r) \/ Unlink(r) \/ Fault(r)
             \/ RefuseRun(r) \/ Wait(r) \/ Start(r) \/ Linger(r) \/ End(r) \/ Drop(r)
      PROVE  KeptInv'
  <2>1. at[r] \notin AtTheReceipt \cup {"done"} /\ UNCHANGED <<asked, recordVars>>
    BY <1>2, Zenon
       DEF Prepare, Open, Write, Verify, Check, Unlink, Fault, RefuseRun, Wait, Start, Linger,
         End, Drop, AtTheReceipt
  <2>2. PICK to \in (InFlight \cup Answered) \ {"taken", "done"} : Move(r, to)
    BY <1>2 DEF Prepare, Open, Write, Verify, Check, Unlink, Fault, RefuseRun, Wait, Start, Linger,
      End, Drop, InFlight, Answered
  <2>3. at'[r] = to /\ \A q \in Requests \ {r} : at'[q] = at[q]
    BY <2>2, AtMoves DEF TypeInv, TypeOK
  <2> QED
    BY <2>1, <2>2, <2>3, KeptRests
<1>3. ASSUME UNCHANGED <<at, asked, recordVars>> PROVE KeptInv'
  BY <1>3 DEF KeptInv, EntriesInv, EntriesOf, InOnePlace, InHand, Session, recordVars
<1>4. CASE Next
  <2>1. CASE \E r \in Requests : Send(r) \/ Serve(r) \/ Linger(r) \/ Fault(r) \/ Drop(r)
    BY <1>1, <1>2, <2>1, RecordKeeps, ReceiptStepsKeep DEF Serve
  <2>2. CASE \E f \in Files : OutsideEdit(f)
    BY <1>3, <2>2 DEF OutsideEdit
  <2> QED
    BY <1>4, <2>1, <2>2 DEF Next
<1> QED
  BY <1>3, <1>4 DEF vars, recordVars

LEMMA InitKept == ASSUME Init PROVE KeptInv
<1>1. \A s \in Sessions : EntriesOf(journal[s], s) /\ EntriesOf(signed[s], s)
  BY EmptySeq, LenProperties DEF Init, EntriesOf
<1>2. \A q \in Requests : taken[q] = <<>> /\ at[q] # "done"
  BY DEF Init
<1> QED
  BY <1>1, <1>2 DEF KeptInv, EntriesInv

LEMMA Counted ==
  ASSUME NEW S, NEW q \in Seq(S), NEW r
  PROVE  /\ Never(r, q) => At(r, q) = {} /\ Cardinality(At(r, q)) = 0
         /\ Once(r, q) => \E i : At(r, q) = {i} /\ Cardinality(At(r, q)) = 1
<1>1. Never(r, q) => At(r, q) = {}
  BY DEF Never, At
<1>2. Once(r, q) => \E i : At(r, q) = {i}
  BY DEF Once, At
<1> QED
  BY <1>1, <1>2, FS_EmptySet, FS_Singleton

LEMMA KeptCounts == ASSUME TypeInv, KeptInv PROVE EffectsAreKept
<1> SUFFICES ASSUME NEW r \in Requests, Session(r) \in Sessions
             PROVE  (IF at[r] = "done" THEN 1 ELSE 0)
                    = Cardinality(At(r, journal[Session(r)])) + Cardinality(At(r, signed[Session(r)]))
                      + Cardinality(UNION {{q} \X At(r, taken[q]) : q \in InHand(Session(r))})
  BY DEF EffectsAreKept
<1> DEFINE s == Session(r)
           U == UNION {{q} \X At(r, taken[q]) : q \in InHand(s)}
<1>1. /\ journal[s] \in Seq(Requests) /\ signed[s] \in Seq(Requests)
      /\ \A q \in Requests : taken[q] \in Seq(Requests)
  BY DEF TypeInv, TypeOK
<1>2. \A q \in InHand(s) : q \in Requests
  BY DEF InHand
<1>3. ASSUME \A q \in InHand(s) : Never(r, taken[q]) PROVE Cardinality(U) = 0
  <2>1. \A q \in InHand(s) : At(r, taken[q]) = {}
    BY <1>1, <1>2, <1>3, Counted
  <2>2. U = {}
    BY <2>1
  <2> QED
    BY <2>2, FS_EmptySet
<1>4. ASSUME NEW q \in InHand(s), Once(r, taken[q]), \A o \in InHand(s) \ {q} : Never(r, taken[o])
      PROVE  Cardinality(U) = 1
  <2>1. PICK i : At(r, taken[q]) = {i}
    BY <1>1, <1>2, <1>4, Counted
  <2>2. \A o \in InHand(s) \ {q} : At(r, taken[o]) = {}
    BY <1>1, <1>2, <1>4, Counted
  <2>3. U = {<<q, i>>}
    BY <2>1, <2>2
  <2> QED
    BY <2>3, FS_Singleton
<1> HIDE DEF s, U
<1>5. CASE at[r] # "done"
  <2>1. Never(r, journal[s]) /\ Never(r, signed[s]) /\ \A q \in InHand(s) : Never(r, taken[q])
    BY <1>2, <1>5, EntriesOfOthers DEF s
  <2> QED
    BY <1>1, <1>3, <1>5, <2>1, Counted DEF s, U
<1>6. CASE at[r] = "done"
  <2>1. InOneOf(r, journal[s], signed[s], InHand(s), taken)
    BY <1>6 DEF KeptInv, InOnePlace, s
  <2>2. CASE \A q \in InHand(s) : Never(r, taken[q])
    <3>1. /\ Cardinality(U) = 0
          /\ \/ Cardinality(At(r, journal[s])) = 1 /\ Cardinality(At(r, signed[s])) = 0
             \/ Cardinality(At(r, journal[s])) = 0 /\ Cardinality(At(r, signed[s])) = 1
      <4>1. ~ \E q \in InHand(s) : Once(r, taken[q])
        BY <2>2 DEF Once, Never
      <4> QED
        BY <1>1, <1>3, <2>1, <2>2, <4>1, Counted DEF InOneOf
    <3> QED
      BY <1>6, <3>1 DEF s, U
  <2>3. CASE ~ \A q \in InHand(s) : Never(r, taken[q])
    <3>1. /\ Cardinality(U) = 1
          /\ Cardinality(At(r, journal[s])) = 0 /\ Cardinality(At(r, signed[s])) = 0
      BY <1>1, <1>4, <2>1, <2>3, Counted DEF InOneOf
    <3> QED
      BY <1>6, <3>1 DEF s, U
  <2> QED
    BY <2>2, <2>3
<1> QED
  BY <1>5, <1>6

\* For any requests, sessions, failures and edits: an effect whose reply was sent is in
\* its session's journal, in one receipt in the making or in one signed, once.
THEOREM NoEffectIsLost == Spec => []EffectsAreKept
<1>1. Init => TypeInv /\ KeptInv
  BY InitTypes, InitKept
<1>2. TypeInv /\ KeptInv /\ [Next]_vars => (TypeInv /\ KeptInv)'
  BY NextTypes, NextKeeps
<1>3. TypeInv /\ KeptInv => EffectsAreKept
  BY KeptCounts
<1> QED
  BY <1>1, <1>2, <1>3, PTL DEF Spec

--------------------------------------------------------------------------------
(* A receipt ends at what the disk holds.                                     *)

LedgerOf(g, hand, t, j) == g \o (IF hand = {} THEN <<>> ELSE t[CHOOSE q \in hand : TRUE]) \o j

LEMMA ChosenOfOne == \A q : (CHOOSE o \in {q} : TRUE) = q
  OBVIOUS

LEMMA LedgerTyped ==
  ASSUME NEW S, NEW g \in Seq(S), NEW hand, NEW t, \A q \in hand : t[q] \in Seq(S), NEW j \in Seq(S)
  PROVE  /\ LedgerOf(g, hand, t, j) \in Seq(S)
         /\ \A e \in S : LedgerOf(g, hand, t, Append(j, e)) = Append(LedgerOf(g, hand, t, j), e)
<1> DEFINE m == IF hand = {} THEN <<>> ELSE t[CHOOSE q \in hand : TRUE]
<1>1. m \in Seq(S)
  <2>1. CASE hand = {}
    BY <2>1, EmptySeq
  <2>2. CASE hand # {}
    <3>1. (CHOOSE q \in hand : TRUE) \in hand
      BY <2>2
    <3> QED
      BY <2>2, <3>1
  <2> QED
    BY <2>1, <2>2
<1> HIDE DEF m
<1>2. g \o m \in Seq(S) /\ (g \o m) \o j \in Seq(S)
  BY <1>1, ConcatProperties
<1>3. ASSUME NEW e \in S PROVE (g \o m) \o Append(j, e) = Append((g \o m) \o j, e)
  <2>1. <<e>> \in Seq(S) /\ Append(j, e) = j \o <<e>> /\ Append((g \o m) \o j, e) = ((g \o m) \o j) \o <<e>>
    BY <1>2, AppendIsConcat
  <2> QED
    BY <1>2, <2>1, ConcatAssociative
<1> QED
  BY <1>2, <1>3 DEF LedgerOf, m

\* A ledger while no receipt is in the making.
LEMMA LedgerOfNone ==
  ASSUME NEW g \in Seq(Requests), NEW hand, NEW t, NEW j, hand = {}
  PROVE  LedgerOf(g, hand, t, j) = g \o j
<1>1. g \o <<>> = g
  BY ConcatEmptySeq
<1> QED
  BY <1>1 DEF LedgerOf

LEMMA LedgerIs == \A s : Ledger(s) = LedgerOf(signed[s], InHand(s), taken, journal[s])
  BY DEF Ledger, LedgerOf

HandThen(s) == {q \in Requests : at'[q] = "taken" /\ asked'[q].session = s}

LEMMA LedgerThen ==
  ASSUME NEW r PROVE Ledger(Session(r))'
                     = LedgerOf(signed'[asked'[r].session], HandThen(asked'[r].session), taken',
                                journal'[asked'[r].session])
  BY DEF Ledger, LedgerOf, InHand, Session, HandThen

\* Whose effects a ledger holds.
LEMMA LedgerHolds ==
  ASSUME TypeInv, KeptInv, NEW s \in Sessions
  PROVE  /\ Ledger(s) \in Seq(Requests)
         /\ \A i \in 1 .. Len(Ledger(s)) : Ledger(s)[i] \in Requests /\ at[Ledger(s)[i]] = "done"
<1>1. /\ journal[s] \in Seq(Requests) /\ signed[s] \in Seq(Requests)
      /\ \A q \in Requests : taken[q] \in Seq(Requests)
  BY DEF TypeInv, TypeOK
<1>2. \A q \in InHand(s) : taken[q] \in Seq(Requests)
  BY <1>1 DEF InHand
<1>3. Ledger(s) \in Seq(Requests)
  BY <1>1, <1>2, LedgerIs, LedgerTyped
<1> DEFINE D == {q \in Requests : at[q] = "done"}
<1>4. ASSUME NEW q \in Seq(Requests), NEW o, EntriesOf(q, o) PROVE q \in Seq(D)
  <2>1. \A i \in 1 .. Len(q) : q[i] \in D
    BY <1>4, LenProperties, ElementOfSeq DEF EntriesOf
  <2> HIDE DEF D
  <2> QED
    BY <2>1, LenProperties, IsASeq
<1>5. <<>> \in Seq(D)
  BY EmptySeq
<1> HIDE DEF D
<1>6. journal[s] \in Seq(D) /\ signed[s] \in Seq(D)
  BY <1>1, <1>4 DEF KeptInv, EntriesInv
<1>7. \A q \in InHand(s) : taken[q] \in Seq(D)
  <2> SUFFICES ASSUME NEW q \in InHand(s) PROVE taken[q] \in Seq(D)
    OBVIOUS
  <2>1. q \in Requests
    BY DEF InHand
  <2>2. CASE taken[q] = <<>>
    BY <1>5, <2>2
  <2>3. CASE taken[q] # <<>>
    BY <1>1, <1>4, <2>1, <2>3 DEF KeptInv, EntriesInv
  <2> QED
    BY <2>2, <2>3
<1>8. Ledger(s) \in Seq(D)
  BY <1>6, <1>7, LedgerIs, LedgerTyped
<1> QED
  BY <1>3, <1>8, ElementOfSeq DEF D

\* What is to be shown of a ledger after a step.
EndsThen(r, q, f) == \E i \in DOMAIN q : q[i] = r /\ \A j \in i + 1 .. Len(q) : asked'[q[j]].file # f

LEMMA EndsAfter ==
  ASSUME NEW f, NEW r, r = last'[f],
         LET s == asked'[r].session IN
         /\ r # "none" /\ at'[r] = "done" /\ r \notin crossed'
         /\ \A q \in crossed' : asked'[q].kind = "receipt" => asked'[q].session # s
         => EndsThen(r, LedgerOf(signed'[s], HandThen(s), taken', journal'[s]), f)
  PROVE  EndsWith(f)'
<1> SUFFICES ASSUME r # "none", at'[r] = "done", r \notin crossed',
                    \A q \in crossed' : asked'[q].kind = "receipt" => asked'[q].session # asked'[r].session
             PROVE  EndsAt(last[f], Ledger(Session(last[f])), f)'
  BY DEF EndsWith, Kind, Session
<1> DEFINE s == asked'[r].session
           L == LedgerOf(signed'[s], HandThen(s), taken', journal'[s])
<1>1. EndsThen(r, L, f)
  OBVIOUS
<1>2. Ledger(Session(last[f]))' = L
  BY DEF Ledger, LedgerOf, InHand, Session, HandThen
<1> HIDE DEF L
<1>3. EndsAt(last[f], Ledger(Session(last[f])), f)'
      <=> \E i \in {i \in DOMAIN (Ledger(Session(last[f]))') : (Ledger(Session(last[f]))')[i] = last'[f]} :
            \A j \in i + 1 .. Len(Ledger(Session(last[f]))') : asked'[(Ledger(Session(last[f]))')[j]].file # f
  BY DEF EndsAt, At, File
<1> QED
  BY <1>1, <1>2, <1>3 DEF EndsThen

LEMMA EndsBefore ==
  ASSUME NEW f \in Files, last[f] # "none", at[last[f]] = "done", last[f] \notin crossed,
         \A q \in crossed : Kind(q) = "receipt" => Session(q) # Session(last[f]),
         LedgerInv, TypeInv, KeptInv,
         \A q \in Requests : at[q] = "done" => asked'[q] = asked[q]
  PROVE  EndsThen(last[f], Ledger(Session(last[f])), f)
<1> DEFINE r == last[f]
           q == Ledger(Session(r))
<1>1. r \in Requests /\ Session(r) \in Sessions
  BY AsksOfASession DEF TypeInv, TypeOK
<1>2. EndsAt(r, q, f)
  BY DEF LedgerInv, EndsWith
<1>3. q \in Seq(Requests) /\ \A i \in 1 .. Len(q) : q[i] \in Requests /\ at[q[i]] = "done"
  BY <1>1, LedgerHolds
<1> HIDE DEF q, r
<1>4. PICK i \in DOMAIN q : q[i] = r /\ \A j \in i + 1 .. Len(q) : File(q[j]) # f
  BY <1>2 DEF EndsAt, At
<1>5. \A j \in i + 1 .. Len(q) : asked'[q[j]].file # f
  <2>1. i \in 1 .. Len(q) /\ Len(q) \in Nat
    BY <1>3, LenProperties
  <2>2. \A j \in i + 1 .. Len(q) : j \in 1 .. Len(q)
    BY <2>1
  <2> QED
    BY <1>3, <1>4, <2>2 DEF File
<1> QED
  BY <1>4, <1>5 DEF EndsThen, q, r

\* A step that is about no record leaves the end of every ledger as it is.
LEMMA EndsRest ==
  ASSUME TypeInv, KeptInv, LedgerInv, UNCHANGED recordVars, crossed \subseteq crossed',
         \A q \in Requests : at[q] # "unsent" => asked'[q] = asked[q],
         \A q \in Requests : at'[q] \in {"taken", "done"} \/ at[q] \in {"taken", "done"} => at'[q] = at[q],
         NEW f \in Files, last'[f] \in {last[f], "none"} \/ at'[last'[f]] # "done"
  PROVE  EndsWith(f)'
<1> DEFINE r == last[f]
           s == Session(r)
           L == LedgerOf(signed'[s], HandThen(s), taken', journal'[s])
<1>1. UNCHANGED <<journal, taken, signed>>
  BY DEF recordVars
<1>2. ASSUME last'[f] = r, r # "none", at'[r] = "done", r \notin crossed',
             \A q \in crossed' : asked'[q].kind = "receipt" => asked'[q].session # asked'[r].session
      PROVE  asked'[r].session = s /\ EndsThen(r, L, f)
  <2>1. r \in Requests /\ at[r] = "done" /\ r \notin crossed
    BY <1>2 DEF TypeInv, TypeOK
  <2>2. asked'[r] = asked[r] /\ s \in Sessions
    BY <2>1, AsksOfASession
  <2>3. \A q \in crossed : q \in Requests /\ asked'[q] = asked[q]
    BY DEF LedgerInv, CrossedInv, TypeInv, TypeOK
  <2>4. \A q \in crossed : Kind(q) = "receipt" => Session(q) # s
    BY <1>2, <2>2, <2>3 DEF Kind, Session
  <2>5. EndsThen(r, Ledger(s), f)
    BY <1>2, <2>1, <2>4, EndsBefore
  <2>6. HandThen(s) = InHand(s)
    BY DEF HandThen, InHand, Session
  <2>7. L = Ledger(s)
    BY <1>1, <2>6, LedgerIs
  <2> QED
    BY <2>2, <2>5, <2>7 DEF Session
<1>3. CASE last'[f] # r
  BY <1>3, EndsAfter
<1>4. CASE last'[f] = r
  <2>1. \A x, y : x = y /\ EndsThen(r, L, f) /\ y = s => EndsThen(r, LedgerOf(signed'[x], HandThen(x), taken', journal'[x]), f)
    OBVIOUS
  <2> HIDE DEF L, s, r
  <2> QED
    BY <1>2, <1>4, <2>1, EndsAfter
<1> QED
  BY <1>3, <1>4

LEMMA RecordEnds ==
  ASSUME TypeInv, KeptInv, LedgerInv, NEW x \in Requests, Record(x), NEW f \in Files
  PROVE  EndsWith(f)'
<1> DEFINE r == last[f]
           s == Session(r)
<1>1. /\ at[x] \in {"verified", "ended"} /\ Move(x, "done") /\ UNCHANGED <<asked, last, crossed, taken, signed>>
      /\ journal' = [journal EXCEPT ![Session(x)] = Append(@, x)]
  BY DEF Record, fileVars
<1>2. at'[x] = "done" /\ at[x] \notin {"done", "taken"} /\ \A q \in Requests \ {x} : at'[q] = at[q]
  BY <1>1, AtMoves DEF TypeInv, TypeOK, Answered
<1>3. Session(x) \in Sessions /\ journal \in [Sessions -> Seq(Requests)]
  BY <1>1, AsksOfASession DEF TypeInv, TypeOK
<1>4. SUFFICES ASSUME r # "none", at'[r] = "done", r \notin crossed,
                      \A q \in crossed : Kind(q) = "receipt" => Session(q) # s
               PROVE  EndsThen(r, LedgerOf(signed[s], HandThen(s), taken, journal'[s]), f)
  BY <1>1, EndsAfter DEF Kind, Session
<1>5. r \in Requests /\ at[r] # "unsent" /\ s \in Sessions
  <2>1. r \in Requests /\ at[r] # "unsent"
    BY <1>1, <1>2, <1>4 DEF TypeInv, TypeOK
  <2> QED
    BY <2>1, AsksOfASession
<1>6. HandThen(s) = InHand(s)
  BY <1>1, <1>2 DEF HandThen, InHand, Session
<1>7. /\ Ledger(s) \in Seq(Requests)
      /\ \A i \in 1 .. Len(Ledger(s)) : Ledger(s)[i] \in Requests /\ at[Ledger(s)[i]] = "done"
  BY <1>5, LedgerHolds
<1> DEFINE L == Ledger(s)
           n == Len(L)
<1>8. /\ Append(L, x) \in Seq(Requests) /\ Len(Append(L, x)) = n + 1 /\ DOMAIN Append(L, x) = 1 .. n + 1
      /\ DOMAIN L = 1 .. n /\ n \in Nat /\ Append(L, x)[n + 1] = x
      /\ \A i \in 1 .. n : Append(L, x)[i] = L[i]
  BY <1>7, AppendProperties, LenProperties
<1>9. CASE Session(x) = s
  <2>1. LedgerOf(signed[s], HandThen(s), taken, journal'[s]) = Append(L, x)
    <3>1. journal'[s] = Append(journal[s], x)
      BY <1>1, <1>3, <1>9
    <3>2. \A q \in InHand(s) : taken[q] \in Seq(Requests)
      BY DEF InHand, TypeInv, TypeOK
    <3>3. signed[s] \in Seq(Requests) /\ journal[s] \in Seq(Requests)
      BY <1>5 DEF TypeInv, TypeOK
    <3> QED
      BY <1>6, <3>1, <3>2, <3>3, LedgerIs, LedgerTyped
  <2> HIDE DEF L, n
  <2>2. CASE r = x
    <3>1. \A j \in (n + 1) + 1 .. n + 1 : FALSE
      BY <1>8
    <3>2. n + 1 \in 1 .. n + 1
      BY <1>8
    <3> QED
      BY <1>8, <2>1, <2>2, <3>1, <3>2 DEF EndsThen
  <2>3. CASE r # x
    <3>1. at[r] = "done"
      BY <1>2, <1>4, <1>5, <2>3
    <3>2. EndsThen(r, L, f)
      BY <1>1, <1>4, <3>1, EndsBefore DEF L
    <3>3. asked'[x].file # f
      <4>1. CASE at[x] = "verified"
        <5>1. File(x) # f
          BY <1>4, <2>3, <4>1 DEF LedgerInv, CrossedInv
        <5> QED
          BY <1>1, <5>1 DEF File
      <4>2. CASE at[x] = "ended"
        <5>1. Kind(x) = "run"
          BY <4>2 DEF TypeInv, Fits
        <5>2. File(x) = "none"
          BY <4>2, <5>1 DEF TypeInv, TypeOK, Asks, Kind, File
        <5> QED
          BY <1>1, <5>2, AppAssumption DEF File
      <4> QED
        BY <1>1, <4>1, <4>2
    <3>4. PICK i \in 1 .. n : L[i] = r /\ \A j \in i + 1 .. n : asked'[L[j]].file # f
      BY <1>8, <3>2 DEF EndsThen, n
    <3>5. \A j \in i + 1 .. n + 1 : asked'[Append(L, x)[j]].file # f
      <4> SUFFICES ASSUME NEW j \in i + 1 .. n + 1 PROVE asked'[Append(L, x)[j]].file # f
        OBVIOUS
      <4>1. CASE j = n + 1
        BY <1>8, <3>3, <4>1
      <4>2. CASE j # n + 1
        <5>1. j \in i + 1 .. n /\ j \in 1 .. n
          BY <1>8, <4>2
        <5> QED
          BY <1>8, <3>4, <5>1
      <4> QED
        BY <4>1, <4>2
    <3>6. i \in 1 .. n + 1 /\ Append(L, x)[i] = r
      BY <1>8, <3>4
    <3> QED
      BY <1>8, <2>1, <3>5, <3>6 DEF EndsThen
  <2> QED
    BY <2>2, <2>3
<1>10. CASE Session(x) # s
  <2>1. r # x /\ at[r] = "done"
    BY <1>2, <1>4, <1>5, <1>10
  <2>2. EndsThen(r, L, f)
    BY <1>1, <1>4, <2>1, EndsBefore
  <2>3. journal'[s] = journal[s]
    BY <1>1, <1>3, <1>5, <1>10
  <2> QED
    BY <1>6, <2>2, <2>3, LedgerIs
<1> QED
  BY <1>9, <1>10

LEMMA ReceiptStepsEnd ==
  ASSUME TypeInv, KeptInv, LedgerInv, NEW x \in Requests, Take(x) \/ Sign(x) \/ Restore(x), NEW f \in Files
  PROVE  EndsWith(f)'
<1> DEFINE r == last[f]
           s == Session(r)
<1>0. /\ at[x] \in {"sent", "taken"} /\ UNCHANGED <<asked, last, crossed>> /\ Kind(x) = "receipt"
      /\ \E to \in {"taken", "signed", "failed"} : Move(x, to)
  BY DEF Take, Sign, Restore, fileVars, TypeInv, Fits, AtTheReceipt
<1>1. PICK to \in {"taken", "signed", "failed"} : Move(x, to)
  BY <1>0
<1>2. at'[x] = to /\ at[x] # "done" /\ \A q \in Requests \ {x} : at'[q] = at[q]
  BY <1>0, <1>1, AtMoves DEF TypeInv, TypeOK, InFlight, Answered
<1>3. Session(x) \in Sessions /\ journal \in [Sessions -> Seq(Requests)] /\ signed \in [Sessions -> Seq(Requests)]
      /\ taken \in [Requests -> Seq(Requests)]
  BY <1>0, AsksOfASession DEF TypeInv, TypeOK
<1>4. SUFFICES ASSUME r # "none", at'[r] = "done", r \notin crossed,
                      \A q \in crossed : Kind(q) = "receipt" => Session(q) # s
               PROVE  EndsThen(r, LedgerOf(signed'[s], HandThen(s), taken', journal'[s]), f)
  BY <1>0, EndsAfter DEF Kind, Session
<1>5. r \in Requests /\ at[r] = "done" /\ s \in Sessions
  <2>1. r \in Requests /\ at[r] = "done"
    BY <1>0, <1>2, <1>4 DEF TypeInv, TypeOK
  <2> QED
    BY <2>1, AsksOfASession
<1>6. EndsThen(r, Ledger(s), f)
  BY <1>0, <1>4, <1>5, EndsBefore
<1>7. LedgerOf(signed'[s], HandThen(s), taken', journal'[s]) = Ledger(s)
  <2>1. CASE Session(x) = s
    <3>1. x \notin crossed
      BY <1>0, <1>4, <2>1
    <3>2. \A q \in InHand(s) : q = x
      <4> SUFFICES ASSUME NEW q \in InHand(s), q # x PROVE FALSE
        OBVIOUS
      <4>1. q \in Requests /\ at[q] = "taken" /\ Session(q) = s /\ Kind(q) = "receipt"
        BY DEF InHand, TypeInv, Fits, AtTheReceipt
      <4>2. at[q] \in InFlight /\ at[x] \in InFlight
        BY <1>0, <4>1 DEF InFlight
      <4> QED
        BY <1>0, <2>1, <3>1, <4>1, <4>2 DEF LedgerInv, CrossedInv
    <3>3. signed[s] \in Seq(Requests) /\ journal[s] \in Seq(Requests) /\ taken[x] \in Seq(Requests)
      BY <1>3, <1>5
    <3>4. CASE Take(x)
      <4>1. /\ at[x] = "sent" /\ to = "taken" /\ UNCHANGED signed
            /\ taken' = [taken EXCEPT ![x] = journal[s]] /\ journal' = [journal EXCEPT ![s] = <<>>]
        BY <1>2, <2>1, <3>4, AtMoves DEF Take, TypeInv, TypeOK, InFlight
      <4>2. taken'[x] = journal[s] /\ journal'[s] = <<>> /\ signed'[s] = signed[s]
        BY <1>3, <1>5, <4>1
      <4>3. InHand(s) = {}
        BY <3>2, <4>1 DEF InHand
      <4>4. HandThen(s) = {x}
        BY <1>0, <1>2, <2>1, <4>1, <4>3 DEF HandThen, InHand, Session
      <4>5. signed[s] \o journal[s] \in Seq(Requests)
        BY <3>3, ConcatProperties
      <4>6. (signed[s] \o journal[s]) \o <<>> = signed[s] \o journal[s]
        BY <4>5, ConcatEmptySeq
      <4>7. LedgerOf(signed[s], InHand(s), taken, journal[s]) = signed[s] \o journal[s]
        BY <3>3, <4>3, LedgerOfNone
      <4>8. LedgerOf(signed'[s], HandThen(s), taken', journal'[s]) = (signed'[s] \o taken'[x]) \o journal'[s]
        BY <4>4, ChosenOfOne DEF LedgerOf
      <4> QED
        BY <4>2, <4>6, <4>7, <4>8, LedgerIs
    <3>5. ASSUME Sign(x) \/ Restore(x) PROVE InHand(s) = {x} /\ HandThen(s) = {}
      <4>1. at[x] = "taken" /\ to # "taken"
        BY <1>2, <3>5, AtMoves DEF Sign, Restore, TypeInv, TypeOK, Answered
      <4>2. InHand(s) = {x}
        BY <2>1, <3>2, <4>1 DEF InHand
      <4> QED
        BY <1>0, <1>2, <4>1, <4>2 DEF HandThen, InHand, Session
    <3>6. ASSUME Sign(x) \/ Restore(x)
          PROVE  LedgerOf(signed[s], InHand(s), taken, journal[s]) = (signed[s] \o taken[x]) \o journal[s]
      <4>1. InHand(s) = {x}
        BY <3>5, <3>6
      <4> QED
        BY <4>1, ChosenOfOne DEF LedgerOf
    <3>7. CASE Sign(x)
      <4>1. UNCHANGED <<journal, taken>> /\ signed'[s] = signed[s] \o taken[x]
        BY <1>3, <1>5, <2>1, <3>7 DEF Sign
      <4>2. signed'[s] \in Seq(Requests)
        BY <3>3, <4>1, ConcatProperties
      <4>3. LedgerOf(signed'[s], HandThen(s), taken', journal'[s]) = signed'[s] \o journal'[s]
        BY <3>5, <3>7, <4>2, LedgerOfNone
      <4> QED
        BY <3>6, <3>7, <4>1, <4>3, LedgerIs
    <3>8. CASE Restore(x)
      <4>1. UNCHANGED signed /\ journal'[s] = taken[x] \o journal[s]
        BY <1>3, <1>5, <2>1, <3>8 DEF Restore
      <4>2. LedgerOf(signed'[s], HandThen(s), taken', journal'[s]) = signed'[s] \o journal'[s]
        <5>1. HandThen(s) = {} /\ signed'[s] \in Seq(Requests)
          BY <3>3, <3>5, <3>8, <4>1
        <5> QED
          BY <5>1, LedgerOfNone
      <4>3. \A a, b, c \in Seq(Requests) : (a \o b) \o c = a \o (b \o c)
        BY ConcatAssociative
      <4>4. (signed[s] \o taken[x]) \o journal[s] = signed[s] \o (taken[x] \o journal[s])
        BY <3>3, <4>3, Zenon
      <4> QED
        BY <3>6, <3>8, <4>1, <4>2, <4>4, LedgerIs
    <3> QED
      BY <3>4, <3>7, <3>8
  <2>2. CASE Session(x) # s
    <3>1. HandThen(s) = InHand(s) /\ x \notin InHand(s)
      BY <1>0, <1>2, <2>2 DEF HandThen, InHand, Session
    <3>2. signed'[s] = signed[s] /\ journal'[s] = journal[s]
      BY <1>3, <1>5, <2>2 DEF Take, Sign, Restore
    <3>3. \A q \in Requests \ {x} : taken'[q] = taken[q]
      BY <1>3 DEF Take, Sign, Restore
    <3>4. InHand(s) # {} => taken'[CHOOSE q \in InHand(s) : TRUE] = taken[CHOOSE q \in InHand(s) : TRUE]
      <4> SUFFICES ASSUME InHand(s) # {}
                   PROVE  taken'[CHOOSE q \in InHand(s) : TRUE] = taken[CHOOSE q \in InHand(s) : TRUE]
        OBVIOUS
      <4>1. (CHOOSE q \in InHand(s) : TRUE) \in InHand(s)
        OBVIOUS
      <4>2. InHand(s) \subseteq Requests \ {x}
        BY <3>1 DEF InHand
      <4> QED
        BY <3>3, <4>1, <4>2
    <3> QED
      BY <3>1, <3>2, <3>4, LedgerIs DEF LedgerOf
  <2> QED
    BY <2>1, <2>2
<1> QED
  BY <1>6, <1>7

\* What a step of a request in flight has to do to a file and its last change.
LEMMA LastAfter ==
  ASSUME TypeInv, LedgerInv, NEW r \in Requests, at[r] \in InFlight,
         \A q \in Requests \ {r} : at'[q] = at[q], UNCHANGED asked,
         at[r] = "verified" => at'[r] = "done",
         \A f \in Files : \/ last'[f] = "none"
                          \/ last'[f] = last[f] /\ disk'[f] = disk[f]
                          \/ last'[f] = r /\ f = File(r) /\ disk'[f] = Content(r) /\ at'[r] = "verified"
  PROVE  LastInv'
<1> SUFFICES ASSUME NEW f \in Files, last'[f] # "none"
             PROVE  /\ disk'[f] = asked'[last'[f]].content /\ asked'[last'[f]].file = f
                    /\ at'[last'[f]] \in {"verified", "done"}
  BY DEF LastInv, Content, File
<1>1. CASE last'[f] = last[f] /\ disk'[f] = disk[f]
  <2>1. /\ disk[f] = Content(last[f]) /\ File(last[f]) = f /\ at[last[f]] \in {"verified", "done"}
        /\ last[f] \in Requests
    BY <1>1 DEF LedgerInv, LastInv, TypeInv, TypeOK
  <2>2. at'[last[f]] \in {"verified", "done"}
    BY <2>1 DEF InFlight
  <2> QED
    BY <1>1, <2>1, <2>2 DEF Content, File
<1>2. CASE last'[f] = r /\ f = File(r) /\ disk'[f] = Content(r) /\ at'[r] = "verified"
  BY <1>2 DEF Content, File
<1> QED
  BY <1>1, <1>2

LEMMA CrossedAfter ==
  ASSUME TypeInv, LedgerInv, NEW r \in Requests, at[r] \in InFlight, at'[r] \in InFlight \cup Answered,
         \A q \in Requests \ {r} : at'[q] = at[q], UNCHANGED <<asked, crossed>>,
         \A f \in Files : last'[f] \in {"none", last[f]} \/ (last'[f] = r /\ f = File(r)),
         at'[r] = "verified" => last'[File(r)] = r
  PROVE  CrossedInv'
<1>1. /\ \A q, o \in Requests :
           q # o /\ at[q] \in InFlight /\ at[o] \in InFlight =>
             /\ File(q) # "none" /\ File(q) = File(o) => o \in crossed
             /\ Kind(q) = "receipt" /\ Kind(o) = "receipt" /\ Session(q) = Session(o) => o \in crossed
      /\ \A f \in Files, q \in Requests :
           last[f] # "none" /\ last[f] # q /\ at[q] = "verified" /\ File(q) = f => last[f] \in crossed
      /\ \A q \in crossed : at[q] # "unsent" /\ q \in Requests
  BY DEF LedgerInv, CrossedInv, TypeInv, TypeOK
<1>2. \A q \in Requests : at'[q] \in InFlight => at[q] \in InFlight
  OBVIOUS
<1>3. \A q \in Requests : Kind(q)' = Kind(q) /\ File(q)' = File(q) /\ Session(q)' = Session(q)
  BY DEF Kind, File, Session
<1>4. (\A q, o \in Requests :
         q # o /\ at[q] \in InFlight /\ at[o] \in InFlight =>
           /\ File(q) # "none" /\ File(q) = File(o) => o \in crossed
           /\ Kind(q) = "receipt" /\ Kind(o) = "receipt" /\ Session(q) = Session(o) => o \in crossed)'
  BY <1>1, <1>2, <1>3
<1>5. ASSUME NEW f \in Files, NEW q \in Requests,
             last'[f] # "none", last'[f] # q, at'[q] = "verified", File(q) = f
      PROVE  last'[f] \in crossed
  <2>1. q # r
    BY <1>5
  <2>2. at[q] = "verified" /\ at[q] \in InFlight
    BY <1>5, <2>1 DEF InFlight
  <2>3. CASE last'[f] = last[f]
    BY <1>1, <1>5, <2>2, <2>3
  <2>4. CASE last'[f] = r /\ f = File(r)
    BY <1>1, <1>5, <2>1, <2>2, <2>4, AppAssumption
  <2> QED
    BY <1>5, <2>3, <2>4
<1>6. \A q \in crossed : at'[q] # "unsent"
  BY <1>1 DEF InFlight, Answered
<1> QED
  BY <1>3, <1>4, <1>5, <1>6 DEF CrossedInv

LEMMA FileStepsEnd ==
  ASSUME TypeInv, KeptInv, LedgerInv, NEW r \in Requests,
         Prepare(r) \/ Open(r) \/ Write(r) \/ Verify(r) \/ Check(r) \/ Unlink(r) \/ Fault(r)
  PROVE  LedgerInv'
<1>1. /\ at[r] \in {"sent", "prepared", "open", "written", "checked"} /\ Kind(r) \in {"write", "remove"}
      /\ UNCHANGED <<asked, crossed, recordVars>>
  BY Zenon DEF Prepare, Open, Write, Verify, Check, Unlink, Fault, TypeInv, Fits, AtTheFile
<1>2. File(r) \in Files /\ Content(r) = IF Kind(r) = "write" THEN r ELSE "absent"
  BY <1>1, AsksOfAFile
<1>3. disk \in [Files -> Contents] /\ last \in [Files -> Requests \cup {"none"}]
  BY DEF TypeInv, TypeOK
<1>4. ASSUME NEW to \in (InFlight \cup Answered) \ {"taken", "done"}, Move(r, to),
             \/ UNCHANGED <<disk, last>> /\ to # "verified"
             \/ (\E c : Set(File(r), c)) /\ to # "verified"
             \/ /\ \A f \in Files \ {File(r)} : disk'[f] = disk[f] /\ last'[f] = last[f]
                /\ last'[File(r)] = r /\ disk'[File(r)] = Content(r) /\ to = "verified"
      PROVE  LedgerInv'
  <2>1. at'[r] = to /\ \A q \in Requests \ {r} : at'[q] = at[q]
    BY <1>4, AtMoves DEF TypeInv, TypeOK
  <2>2. \A f \in Files : \/ last'[f] = "none"
                         \/ last'[f] = last[f] /\ disk'[f] = disk[f]
                         \/ last'[f] = r /\ f = File(r) /\ disk'[f] = Content(r) /\ at'[r] = "verified"
    <3>1. CASE UNCHANGED <<disk, last>>
      BY <3>1
    <3>2. CASE \E c : Set(File(r), c)
      BY <1>3, <3>2 DEF Set
    <3>3. CASE /\ \A f \in Files \ {File(r)} : disk'[f] = disk[f] /\ last'[f] = last[f]
               /\ last'[File(r)] = r /\ disk'[File(r)] = Content(r) /\ to = "verified"
      BY <2>1, <3>3
    <3> QED
      BY <1>4, <3>1, <3>2, <3>3
  <2>3. at'[r] = "verified" => last'[File(r)] = r
    BY <1>4, <2>1
  <2>4. LastInv'
    BY <1>1, <2>1, <2>2, LastAfter DEF InFlight
  <2>5. CrossedInv'
    BY <1>1, <2>1, <2>2, <2>3, CrossedAfter DEF InFlight
  <2>6. ASSUME NEW f \in Files PROVE EndsWith(f)'
    <3>1. last'[f] \in {last[f], "none"} \/ at'[last'[f]] # "done"
      BY <2>1, <2>2
    <3> QED
      BY <1>1, <2>1, <3>1, EndsRest
  <2> QED
    BY <2>4, <2>5, <2>6 DEF LedgerInv
<1>5. CASE Prepare(r) \/ Check(r) \/ Fault(r)
  BY <1>4, <1>5 DEF Prepare, Check, Fault, InFlight, Answered, fileVars
<1>6. CASE Open(r)
  BY <1>4, <1>6 DEF Open, InFlight, Answered, fileVars
<1>7. CASE Write(r)
  BY <1>4, <1>7 DEF Write, InFlight, Answered
<1>8. CASE Verify(r)
  <2>1. CASE Move(r, "failed") /\ UNCHANGED last
    BY <1>4, <1>8, <2>1 DEF Verify, Answered
  <2>2. CASE disk[File(r)] = Content(r) /\ Move(r, "verified") /\ last' = [last EXCEPT ![File(r)] = r]
    <3>1. disk' = disk
      BY <1>8 DEF Verify
    <3> QED
      BY <1>2, <1>3, <1>4, <2>2, <3>1 DEF InFlight
  <2> QED
    BY <1>8, <2>1, <2>2 DEF Verify
<1>9. CASE Unlink(r)
  <2>1. CASE Move(r, "failed") /\ UNCHANGED <<disk, last>>
    BY <1>4, <2>1 DEF Answered
  <2>2. CASE /\ Move(r, "verified") /\ disk' = [disk EXCEPT ![File(r)] = "absent"]
             /\ last' = [last EXCEPT ![File(r)] = r]
    <3>1. Kind(r) = "remove"
      BY <1>9 DEF Unlink, TypeInv, Fits
    <3>2. Content(r) = "absent"
      BY <1>2, <3>1
    <3> QED
      BY <1>2, <1>3, <1>4, <2>2, <3>2 DEF InFlight
  <2> QED
    BY <1>9, <2>1, <2>2 DEF Unlink
<1> QED
  BY <1>5, <1>6, <1>7, <1>8, <1>9

LEMMA OtherStepsEnd ==
  ASSUME TypeInv, KeptInv, LedgerInv, NEW r \in Requests,
         RefuseRun(r) \/ Wait(r) \/ Start(r) \/ Linger(r) \/ End(r) \/ Drop(r) \/ Record(r)
         \/ Take(r) \/ Sign(r) \/ Restore(r)
  PROVE  LedgerInv'
<1>1. at[r] \in InFlight /\ UNCHANGED <<asked, crossed, disk, last>>
  BY Zenon DEF RefuseRun, Wait, Start, Linger, End, Drop, Record, Take, Sign, Restore, InFlight, fileVars
<1>2. PICK to \in (InFlight \cup Answered) \ {"verified"} : Move(r, to) /\ (at[r] = "verified" => to = "done")
  BY DEF RefuseRun, Wait, Start, Linger, End, Drop, Record, Take, Sign, Restore, InFlight, Answered
<1>3. at'[r] = to /\ \A q \in Requests \ {r} : at'[q] = at[q]
  BY <1>2, AtMoves DEF TypeInv, TypeOK
<1>4. LastInv'
  BY <1>1, <1>2, <1>3, LastAfter
<1>5. CrossedInv'
  BY <1>1, <1>2, <1>3, CrossedAfter
<1>6. ASSUME NEW f \in Files PROVE EndsWith(f)'
  <2>1. CASE RefuseRun(r) \/ Wait(r) \/ Start(r) \/ Linger(r) \/ End(r) \/ Drop(r)
    <3>1. UNCHANGED recordVars /\ at[r] \notin {"taken", "done"} /\ at'[r] \notin {"taken", "done"}
      <4>1. /\ UNCHANGED recordVars /\ at[r] \in {"sent", "waiting", "running", "lingering"}
            /\ \E go \in {"ended", "waiting", "running", "lingering", "dropped"} : Move(r, go)
        BY <2>1 DEF RefuseRun, Wait, Start, Linger, End, Drop
      <4> QED
        BY <4>1, AtMoves DEF TypeInv, TypeOK, InFlight, Answered
    <3> QED
      BY <1>1, <1>3, <3>1, EndsRest
  <2> QED
    BY <2>1, RecordEnds, ReceiptStepsEnd
<1> QED
  BY <1>4, <1>5, <1>6 DEF LedgerInv

LEMMA SendEnds ==
  ASSUME TypeInv, KeptInv, LedgerInv, NEW r \in Requests, Send(r)
  PROVE  LedgerInv'
<1>1. PICK ask \in Asks(r) :
        /\ asked' = [asked EXCEPT ![r] = ask]
        /\ crossed' = crossed \cup (IF Rivals(ask) = {} THEN {} ELSE Rivals(ask) \cup {r})
  BY DEF Send
<1>2. at[r] = "unsent" /\ Move(r, "sent") /\ UNCHANGED <<disk, last, recordVars>>
  BY DEF Send, fileVars
<1>3. at'[r] = "sent" /\ \A q \in Requests \ {r} : at'[q] = at[q]
  BY <1>2, AtMoves DEF TypeInv, TypeOK, InFlight
<1>4. asked'[r] = ask /\ \A q \in Requests \ {r} : asked'[q] = asked[q]
  BY <1>1 DEF TypeInv
<1>5. \A q \in Requests \ {r} : Kind(q)' = Kind(q) /\ File(q)' = File(q) /\ Session(q)' = Session(q)
                                /\ Content(q)' = Content(q)
  BY <1>4 DEF Kind, File, Session, Content
<1>6. /\ \A q, o \in Requests :
           q # o /\ at[q] \in InFlight /\ at[o] \in InFlight =>
             /\ File(q) # "none" /\ File(q) = File(o) => o \in crossed
             /\ Kind(q) = "receipt" /\ Kind(o) = "receipt" /\ Session(q) = Session(o) => o \in crossed
      /\ \A f \in Files, q \in Requests :
           last[f] # "none" /\ last[f] # q /\ at[q] = "verified" /\ File(q) = f => last[f] \in crossed
      /\ \A q \in crossed : at[q] # "unsent" /\ q \in Requests /\ q # r
      /\ \A f \in Files : last[f] # "none" =>
           /\ disk[f] = Content(last[f]) /\ File(last[f]) = f
           /\ at[last[f]] \in {"verified", "done"} /\ last[f] \in Requests \ {r}
  BY <1>2 DEF LedgerInv, CrossedInv, LastInv, TypeInv, TypeOK
<1>7. LastInv'
  <2> SUFFICES ASSUME NEW f \in Files, last[f] # "none"
               PROVE  /\ disk[f] = asked'[last[f]].content /\ asked'[last[f]].file = f
                      /\ at'[last[f]] \in {"verified", "done"}
    BY <1>2 DEF LastInv, Content, File
  <2> QED
    BY <1>3, <1>4, <1>6 DEF Content, File
<1>8. \A q \in Rivals(ask) : q \in Requests \ {r}
  BY <1>2 DEF Rivals, InFlight
<1>9. ASSUME NEW q \in Requests, NEW o \in Requests, q # o, at'[q] \in InFlight, at'[o] \in InFlight
      PROVE  /\ asked'[q].file # "none" /\ asked'[q].file = asked'[o].file => o \in crossed'
             /\ asked'[q].kind = "receipt" /\ asked'[o].kind = "receipt" /\ asked'[q].session = asked'[o].session
                => o \in crossed'
  <2>1. CASE q # r /\ o # r
    BY <1>1, <1>3, <1>4, <1>6, <1>9, <2>1 DEF Kind, File, Session
  <2>2. CASE q = r
    <3>1. /\ asked'[q].file # "none" /\ asked'[q].file = asked'[o].file => o \in Rivals(ask)
          /\ asked'[q].kind = "receipt" /\ asked'[o].kind = "receipt" /\ asked'[q].session = asked'[o].session
             => o \in Rivals(ask)
      BY <1>3, <1>4, <1>9, <2>2 DEF Rivals, Kind, File, Session
    <3> QED
      BY <1>1, <3>1
  <2>3. CASE o = r
    <3>1. /\ asked'[q].file # "none" /\ asked'[q].file = asked'[o].file => q \in Rivals(ask)
          /\ asked'[q].kind = "receipt" /\ asked'[o].kind = "receipt" /\ asked'[q].session = asked'[o].session
             => q \in Rivals(ask)
      BY <1>3, <1>4, <1>9, <2>3 DEF Rivals, Kind, File, Session
    <3> QED
      BY <1>1, <2>3, <3>1
  <2> QED
    BY <2>1, <2>2, <2>3
<1>10. ASSUME NEW f \in Files, NEW q \in Requests,
              last[f] # "none", last[f] # q, at'[q] = "verified", asked'[q].file = f
       PROVE  last[f] \in crossed'
  BY <1>1, <1>3, <1>4, <1>6, <1>10 DEF File
<1>11. \A q \in crossed' : at'[q] # "unsent"
  <2>1. \A q \in Rivals(ask) : at[q] # "unsent"
    BY DEF Rivals, InFlight
  <2> QED
    BY <1>1, <1>3, <1>6, <1>8, <2>1
<1>12. CrossedInv'
  BY <1>2, <1>9, <1>10, <1>11 DEF CrossedInv, Kind, File, Session
<1>13. ASSUME NEW f \in Files PROVE EndsWith(f)'
  BY <1>1, <1>2, <1>3, <1>4, <1>13, EndsRest
<1> QED
  BY <1>7, <1>12, <1>13 DEF LedgerInv

LEMMA StillEnds ==
  ASSUME TypeInv, KeptInv, LedgerInv, UNCHANGED <<asked, at, recordVars, crossed>>,
         \A f \in Files : last'[f] = "none" \/ (last'[f] = last[f] /\ disk'[f] = disk[f])
  PROVE  LedgerInv'
<1>1. LastInv'
  <2> SUFFICES ASSUME NEW f \in Files, last'[f] # "none"
               PROVE  /\ disk'[f] = asked[last'[f]].content /\ asked[last'[f]].file = f
                      /\ at[last'[f]] \in {"verified", "done"}
    BY DEF LastInv, Content, File
  <2> QED
    BY DEF LedgerInv, LastInv, Content, File
<1>2. CrossedInv'
  <2>1. \A q, o \in Requests :
          q # o /\ at[q] \in InFlight /\ at[o] \in InFlight =>
            /\ File(q) # "none" /\ File(q) = File(o) => o \in crossed
            /\ Kind(q) = "receipt" /\ Kind(o) = "receipt" /\ Session(q) = Session(o) => o \in crossed
    BY DEF LedgerInv, CrossedInv
  <2>2. \A f \in Files, q \in Requests :
          last'[f] # "none" /\ last'[f] # q /\ at[q] = "verified" /\ File(q) = f => last'[f] \in crossed
    BY DEF LedgerInv, CrossedInv
  <2>3. \A q \in crossed : at[q] # "unsent"
    BY DEF LedgerInv, CrossedInv
  <2> QED
    BY <2>1, <2>2, <2>3 DEF CrossedInv, Kind, File, Session
<1>3. ASSUME NEW f \in Files PROVE EndsWith(f)'
  BY EndsRest
<1> QED
  BY <1>1, <1>2, <1>3 DEF LedgerInv

LEMMA NextEnds == ASSUME TypeInv, KeptInv, LedgerInv, [Next]_vars PROVE LedgerInv'
<1>1. CASE Next
  <2>1. CASE \E r \in Requests : Send(r) \/ Serve(r) \/ Linger(r) \/ Fault(r) \/ Drop(r)
    BY <2>1, SendEnds, FileStepsEnd, OtherStepsEnd DEF Serve
  <2>2. ASSUME NEW f \in Files, OutsideEdit(f) PROVE LedgerInv'
    <3>1. UNCHANGED <<asked, at, recordVars, crossed>> /\ \E c : Set(f, c)
      BY <2>2 DEF OutsideEdit
    <3>2. \A g \in Files : last'[g] = "none" \/ (last'[g] = last[g] /\ disk'[g] = disk[g])
      BY <3>1 DEF Set, TypeInv, TypeOK
    <3> QED
      BY <3>1, <3>2, StillEnds
  <2> QED
    BY <1>1, <2>1, <2>2 DEF Next
<1>2. CASE UNCHANGED vars
  BY <1>2, StillEnds DEF vars, recordVars
<1> QED
  BY <1>1, <1>2

LEMMA InitLedger == ASSUME Init PROVE LedgerInv
<1>1. (\A f \in Files : last[f] = "none") /\ crossed = {} /\ \A r \in Requests : at[r] = "unsent"
  BY DEF Init
<1> QED
  BY <1>1 DEF LedgerInv, LastInv, CrossedInv, EndsWith, InFlight

\* For any requests, files, edits by others and failures: a file that nobody else has
\* changed since holds what the last effect on it in the session's receipts and journal
\* says, unless requests about it, or receipts of the session, overlapped.
THEOREM ReceiptsEndThere == Spec => []ReceiptsEndAtTheDisk
<1>1. Init => TypeInv /\ KeptInv /\ LedgerInv
  BY InitTypes, InitKept, InitLedger
<1>2. TypeInv /\ KeptInv /\ LedgerInv /\ [Next]_vars => (TypeInv /\ KeptInv /\ LedgerInv)'
  BY NextTypes, NextKeeps, NextEnds
<1>3. LedgerInv => ReceiptsEndAtTheDisk
  BY DEF LedgerInv, LastInv, EndsWith, EndsAt, ReceiptsEndAtTheDisk
<1> QED
  BY <1>1, <1>2, <1>3, PTL DEF Spec
================================================================================

---------------------------- MODULE SurroundingsProofs ----------------------------
(***************************************************************************)
(* Proofs about the places of Surroundings, for any number of threads,        *)
(* windows, requests, processes, daemons and hands.  Each place has an         *)
(* invariant of its own; a step elsewhere leaves its variables alone.           *)
(***************************************************************************)
EXTENDS Surroundings, SequenceTheorems, FiniteSetTheorems, WellFoundedInduction, TLAPS

--------------------------------------------------------------------------------
(* ReceiptCheck.                                                              *)

\* A signature was made by whose it says over what it says, or is none.
Genuine(receipt) ==
  receipt.kind = "receipt" =>
    \/ receipt.signature = Unsigned
    \/ <<receipt.signature.by, receipt.signature.over>> \in signed

\* A check has the five parts of one.
CheckShape ==
  check = [step |-> check.step, given |-> check.given, tool |-> check.tool,
           read |-> check.read, says |-> check.says]

CheckInv ==
  /\ CheckShape
  /\ check.given \in Devices \cup {"none", "malformed"}
  /\ check.step \in {"form", "signature"} => check.read.kind = "receipt"
  /\ check.step \in {"read", "form", "signature"} => check.says = "none"
  /\ Genuine(receiptFile) /\ Genuine(check.read)
  /\ VerifiedMeansSigned

LEMMA CheckBegins == CheckInit => CheckInv
  BY CheckAssumption DEF CheckInit, CheckInv, CheckShape, NoCheck, Absent, Genuine, VerifiedMeansSigned

LEMMA CheckRests == CheckInv /\ UNCHANGED checkVars => CheckInv'
  BY DEF CheckInv, checkVars, CheckShape, Genuine, VerifiedMeansSigned

\* Who verifies against a device's key holds a receipt that device signed.
LEMMA VerifiedIsGenuine ==
  ASSUME NEW receipt, Genuine(receipt), receipt.kind = "receipt",
         NEW d, d # "none", VerifySignature(receipt, d)
  PROVE  <<d, receipt.payload>> \in signed
  BY DEF Genuine, VerifySignature, Unsigned

LEMMA CheckGoesOn == CheckInv /\ CheckNext => CheckInv'
<1> SUFFICES ASSUME CheckInv, CheckNext PROVE CheckInv'
  OBVIOUS
<1> USE CheckAssumption
<1>1. CASE SignReceipt
  <2>1. PICK d \in Devices, b \in Bodies :
          LET payload == [body |-> b, form |-> "sound"]
          IN /\ receiptFile' = Receipt(payload, [by |-> d, over |-> payload])
             /\ signed' = signed \cup {<<d, payload>>}
    BY <1>1 DEF SignReceipt
  <2>2. Genuine(receiptFile)'
    BY <2>1 DEF Receipt, Genuine
  <2> QED
    BY <1>1, <2>1, <2>2 DEF SignReceipt, CheckInv, CheckShape, Genuine, VerifiedMeansSigned
<1>2. CASE ChangeReceipt
  <2>1. Genuine(receiptFile)'
    BY <1>2 DEF ChangeReceipt, CheckInv, Genuine, Receipt, Unsigned, Absent, Torn
  <2> QED
    BY <1>2, <2>1 DEF ChangeReceipt, CheckInv, CheckShape, Genuine, VerifiedMeansSigned
<1>3. CASE StartCheck
  <2>1. PICK tool \in {"vitna", "standalone"}, k \in Devices \cup {"none", "malformed"} :
          check' = [step |-> "read", given |-> k, tool |-> tool, read |-> Absent, says |-> "none"]
    BY <1>3 DEF StartCheck, NoCheck
  <2> QED
    BY <1>3, <2>1 DEF StartCheck, Absent, CheckInv, CheckShape, Genuine, VerifiedMeansSigned
<1>4. CASE ReadReceipt
  BY <1>4 DEF ReadReceipt, Says, CheckInv, CheckShape, Genuine, VerifiedMeansSigned
<1>5. CASE CheckForm
  BY <1>5 DEF CheckForm, Says, CheckInv, CheckShape, Genuine, VerifiedMeansSigned
<1>6. CASE CheckSignature
  <2>1. PICK what : Says(what) /\ (what = "verified" =>
          <<IF check.given = "none" THEN Here ELSE check.given, check.read.payload>> \in signed)
    <3>1. CASE check.given = "malformed"
      BY <1>6, <3>1 DEF CheckSignature, Verdict
    <3>2. CASE check.given # "malformed" /\ check.given # "none"
      BY <1>6, <3>2, VerifiedIsGenuine DEF CheckSignature, Verdict, CheckInv
    <3>3. CASE check.given = "none" /\ Here \notin keyed
      BY <1>6, <3>3 DEF CheckSignature, Verdict
    <3>4. CASE check.given = "none" /\ Here \in keyed /\ VerifySignature(check.read, Here)
      BY <1>6, <3>4, VerifiedIsGenuine DEF CheckSignature, Verdict, CheckInv
    <3>5. CASE check.given = "none" /\ Here \in keyed /\ ~VerifySignature(check.read, Here)
      BY <1>6, <3>5 DEF CheckSignature, Verdict
    <3> QED
      BY <3>1, <3>2, <3>3, <3>4, <3>5
  <2> QED
    BY <1>6, <2>1 DEF CheckSignature, Says, CheckInv, CheckShape, Genuine, VerifiedMeansSigned
<1> QED
  BY <1>1, <1>2, <1>3, <1>4, <1>5, <1>6 DEF CheckNext

LEMMA CheckStep == CheckInv /\ [Next]_vars => CheckInv'
<1>1. Next => CheckNext \/ UNCHANGED checkVars
  BY DEF Next, WithPeople, WithTheMachine, InTheWorkspace, InTheSystem, machineVars
<1>2. UNCHANGED vars => UNCHANGED checkVars
  BY DEF vars, machineVars
<1> QED
  BY <1>1, <1>2, CheckRests, CheckGoesOn

\* Whatever becomes of a receipt file while it is checked, and however many devices sign:
\* what `vitna verify` and the standalone tool report as verified is what the key they
\* checked it against signed (VerifiedMeansSigned).
THEOREM OnlySignedIsVerified == Spec => []VerifiedMeansSigned
<1>1. Init => CheckInv
  BY CheckBegins DEF Init
<1>2. CheckInv => VerifiedMeansSigned
  BY DEF CheckInv
<1> QED
  BY <1>1, <1>2, CheckStep, PTL DEF Spec

--------------------------------------------------------------------------------
(* FrontDoor.                                                                 *)

Admitted == {"not_local", "wrong_host", "page", "not_allowed", "method", "wrong_origin", "body", "handled", "no_session"}
Answered == Admitted \cup {"unsent", "granted", "launch_code", "bad_request", "session"}

DoorTypes ==
  /\ now \in Nat \ {0}
  /\ opened \in [Windows -> Nat]
  /\ codes \subseteq Windows \X Nat
  /\ sessions \subseteq Requests
  /\ granted \subseteq Requests \X Windows \X Nat
  /\ request \in [Requests -> [from : {"nowhere", "page", "api", "session"},
                              carries : Windows \cup Requests \cup {"none"}, at : Answered]]

\* A code is its window's, of the instant that was opened, and gone once it was exchanged;
\* a request that was let in is on record.
DoorInv ==
  /\ DoorTypes
  /\ \A c \in codes : opened[c[1]] # 0 /\ c[2] = opened[c[1]] + CodeTTL
  /\ \A c \in codes, g \in granted : c[1] # g[2]
  /\ \A r \in Requests : request[r].at = "granted" => \E g \in granted : g[1] = r
  /\ OneSessionPerWindow

LEMMA DoorOpens == DoorInit => DoorInv
  BY FrontDoorAssumption DEF DoorInit, DoorInv, DoorTypes, Answered, Admitted, OneSessionPerWindow, Unsent

LEMMA DoorRests == DoorInv /\ UNCHANGED doorVars => DoorInv'
  BY DEF DoorInv, DoorTypes, Answered, Admitted, doorVars, OneSessionPerWindow

LEMMA DoorGoesOn == DoorInv /\ DoorNext => DoorInv'
<1> SUFFICES ASSUME DoorInv, DoorNext PROVE DoorInv'
  OBVIOUS
<1> USE FrontDoorAssumption
<1>1. CASE Tick
  BY <1>1 DEF Tick, DoorInv, DoorTypes, Answered, Admitted, OneSessionPerWindow
<1>2. ASSUME NEW w \in Windows, LaunchUrl(w) PROVE DoorInv'
  <2>1. DoorTypes'
    BY <1>2 DEF LaunchUrl, DoorInv, DoorTypes, Answered, Admitted, Working
  <2>2. \A g \in granted : g[2] # w /\ opened'[g[2]] = opened[g[2]]
    BY <1>2 DEF LaunchUrl, DoorInv, DoorTypes, Answered, Admitted, OneSessionPerWindow
  <2>3. \A c \in codes' : opened'[c[1]] # 0 /\ c[2] = opened'[c[1]] + CodeTTL
    BY <1>2 DEF LaunchUrl, DoorInv, DoorTypes, Answered, Admitted, Working
  <2>4. \A c \in codes', g \in granted : c[1] # g[2]
    BY <1>2, <2>2 DEF LaunchUrl, DoorInv, DoorTypes, Answered, Admitted, Working
  <2> QED
    BY <1>2, <2>1, <2>2, <2>3, <2>4 DEF LaunchUrl, DoorInv, OneSessionPerWindow
<1>3. ASSUME NEW r \in Requests, Arrive(r) PROVE DoorInv'
  <2>1. PICK from \in Arrivals, carries \in {w \in Windows : opened[w] # 0} \cup sessions \cup {"none"} :
          request' = [request EXCEPT ![r] =
            [from |-> from.path, carries |-> carries, at |-> Admission(from, carries)]]
    BY <1>3 DEF Arrive
  <2>2. Admission(from, carries) \in Admitted /\ from.path \in {"page", "api", "session"}
    BY DEF Admission, Admitted
  <2>3. DoorTypes'
    BY <1>3, <2>1, <2>2 DEF Arrive, DoorInv, DoorTypes, Answered, Admitted
  <2> QED
    BY <1>3, <2>1, <2>2, <2>3 DEF Arrive, DoorInv, DoorTypes, Answered, Admitted, OneSessionPerWindow
<1>4. ASSUME NEW r \in Requests, StartSession(r) PROVE DoorInv'
  <2>1. CASE \E c \in codes : c[1] = request[r].carries /\ c[2] > now
    <3>1. PICK c \in codes : c[1] = request[r].carries /\ c[2] > now
      BY <2>1
    <3> DEFINE w == request[r].carries
               g == <<r, w, now>>
    <3>2. /\ granted' = granted \cup {g}
          /\ request' = [request EXCEPT ![r].at = "granted"]
          /\ codes' \subseteq {d \in codes : d[1] # w}
          /\ UNCHANGED <<now, opened, sessions>>
      BY <1>4, <2>1 DEF StartSession, Working, Reply
    <3>3. w \in Windows /\ opened[w] # 0 /\ now < opened[w] + CodeTTL
      BY <3>1 DEF DoorInv, DoorTypes, Answered, Admitted
    <3>4. \A h \in granted : h[2] # w
      BY <3>1 DEF DoorInv
    <3>5. DoorTypes'
      BY <3>2, <3>3 DEF DoorInv, DoorTypes, Answered, Admitted
    <3>6. g[1] = r /\ g[2] = w /\ g[3] = now
      OBVIOUS
    <3> HIDE DEF g
    <3>7. \A x \in granted' :
            /\ opened[x[2]] # 0 /\ x[3] < opened[x[2]] + CodeTTL
            /\ \A h \in granted' : h[2] = x[2] => h = x
      BY <3>2, <3>3, <3>4, <3>6 DEF DoorInv, OneSessionPerWindow
    <3>8. OneSessionPerWindow'
      <4>1. \A t \in sessions' : \E x \in granted' : x[1] = t
        <5>1. \A t \in sessions : \E x \in granted : x[1] = t
          BY DEF DoorInv, OneSessionPerWindow
        <5>2. sessions' = sessions /\ granted \subseteq granted'
          BY <3>2
        <5> QED
          BY <5>1, <5>2
      <4>2. opened' = opened
        BY <3>2
      <4> QED
        BY <3>7, <4>1, <4>2 DEF OneSessionPerWindow
    <3>9. \A q \in Requests : request'[q].at = "granted" => \E x \in granted' : x[1] = q
      BY <3>2, <3>6 DEF DoorInv, DoorTypes
    <3> QED
      BY <3>2, <3>4, <3>5, <3>6, <3>8, <3>9 DEF DoorInv
  <2>2. CASE ~ \E c \in codes : c[1] = request[r].carries /\ c[2] > now
    <3>1. /\ request' = [request EXCEPT ![r].at = "launch_code"]
          /\ codes' \subseteq codes
          /\ UNCHANGED <<now, opened, sessions, granted>>
      BY <1>4, <2>2 DEF StartSession, Working, Reply
    <3> QED
      BY <3>1 DEF DoorInv, DoorTypes, Answered, Admitted, OneSessionPerWindow
  <2> QED
    BY <2>1, <2>2
<1>5. ASSUME NEW r \in Requests, BadBody(r) PROVE DoorInv'
  BY <1>5 DEF BadBody, Reply, DoorInv, DoorTypes, Answered, Admitted, OneSessionPerWindow
<1>6. ASSUME NEW r \in Requests, InsertSession(r) PROVE DoorInv'
  BY <1>6 DEF InsertSession, Reply, DoorInv, DoorTypes, Answered, Admitted, OneSessionPerWindow
<1> QED
  BY <1>1, <1>2, <1>3, <1>4, <1>5, <1>6 DEF DoorNext

LEMMA DoorStep == DoorInv /\ [Next]_vars => DoorInv'
<1>1. Next => DoorNext \/ UNCHANGED doorVars
  BY DEF Next, WithPeople, WithTheMachine, InTheWindow, AtTheTerminal, AtTheEndpoint,
         AtTheDoor, OnThePage, peopleVars
<1>2. UNCHANGED vars => UNCHANGED doorVars
  BY DEF vars, peopleVars
<1> QED
  BY <1>1, <1>2, DoorRests, DoorGoesOn

\* Any number of windows and of requests that carry their codes at once: a code is
\* exchanged for one session, in time (OneSessionPerWindow).
THEOREM CodesAreSpentOnce == Spec => []OneSessionPerWindow
<1>1. Init => DoorInv
  BY DoorOpens DEF Init
<1>2. DoorInv => OneSessionPerWindow
  BY DEF DoorInv
<1> QED
  BY <1>1, <1>2, DoorStep, PTL DEF Spec

--------------------------------------------------------------------------------
(* ProcessTree.                                                               *)

Lives == {"unborn", "alive", "killed", "gone"}

ProcessTypes ==
  /\ world \in {"none", "namespace", "group", "job"}
  /\ process \in [Processes -> [life : Lives, grouped : BOOLEAN, jobbed : BOOLEAN]]
  /\ early \subseteq Processes
  /\ job \in {"none", "held", "closed"}
  /\ stage \in {"none", "spawned", "waiting", "reaping", "over", "closed"}
  /\ teardown \in {"none", "complete", "partial", "failed"}

\* Before the command there is nothing; after it, its child is there.
Spawned ==
  /\ stage = "none" => world = "none" /\ teardown = "none" /\ \A p \in Processes : process[p] = Unborn
  /\ stage # "none" => world # "none" /\ process[Child].life # "unborn"

\* In a namespace and in a group the child is dead when run_command has stopped waiting for
\* it, and a namespace is gone when its child is.
ChildEnds ==
  /\ world # "job" /\ stage \in {"reaping", "over", "closed"} => ~Alive(Child)
  /\ world = "namespace" /\ process[Child].life = "gone" => \A p \in Processes : ~Alive(p)
  /\ teardown # "none" => stage \in {"reaping", "over", "closed"}

\* A job holds whatever runs, but for the early ones; and nothing in it outlives its end.
JobHolds ==
  /\ job # "none" => world = "job" /\ stage \notin {"none", "spawned"}
  /\ world = "job" /\ (stage = "spawned" \/ job # "none") =>
       \A p \in Processes : Alive(p) => process[p].jobbed \/ p \in early \/ (stage = "spawned" /\ p = Child)
  /\ teardown = "complete" => world = "namespace" \/ (world = "job" /\ job # "none")
  /\ world = "job" /\ (teardown = "complete" \/ job = "closed") =>
       \A p \in Processes : Alive(p) => ~process[p].jobbed

ProcessInv == ProcessTypes /\ Spawned /\ ChildEnds /\ JobHolds

LEMMA NothingIsLeft == ProcessInv => NothingOutlives
  BY DEF ProcessInv, ProcessTypes, Spawned, ChildEnds, JobHolds, NothingOutlives, Alive, Lives, Processes

LEMMA ProcessBegins == ProcessInit => ProcessInv
  BY DEF ProcessInit, ProcessInv, ProcessTypes, Spawned, ChildEnds, JobHolds, Unborn, Alive, Lives, Processes

LEMMA ProcessRests == ProcessInv /\ UNCHANGED processVars => ProcessInv'
<1> SUFFICES ASSUME ProcessInv, UNCHANGED processVars PROVE ProcessInv'
  OBVIOUS
<1> USE DEF ProcessInv, processVars
<1>1. ProcessTypes' /\ Spawned'
  BY DEF ProcessTypes, Spawned, Unborn
<1>2. ChildEnds'
  BY DEF ChildEnds, Alive
<1>3. JobHolds'
  BY DEF JobHolds, Alive
<1> QED
  BY <1>1, <1>2, <1>3

\* A signal ends what it reaches, and changes nothing else about a process.
LEMMA KilledEnds ==
  ASSUME ProcessTypes, NEW ps
  PROVE  /\ Killed(ps) \in [Processes -> [life : Lives, grouped : BOOLEAN, jobbed : BOOLEAN]]
         /\ \A p \in Processes :
              /\ Killed(ps)[p].jobbed = process[p].jobbed
              /\ Killed(ps)[p].life = IF p \in ps /\ Alive(p) THEN "killed" ELSE process[p].life
<1>1. \A p \in Processes : Killed(ps)[p] = IF p \in ps /\ Alive(p) THEN [process[p] EXCEPT !.life = "killed"] ELSE process[p]
  BY DEF Killed
<1>2. \A p \in Processes : process[p] \in [life : Lives, grouped : BOOLEAN, jobbed : BOOLEAN]
  BY DEF ProcessTypes
<1>3. \A p \in Processes : Killed(ps)[p] \in [life : Lives, grouped : BOOLEAN, jobbed : BOOLEAN]
  BY <1>1, <1>2 DEF Lives
<1>4. Killed(ps) \in [Processes -> [life : Lives, grouped : BOOLEAN, jobbed : BOOLEAN]]
  BY <1>3 DEF Killed
<1> QED
  BY <1>1, <1>2, <1>4

LEMMA ProcessGoesOn == ProcessInv /\ ProcessNext => ProcessInv'
<1> SUFFICES ASSUME ProcessInv, ProcessNext PROVE ProcessInv'
  OBVIOUS
<1> USE ProcessAssumption
<1> USE DEF ProcessInv, ProcessTypes, Spawned, ChildEnds, JobHolds
<1>0. Child \in Processes /\ Descendants \subseteq Processes
  BY DEF Processes
<1>1. CASE SpawnChild
  <2>1. /\ stage = "none" /\ stage' = "spawned" /\ world' \in {"namespace", "group", "job"}
        /\ UNCHANGED <<early, job, teardown>>
        /\ process' = [process EXCEPT ![Child] = [life |-> "alive", grouped |-> world' # "job", jobbed |-> FALSE]]
    BY <1>0, <1>1 DEF SpawnChild, Unborn
  <2>2. ProcessTypes'
    BY <1>0, <2>1 DEF Lives
  <2>3. process'[Child].life = "alive" /\ \A p \in Processes \ {Child} : process'[p] = Unborn
    BY <1>0, <2>1
  <2> QED
    BY <1>0, <2>1, <2>2, <2>3 DEF Alive, Unborn
<1>2. CASE Attach
  <2>1. CASE UNCHANGED <<job, process>>
    BY <1>0, <1>2, <2>1 DEF Attach, Alive
  <2>2. CASE world = "job" /\ job' = "held" /\ process' = [process EXCEPT ![Child].jobbed = TRUE]
    <3>1. ProcessTypes'
      BY <1>0, <1>2, <2>2 DEF Attach
    <3>2. /\ process'[Child].jobbed /\ process'[Child].life = process[Child].life
          /\ \A p \in Processes \ {Child} : process'[p] = process[p]
      BY <1>0, <2>2
    <3>3. Spawned' /\ ChildEnds'
      BY <1>0, <1>2, <2>2, <3>2 DEF Attach, Alive
    <3>4. JobHolds'
      BY <1>0, <1>2, <2>2, <3>2 DEF Attach, Alive
    <3> QED
      BY <3>1, <3>3, <3>4
  <2> QED
    BY <1>2, <2>1, <2>2 DEF Attach
<1>3. CASE Exited
  BY <1>0, <1>3 DEF Exited, Alive
<1>4. CASE KillTree
  <2>1. CASE world = "job"
    <3>1. CASE job = "held" /\ process' = Killed(Jobbed) /\ teardown' = "complete"
      BY <1>0, <1>4, <2>1, <3>1, KilledEnds DEF KillTree, KillWindows, Alive, Jobbed
    <3>2. CASE job # "held" /\ process' = Killed({Child}) /\ teardown' = "partial"
      BY <1>0, <1>4, <2>1, <3>2, KilledEnds DEF KillTree, KillWindows, Alive
    <3>3. CASE UNCHANGED process /\ teardown' = "failed"
      BY <1>0, <1>4, <2>1, <3>3 DEF KillTree, KillWindows, Alive
    <3> QED
      BY <1>4, <2>1, <3>1, <3>2, <3>3 DEF KillTree, KillWindows
  <2>2. CASE world # "job"
    <3>1. PICK ps : Child \in ps /\ process' = Killed(ps) /\ UNCHANGED job
                    /\ teardown' \in {"complete", "partial", "failed"}
                    /\ (teardown' = "complete" => world = "namespace")
      BY <1>4, <2>2 DEF KillTree, KillUnix
    <3> QED
      BY <1>0, <1>4, <2>2, <3>1, KilledEnds DEF KillTree, Alive
  <2> QED
    BY <2>1, <2>2
<1>5. CASE Reaped
  BY <1>0, <1>5 DEF Reaped, Alive
<1>6. CASE DropCall
  BY <1>0, <1>6, KilledEnds DEF DropCall, Alive
<1>7. CASE CloseGuard
  <2>1. CASE job = "held"
    BY <1>0, <1>7, <2>1, KilledEnds DEF CloseGuard, Alive, Jobbed
  <2>2. CASE job # "held"
    BY <1>0, <1>7, <2>2 DEF CloseGuard, Alive
  <2> QED
    BY <2>1, <2>2
<1>8. CASE Fork
  <2>1. PICK p \in Processes, q \in Descendants :
          /\ Alive(p) /\ process[q] = Unborn
          /\ process' = [process EXCEPT ![q] = [life |-> "alive", jobbed |-> process[p].jobbed,
                                                grouped |-> world # "namespace" /\ process[p].grouped]]
          /\ early' = IF p \in early \/ stage = "spawned" THEN early \cup {q} ELSE early
          /\ UNCHANGED <<world, job, stage, teardown>>
    BY <1>8 DEF Fork
  <2>2. ProcessTypes'
    BY <1>0, <2>1 DEF Lives
  <2>3. process'[q].life = "alive" /\ process'[q].jobbed = process[p].jobbed /\ \A o \in Processes \ {q} : process'[o] = process[o]
    BY <1>0, <2>1
  <2>4. stage # "none" /\ Child # q
    BY <2>1 DEF Alive, Unborn
  <2>5. Spawned'
    BY <1>0, <2>1, <2>3, <2>4
  <2>6. ChildEnds'
    BY <1>0, <2>1, <2>3, <2>4 DEF Alive
  <2>7. JobHolds'
    <3>1. \A o \in Processes : o # q => (Alive(o)' <=> Alive(o)) /\ process'[o].jobbed = process[o].jobbed
      BY <1>0, <2>3 DEF Alive
    <3>2. early \subseteq early' /\ (p \in early \/ stage = "spawned" => q \in early')
      BY <2>1
    <3>3. world = "job" /\ (stage = "spawned" \/ job # "none") =>
            process'[q].jobbed \/ q \in early'
      BY <2>1, <2>3, <3>2
    <3>4. world = "job" /\ (teardown = "complete" \/ job = "closed") => ~process'[q].jobbed
      BY <2>1, <2>3
    <3>5. world = "job" /\ (stage = "spawned" \/ job # "none") =>
            \A o \in Processes : Alive(o)' => process'[o].jobbed \/ o \in early' \/ (stage = "spawned" /\ o = Child)
      <4>1. ASSUME world = "job", stage = "spawned" \/ job # "none", NEW o \in Processes, Alive(o)'
            PROVE  process'[o].jobbed \/ o \in early' \/ (stage = "spawned" /\ o = Child)
        <5>1. CASE o = q
          BY <3>3, <4>1, <5>1
        <5>2. CASE o # q
          BY <3>1, <3>2, <4>1, <5>2
        <5> QED
          BY <5>1, <5>2
      <4> QED
        BY <4>1
    <3>6. world = "job" /\ (teardown = "complete" \/ job = "closed") =>
            \A o \in Processes : Alive(o)' => ~process'[o].jobbed
      BY <3>1, <3>4
    <3> QED
      BY <2>1, <3>5, <3>6
  <2> QED
    BY <2>2, <2>5, <2>6, <2>7
<1>9. CASE LeaveGroup
  <2>1. PICK p \in Descendants :
          /\ Alive(p)
          /\ process' = [process EXCEPT ![p].grouped = FALSE]
          /\ UNCHANGED <<world, early, job, stage, teardown>>
    BY <1>9 DEF LeaveGroup
  <2>2. \A o \in Processes : process'[o].life = process[o].life /\ process'[o].jobbed = process[o].jobbed
    BY <1>0, <2>1
  <2>3. ProcessTypes'
    BY <1>0, <2>1
  <2>4. stage # "none"
    BY <1>0, <2>1 DEF Alive, Unborn
  <2> QED
    BY <1>0, <2>1, <2>2, <2>3, <2>4 DEF Alive
<1>10. CASE ProcessEnds
  <2>1. PICK p \in Processes :
          /\ process[p].life \in {"alive", "killed"}
          /\ process' = [IF p = Child /\ world = "namespace" THEN Killed(Processes) ELSE process
                           EXCEPT ![p].life = "gone"]
          /\ UNCHANGED <<world, early, job, stage, teardown>>
    BY <1>10 DEF ProcessEnds
  <2>2. /\ process' \in [Processes -> [life : Lives, grouped : BOOLEAN, jobbed : BOOLEAN]]
        /\ process'[p].life = "gone"
        /\ \A o \in Processes : process'[o].jobbed = process[o].jobbed
        /\ \A o \in Processes \ {p} : process'[o].life = process[o].life \/ (process'[o].life = "killed" /\ Alive(o))
        /\ p = Child /\ world = "namespace" => \A o \in Processes : process'[o].life # "alive"
    <3> DEFINE all == p = Child /\ world = "namespace"
               killed == IF all THEN Killed(Processes) ELSE process
    <3>1. /\ killed \in [Processes -> [life : Lives, grouped : BOOLEAN, jobbed : BOOLEAN]]
          /\ \A o \in Processes : killed[o].jobbed = process[o].jobbed
          /\ \A o \in Processes : killed[o].life = IF all /\ Alive(o) THEN "killed" ELSE process[o].life
      BY KilledEnds
    <3>2. process' = [killed EXCEPT ![p].life = "gone"]
      BY <2>1
    <3> HIDE DEF killed
    <3>3. process' \in [Processes -> [life : Lives, grouped : BOOLEAN, jobbed : BOOLEAN]]
      BY <3>1, <3>2 DEF Lives
    <3>4. process'[p].life = "gone" /\ \A o \in Processes \ {p} : process'[o] = killed[o]
      BY <3>1, <3>2
    <3>5. \A o \in Processes : process'[o].jobbed = killed[o].jobbed
      BY <3>1, <3>2
    <3>6. \A o \in Processes \ {p} : process'[o].life = process[o].life \/ (process'[o].life = "killed" /\ Alive(o))
      BY <3>1, <3>4
    <3>7. all => \A o \in Processes : process'[o].life # "alive"
      BY <3>1, <3>4 DEF Alive
    <3> QED
      BY <3>3, <3>4, <3>5, <3>1, <3>6, <3>7
  <2>3. stage # "none"
    BY <1>0, <2>1 DEF Unborn
  <2>4. Spawned'
    BY <1>0, <2>1, <2>2, <2>3 DEF Alive
  <2>5. ChildEnds'
    BY <1>0, <2>1, <2>2, <2>3 DEF Alive
  <2>6. JobHolds'
    BY <1>0, <2>1, <2>2, <2>3 DEF Alive
  <2> QED
    BY <2>1, <2>2, <2>4, <2>5, <2>6
<1> QED
  BY <1>1, <1>2, <1>3, <1>4, <1>5, <1>6, <1>7, <1>8, <1>9, <1>10 DEF ProcessNext

LEMMA ProcessStep == ProcessInv /\ [Next]_vars => ProcessInv'
<1>1. Next => ProcessNext \/ UNCHANGED processVars
  BY DEF Next, WithPeople, WithTheMachine, InTheWorkspace, InTheSystem, machineVars
<1>2. UNCHANGED vars => UNCHANGED processVars
  BY DEF vars, machineVars
<1> QED
  BY <1>1, <1>2, ProcessRests, ProcessGoesOn

\* Any number of processes, started and ending in any order: what a teardown calls complete
\* is, and an action in a namespace or a job leaves nothing behind (NothingOutlives).
THEOREM TeardownsAreComplete == Spec => []NothingOutlives
<1>1. Init => ProcessInv
  BY ProcessBegins DEF Init
<1> QED
  BY <1>1, ProcessStep, NothingIsLeft, PTL DEF Spec

--------------------------------------------------------------------------------
(* Keyring.                                                                   *)

Held == Keys \cup Unusable \cup {"none"}

KeyringTypes ==
  /\ filed \in [Providers -> Held]
  /\ latest \in [Providers -> SUBSET Held]
  /\ may \in [Threads -> SUBSET Held]
  /\ \A t \in Threads :
       asking[t].step \in {"waiting", "asked"} =>
         asking[t].provider \in Providers /\ asking[t].key \in Keys \cup {"none"}

\* Each call has the five parts of one.
AskingShape ==
  asking = [t \in Threads |-> [step |-> asking[t].step, op |-> asking[t].op, provider |-> asking[t].provider,
                               key |-> asking[t].key, answer |-> asking[t].answer]]

\* One call is with the system, that of the lock's holder.
OneIsAsked == \A t \in Threads : asking[t].step = "asked" => serial = t

\* An entry holds what it may, but while a write to it is under way, whose key it may hold
\* then; and a read that is under way may find it.
EntriesHold ==
  /\ \A p \in Providers :
       \/ filed[p] \in latest[p]
       \/ \E t \in Threads : asking[t].step = "asked" /\ IsWrite(t) /\ asking[t].provider = p
  /\ \A t \in Threads : asking[t].step = "asked" =>
       IF IsWrite(t) THEN asking[t].key \in latest[asking[t].provider]
       ELSE filed[asking[t].provider] \in may[t]

KeyringInv == KeyringTypes /\ AskingShape /\ OneIsAsked /\ EntriesHold /\ ReadsFollowWrites

LEMMA KeyringBegins == KeyringInit => KeyringInv
  BY DEF KeyringInit, KeyringInv, KeyringTypes, AskingShape, OneIsAsked, EntriesHold, ReadsFollowWrites,
         NoCall, Held

LEMMA KeyringRests == KeyringInv /\ UNCHANGED keyringVars => KeyringInv'
<1> SUFFICES ASSUME KeyringInv, UNCHANGED keyringVars PROVE KeyringInv'
  OBVIOUS
<1> USE DEF KeyringInv, keyringVars
<1>1. KeyringTypes' /\ AskingShape' /\ OneIsAsked'
  BY DEF KeyringTypes, AskingShape, OneIsAsked
<1>2. EntriesHold' /\ ReadsFollowWrites'
  BY DEF EntriesHold, ReadsFollowWrites, IsWrite, Found
<1> QED
  BY <1>1, <1>2

LEMMA KeyringGoesOn == KeyringInv /\ KeyringNext => KeyringInv'
<1> SUFFICES ASSUME KeyringInv, KeyringNext PROVE KeyringInv'
  OBVIOUS
<1> USE KeyringAssumption DEF KeyringInv, IsWrite, Found
<1>1. ASSUME NEW t \in Threads, CallKeyring(t) PROVE KeyringInv'
  <2>1. /\ asking[t].step \in {"idle", "answered"}
        /\ UNCHANGED <<filed, serial, latest, may>>
    BY <1>1 DEF CallKeyring
  <2>2. PICK p \in Providers, op \in {"resolve", "check", "delete", "set"}, k \in Keys \cup {"none"} :
          asking' = [asking EXCEPT ![t] =
            [step |-> "waiting", op |-> op, provider |-> p, key |-> k, answer |-> "none"]]
    BY <1>1 DEF CallKeyring, CallFor
  <2>3. \A s \in Threads \ {t} : asking'[s] = asking[s]
    BY <2>2 DEF AskingShape
  <2>4. asking'[t].step = "waiting" /\ asking'[t].provider = p /\ asking'[t].key = k
    BY <2>2 DEF AskingShape
  <2>5. AskingShape'
    BY <2>2 DEF AskingShape
  <2>6. KeyringTypes' /\ OneIsAsked'
    BY <2>1, <2>3, <2>4 DEF KeyringTypes, OneIsAsked
  <2>7. EntriesHold'
    BY <2>1, <2>3, <2>4 DEF EntriesHold
  <2>8. ReadsFollowWrites'
    BY <2>1, <2>3, <2>4 DEF ReadsFollowWrites
  <2> QED
    BY <2>5, <2>6, <2>7, <2>8
<1>2. ASSUME NEW t \in Threads, OneAtATime(t) PROVE KeyringInv'
  <2> DEFINE p == asking[t].provider
  <2>1. /\ asking[t].step = "waiting" /\ serial = "free" /\ serial' = t
        /\ asking' = [asking EXCEPT ![t].step = "asked"]
        /\ UNCHANGED filed
    BY <1>2 DEF OneAtATime, Let
  <2>2. \A s \in Threads : asking[s].step # "asked"
    BY <2>1 DEF OneIsAsked
  <2>3. \A s \in Threads \ {t} : asking'[s] = asking[s]
    BY <2>1 DEF AskingShape
  <2>4. /\ asking'[t].step = "asked" /\ asking'[t].op = asking[t].op
        /\ asking'[t].provider = p /\ asking'[t].key = asking[t].key
    BY <2>1 DEF AskingShape
  <2>5. AskingShape'
    BY <2>1 DEF AskingShape
  <2>6. p \in Providers /\ asking[t].key \in Keys \cup {"none"} /\ \A q \in Providers : filed[q] \in latest[q]
    BY <2>1, <2>2 DEF KeyringTypes, EntriesHold
  <2>7. CASE IsWrite(t)
    <3>1. latest' = [latest EXCEPT ![p] = {asking[t].key}] /\ may' = may
      BY <1>2, <2>7 DEF OneAtATime, Let
    <3>2. KeyringTypes'
      BY <2>1, <2>3, <2>4, <2>6, <3>1 DEF KeyringTypes, Held
    <3>3. EntriesHold'
      BY <2>1, <2>2, <2>3, <2>4, <2>6, <2>7, <3>1 DEF EntriesHold, KeyringTypes
    <3>4. ReadsFollowWrites' /\ OneIsAsked'
      BY <2>1, <2>2, <2>3, <2>4, <3>1 DEF ReadsFollowWrites, OneIsAsked
    <3> QED
      BY <2>5, <3>2, <3>3, <3>4
  <2>8. CASE ~IsWrite(t)
    <3>1. latest' = latest /\ may' = [may EXCEPT ![t] = latest[p]]
      BY <1>2, <2>8 DEF OneAtATime, Let
    <3>2. KeyringTypes'
      BY <2>1, <2>3, <2>4, <2>6, <3>1 DEF KeyringTypes
    <3>3. EntriesHold'
      BY <2>1, <2>2, <2>3, <2>4, <2>6, <2>8, <3>1 DEF EntriesHold, KeyringTypes
    <3>4. ReadsFollowWrites' /\ OneIsAsked'
      BY <2>1, <2>2, <2>3, <2>4, <3>1 DEF ReadsFollowWrites, OneIsAsked, KeyringTypes
    <3> QED
      BY <2>5, <3>2, <3>3, <3>4
  <2> QED
    BY <2>7, <2>8
<1>3. ASSUME NEW t \in Threads, Completes(t) PROVE KeyringInv'
  <2> DEFINE p == asking[t].provider
             k == asking[t].key
  <2>1. asking[t].step = "asked" /\ serial' = "free" /\ UNCHANGED may
    BY <1>3 DEF Completes
  <2>2. /\ p \in Providers /\ k \in Keys \cup {"none"}
        /\ \A s \in Threads \ {t} : asking[s].step # "asked"
    BY <2>1 DEF OneIsAsked, KeyringTypes
  <2>3. PICK a :
          /\ asking' = [asking EXCEPT ![t] = [@ EXCEPT !.step = "answered", !.answer = a]]
          /\ ~IsWrite(t) /\ a # "store_failed" => a = Found(t, filed[p])
          /\ filed' = filed \/ (IsWrite(t) /\ filed' = [filed EXCEPT ![p] = k])
          /\ \/ UNCHANGED latest /\ (IsWrite(t) => filed' = [filed EXCEPT ![p] = k])
             \/ IsWrite(t) /\ latest' = [latest EXCEPT ![p] = @ \cup {filed[p]}]
    <3>1. CASE /\ AnswerCall(t, IF ~IsWrite(t) THEN Found(t, filed[p])
                             ELSE IF asking[t].op = "delete" /\ filed[p] = "none" THEN "not_stored" ELSE "ok")
               /\ filed' = IF IsWrite(t) THEN [filed EXCEPT ![p] = k] ELSE filed
               /\ UNCHANGED latest
      <4>1. CASE IsWrite(t)
        BY <3>1, <4>1 DEF AnswerCall
      <4>2. CASE ~IsWrite(t)
        BY <3>1, <4>2 DEF AnswerCall
      <4> QED
        BY <4>1, <4>2
    <3>2. CASE /\ AnswerCall(t, "store_failed")
               /\ filed' = filed \/ (IsWrite(t) /\ filed' = [filed EXCEPT ![p] = k])
               /\ latest' = IF IsWrite(t) THEN [latest EXCEPT ![p] = @ \cup {filed[p]}] ELSE latest
      BY <3>2 DEF AnswerCall
    <3> QED
      BY <1>3, <3>1, <3>2 DEF Completes
  <2> DEFINE over == [step |-> "answered", op |-> asking[t].op, provider |-> p, key |-> k, answer |-> a]
  <2>shape. asking[t] = [step |-> asking[t].step, op |-> asking[t].op, provider |-> p, key |-> k, answer |-> asking[t].answer]
    BY DEF AskingShape
  <2>record. [asking[t] EXCEPT !.step = "answered", !.answer = a] = over
    <3> DEFINE r == [step |-> asking[t].step, op |-> asking[t].op, provider |-> p, key |-> k, answer |-> asking[t].answer]
               half == [step |-> "answered", op |-> asking[t].op, provider |-> p, key |-> k, answer |-> asking[t].answer]
    <3>1. [r EXCEPT !.step = "answered"] = half
      OBVIOUS
    <3>2. [half EXCEPT !.answer = a] = over
      OBVIOUS
    <3>3. asking[t] = r
      BY <2>shape
    <3> QED
      BY <3>1, <3>2, <3>3
  <2>change. asking' = [asking EXCEPT ![t] = over]
    BY <2>3, <2>record
  <2>4. \A s \in Threads \ {t} : asking'[s] = asking[s]
    BY <2>change DEF AskingShape
  <2>5. asking'[t].step = "answered" /\ asking'[t].answer = a /\ asking'[t].op = asking[t].op
    BY <2>change DEF AskingShape
  <2>6. AskingShape'
    BY <2>change DEF AskingShape
  <2>7. KeyringTypes'
    <3>1. filed' \in [Providers -> Held]
      BY <2>2, <2>3 DEF KeyringTypes, Held
    <3>2. latest' \in [Providers -> SUBSET Held]
      BY <2>2, <2>3 DEF KeyringTypes
    <3> QED
      BY <2>1, <2>4, <2>5, <3>1, <3>2 DEF KeyringTypes
  <2>8. \A q \in Providers : filed'[q] \in latest'[q]
    <3>1. \A q \in Providers \ {p} : filed[q] \in latest[q] /\ filed'[q] = filed[q] /\ latest'[q] = latest[q]
      BY <2>2, <2>3 DEF EntriesHold, KeyringTypes
    <3>2. CASE IsWrite(t)
      <4>1. k \in latest[p] /\ latest[p] \subseteq latest'[p]
        BY <2>1, <2>2, <2>3, <3>2 DEF EntriesHold, KeyringTypes
      <4>2. filed'[p] = k \/ (filed'[p] = filed[p] /\ filed[p] \in latest'[p])
        BY <2>2, <2>3, <3>2 DEF KeyringTypes
      <4> QED
        BY <3>1, <4>1, <4>2
    <3>3. CASE ~IsWrite(t)
      BY <2>2, <2>3, <3>3 DEF EntriesHold
    <3> QED
      BY <3>2, <3>3
  <2>9. EntriesHold'
    BY <2>2, <2>4, <2>5, <2>8 DEF EntriesHold
  <2>10. OneIsAsked'
    BY <2>2, <2>4, <2>5 DEF OneIsAsked
  <2>11. ReadsFollowWrites'
    <3>1. ~IsWrite(t) /\ a # "store_failed" => \E v \in may[t] : a = Found(t, v)
      BY <2>1, <2>3 DEF EntriesHold
    <3> QED
      BY <2>1, <2>4, <2>5, <3>1 DEF ReadsFollowWrites
  <2> QED
    BY <2>6, <2>7, <2>9, <2>10, <2>11
<1>4. CASE ChangeEntry
  <2>1. PICK p \in Providers, v \in Held :
          LET asked_of == {t \in Threads : asking[t].step = "asked" /\ asking[t].provider = p}
          IN /\ filed' = [filed EXCEPT ![p] = v]
             /\ latest' = [latest EXCEPT ![p] = {v} \cup (IF \E t \in asked_of : IsWrite(t) THEN @ ELSE {})]
             /\ may' = [t \in Threads |-> IF t \in asked_of THEN may[t] \cup {v} ELSE may[t]]
    BY <1>4 DEF ChangeEntry, Held
  <2>2. UNCHANGED <<serial, asking>>
    BY <1>4 DEF ChangeEntry
  <2>3. /\ filed'[p] = v /\ v \in latest'[p]
        /\ \A q \in Providers \ {p} : filed'[q] = filed[q] /\ latest'[q] = latest[q]
    BY <2>1 DEF KeyringTypes
  <2>4. \A t \in Threads : may[t] \subseteq may'[t]
                          /\ (asking[t].step = "asked" /\ asking[t].provider = p => v \in may'[t])
    BY <2>1
  <2>5. \A t \in Threads : asking[t].step # "asked" => may'[t] = may[t]
    BY <2>1
  <2>6. \A t \in Threads : asking[t].step = "asked" /\ IsWrite(t) /\ asking[t].provider = p => latest[p] \subseteq latest'[p]
    BY <2>1 DEF KeyringTypes
  <2>7. KeyringTypes'
    <3>1. filed' \in [Providers -> Held] /\ latest' \in [Providers -> SUBSET Held]
      BY <2>1 DEF KeyringTypes
    <3>2. may' \in [Threads -> SUBSET Held]
      BY <2>1 DEF KeyringTypes
    <3> QED
      BY <2>2, <3>1, <3>2 DEF KeyringTypes
  <2>8. EntriesHold'
    BY <2>2, <2>3, <2>4, <2>6 DEF EntriesHold, KeyringTypes
  <2>9. ReadsFollowWrites'
    BY <2>2, <2>5 DEF ReadsFollowWrites
  <2> QED
    BY <2>2, <2>7, <2>8, <2>9 DEF AskingShape, OneIsAsked
<1> QED
  BY <1>1, <1>2, <1>3, <1>4 DEF KeyringNext

LEMMA KeyringStep == KeyringInv /\ [Next]_vars => KeyringInv'
<1>1. Next => KeyringNext \/ UNCHANGED keyringVars
  BY DEF Next, WithPeople, WithTheMachine, InTheWorkspace, InTheSystem, machineVars
<1>2. UNCHANGED vars => UNCHANGED keyringVars
  BY DEF vars, machineVars
<1> QED
  BY <1>1, <1>2, KeyringRests, KeyringGoesOn

\* Any number of threads, providers and other programs, and a system that may fail a call
\* after it has done it: a read answers with what its entry held (ReadsFollowWrites).
THEOREM KeysAreTheirProviders == Spec => []ReadsFollowWrites
<1>1. Init => KeyringInv
  BY KeyringBegins DEF Init
<1>2. KeyringInv => ReadsFollowWrites
  BY DEF KeyringInv
<1> QED
  BY <1>1, <1>2, KeyringStep, PTL DEF Spec

--------------------------------------------------------------------------------
(* Launch.                                                                    *)

LaunchTypes ==
  /\ daemon \in [Daemons -> [at : {"off", "serving", "failed", "killed"} \cup Starting,
                             endpoint : Endpoints \cup {"none"},
                             why : {"none", "no_endpoint", "no_store", "no_directory", "in_use", "no_file", "serving"}
                                     \cup Starting]]
  /\ socket \in [Endpoints -> Daemons \cup {"none"}]
  /\ stays \in [Clients -> SUBSET Endpoints]

\* A file is that of a daemon that bound it there and has not given up.
SocketsAreBound ==
  \A e \in Endpoints : socket[e] # "none" =>
    /\ daemon[socket[e]].endpoint = e
    /\ daemon[socket[e]].at \in {"bound", "guarded", "serving", "killed"}

\* While a client looks, what could be reached all the time is still to be tried; and it
\* can be reached now.
LooksGoOn ==
  /\ \A c \in Clients : \A e \in stays[c] : Listens(e)
  /\ \A c \in Clients : look[c].found = "looking" =>
       /\ look[c].left \in {<<"runtime", "home">>, <<"runtime">>, <<"home">>}
       /\ \A e \in stays[c] : \E i \in DOMAIN look[c].left : look[c].left[i] = e
  /\ \A c \in Clients : look[c] = [left |-> look[c].left, to |-> look[c].to, found |-> look[c].found]
  /\ DOMAIN look = Clients

LaunchInv == LaunchTypes /\ SocketsAreBound /\ LooksGoOn /\ NobodyIsMissed

LEMMA LaunchBegins == LaunchInit => LaunchInv
  BY LaunchAssumption DEF LaunchInit, LaunchInv, LaunchTypes, SocketsAreBound, LooksGoOn, NobodyIsMissed,
     Endpoints, Starting

LEMMA LaunchRests == LaunchInv /\ UNCHANGED launchVars => LaunchInv'
  BY DEF LaunchInv, launchVars, LaunchTypes, SocketsAreBound, LooksGoOn, NobodyIsMissed, Listens

\* What a client still looks for is found if a step takes away no more than what it could
\* have reached.
LEMMA LooksAreKept ==
  ASSUME LaunchInv, UNCHANGED look, stays' \in [Clients -> SUBSET Endpoints],
         \A c \in Clients : stays'[c] \subseteq stays[c] /\ \A e \in stays'[c] : Listens(e)'
  PROVE  LooksGoOn' /\ NobodyIsMissed'
  BY DEF LaunchInv, LooksGoOn, NobodyIsMissed

Stages == {"off", "serving", "failed", "killed"} \cup Starting
Reasons == {"none", "no_endpoint", "no_store", "no_directory", "in_use", "no_file", "serving"} \cup Starting
Daemon(to, e, why) == [at |-> to, endpoint |-> e, why |-> why]

\* The one daemon a step writes, field by field.
Becomes(d, to, e, why) ==
  /\ to \in Stages /\ e \in Endpoints \cup {"none"} /\ why \in Reasons
  /\ daemon' = [daemon EXCEPT ![d] = Daemon(to, e, why)]

LEMMA DaemonMoves ==
  ASSUME LaunchTypes, NEW d \in Daemons, NEW to, NEW e, NEW why, Becomes(d, to, e, why)
  PROVE  /\ daemon' \in [Daemons -> [at : Stages, endpoint : Endpoints \cup {"none"}, why : Reasons]]
         /\ \A x \in Daemons \ {d} : daemon'[x] = daemon[x]
         /\ daemon'[d].at = to /\ daemon'[d].endpoint = e
<1>1. Daemon(to, e, why) \in [at : Stages, endpoint : Endpoints \cup {"none"}, why : Reasons]
  BY DEF Daemon, Becomes
<1>2. daemon' = [daemon EXCEPT ![d] = Daemon(to, e, why)]
  BY DEF Becomes
<1>3. Daemon(to, e, why).at = to /\ Daemon(to, e, why).endpoint = e
  BY DEF Daemon
<1> QED
  BY <1>1, <1>2, <1>3 DEF LaunchTypes, Stages, Reasons

LEMMA DaemonRecord ==
  ASSUME LaunchTypes, NEW d \in Daemons
  PROVE  /\ daemon[d] = Daemon(daemon[d].at, daemon[d].endpoint, daemon[d].why)
         /\ daemon[d].at \in Stages /\ daemon[d].why \in Reasons
         /\ daemon[d].endpoint \in Endpoints \cup {"none"}
  BY DEF LaunchTypes, Daemon, Stages, Reasons

LEMMA DaemonAdvances ==
  ASSUME LaunchTypes, NEW d \in Daemons, NEW to \in Stages, Advance(d, to)
  PROVE  Becomes(d, to, daemon[d].endpoint, daemon[d].why)
<1> DEFINE r == [at |-> daemon[d].at, endpoint |-> daemon[d].endpoint, why |-> daemon[d].why]
           n == [at |-> to, endpoint |-> daemon[d].endpoint, why |-> daemon[d].why]
<1>1. daemon[d] = r
  BY DaemonRecord DEF Daemon
<1>2. [r EXCEPT !.at = to] = n
  OBVIOUS
<1>3. [daemon[d] EXCEPT !.at = to] = n
  BY <1>1, <1>2, Zenon
<1>4. daemon' = [daemon EXCEPT ![d] = n]
  BY <1>3 DEF Advance
<1> QED
  BY <1>4, DaemonRecord DEF Becomes, Daemon

LEMMA DaemonFails ==
  ASSUME LaunchTypes, NEW d \in Daemons, NEW to \in Stages, NEW why \in Reasons,
         daemon' = [daemon EXCEPT ![d] = [@ EXCEPT !.at = to, !.why = why]]
  PROVE  Becomes(d, to, daemon[d].endpoint, why)
<1> DEFINE r == [at |-> daemon[d].at, endpoint |-> daemon[d].endpoint, why |-> daemon[d].why]
           h == [at |-> to, endpoint |-> daemon[d].endpoint, why |-> daemon[d].why]
           n == [at |-> to, endpoint |-> daemon[d].endpoint, why |-> why]
<1>1. daemon[d] = r
  BY DaemonRecord DEF Daemon
<1>2. [r EXCEPT !.at = to] = h
  OBVIOUS
<1>3. [h EXCEPT !.why = why] = n
  OBVIOUS
<1>4. [daemon[d] EXCEPT !.at = to, !.why = why] = n
  BY <1>1, <1>2, <1>3, Zenon
<1>5. daemon' = [daemon EXCEPT ![d] = n]
  BY <1>4
<1> QED
  BY <1>5, DaemonRecord DEF Becomes, Daemon

LEMMA DaemonResolves ==
  ASSUME LaunchTypes, NEW d \in Daemons, NEW e \in Endpoints,
         daemon' = [daemon EXCEPT ![d] = [@ EXCEPT !.at = "resolved", !.endpoint = e]]
  PROVE  Becomes(d, "resolved", e, daemon[d].why)
<1> DEFINE r == [at |-> daemon[d].at, endpoint |-> daemon[d].endpoint, why |-> daemon[d].why]
           h == [at |-> "resolved", endpoint |-> daemon[d].endpoint, why |-> daemon[d].why]
           n == [at |-> "resolved", endpoint |-> e, why |-> daemon[d].why]
<1>1. daemon[d] = r
  BY DaemonRecord DEF Daemon
<1>2. [r EXCEPT !.at = "resolved"] = h
  OBVIOUS
<1>3. [h EXCEPT !.endpoint = e] = n
  OBVIOUS
<1>4. [daemon[d] EXCEPT !.at = "resolved", !.endpoint = e] = n
  BY <1>1, <1>2, <1>3, Zenon
<1>5. daemon' = [daemon EXCEPT ![d] = n]
  BY <1>4
<1> QED
  BY <1>5, DaemonRecord DEF Becomes, Daemon, Stages, Starting

LEMMA TypesAreKept ==
  ASSUME LaunchTypes, NEW d \in Daemons, NEW to, NEW e, NEW why, Becomes(d, to, e, why),
         socket' \in [Endpoints -> Daemons \cup {"none"}], stays' \in [Clients -> SUBSET Endpoints]
  PROVE  LaunchTypes'
  BY DaemonMoves DEF LaunchTypes, Stages, Reasons

\* A step of a daemon that has bound nothing, and binds nothing, disturbs no one.
LEMMA OthersListen ==
  ASSUME LaunchInv, NEW d \in Daemons, \A e \in Endpoints : socket[e] # d,
         \A x \in Daemons \ {d} : daemon'[x] = daemon[x], UNCHANGED socket
  PROVE  SocketsAreBound' /\ \A e \in Endpoints : Listens(e)' <=> Listens(e)
  BY LaunchAssumption DEF LaunchInv, LaunchTypes, SocketsAreBound, Listens

Paths == {<<"runtime", "home">>, <<"runtime">>, <<"home">>}

\* What the invariant says of one client.
GoesOn(c) ==
  /\ look[c] = [left |-> look[c].left, to |-> look[c].to, found |-> look[c].found]
  /\ look[c].found = "looking" =>
       look[c].left \in Paths /\ \A e \in stays[c] : \E i \in DOMAIN look[c].left : look[c].left[i] = e
  /\ look[c].found = "absent" => stays[c] = {}

LEMMA LookWritten ==
  ASSUME NEW c, NEW l, NEW t, NEW f, look'[c] = [left |-> l, to |-> t, found |-> f],
         f = "looking" => l \in Paths /\ \A e \in stays'[c] : \E i \in DOMAIN l : l[i] = e,
         f = "absent" => stays'[c] = {}
  PROVE  GoesOn(c)'
<1>1. look'[c].left = l /\ look'[c].to = t /\ look'[c].found = f
  OBVIOUS
<1>2. look'[c] = [left |-> look'[c].left, to |-> look'[c].to, found |-> look'[c].found]
  BY <1>1
<1>3. look'[c].found = "looking" =>
        look'[c].left \in Paths /\ \A e \in stays'[c] : \E i \in DOMAIN look'[c].left : look'[c].left[i] = e
  BY <1>1, Zenon
<1>4. look'[c].found = "absent" => stays'[c] = {}
  BY <1>1
<1>5. Paths' = Paths
  BY DEF Paths
<1> QED
  BY <1>2, <1>3, <1>4, <1>5, Zenon DEF GoesOn

LEMMA LeftWritten ==
  ASSUME NEW l, NEW t, NEW f, NEW m
  PROVE  [[left |-> l, to |-> t, found |-> f] EXCEPT !.left = m] = [left |-> m, to |-> t, found |-> f]
  OBVIOUS

LEMMA OneLookGoesOn ==
  ASSUME LaunchInv, NEW c \in Clients, DOMAIN look' = Clients, GoesOn(c)',
         \A x \in Clients \ {c} : look'[x] = look[x] /\ stays'[x] = stays[x],
         \A x \in Clients : \A e \in stays'[x] : Listens(e)'
  PROVE  LooksGoOn' /\ NobodyIsMissed'
<1>1. \A x \in Clients \ {c} : GoesOn(x)'
  BY DEF LaunchInv, LooksGoOn, NobodyIsMissed, GoesOn, Paths
<1>2. \A x \in Clients : GoesOn(x)'
  BY <1>1
<1>3. LooksGoOn'
  BY <1>2 DEF LooksGoOn, GoesOn, Paths
<1> QED
  BY <1>2, <1>3 DEF NobodyIsMissed, GoesOn

LEMMA PathsEnd ==
  /\ Tail(<<"runtime", "home">>) = <<"home">> /\ Head(<<"runtime", "home">>) = "runtime"
  /\ Tail(<<"runtime">>) = <<>> /\ Head(<<"runtime">>) = "runtime"
  /\ Tail(<<"home">>) = <<>> /\ Head(<<"home">>) = "home"
  /\ <<"home">> # <<>>
  OBVIOUS

LEMMA LaunchGoesOn == LaunchInv /\ LaunchNext => LaunchInv'
<1> SUFFICES ASSUME LaunchInv, LaunchNext PROVE LaunchInv'
  OBVIOUS
<1> USE LaunchAssumption
<1>1. ASSUME NEW d \in Daemons, Resolve(d) \/ OpenStore(d) \/ MakeDirectory(d) PROVE LaunchInv'
  <2>1. daemon[d].at \in {"off", "resolved", "opened"} /\ UNCHANGED <<socket, look, stays>>
    BY <1>1 DEF Resolve, OpenStore, MakeDirectory
  <2>2. \A e \in Endpoints : socket[e] # d
    BY <2>1 DEF LaunchInv, SocketsAreBound
  <2>3. \E to, e, why : Becomes(d, to, e, why)
    <3>1. CASE Resolve(d)
      <4>1. PICK env \in Environments, asked_for \in Endpoints \cup {"default"} :
              IF asked_for = "default" /\ env = {}
              THEN Fail(d, "no_endpoint")
              ELSE IF "home" \notin env
              THEN Fail(d, "no_store")
              ELSE daemon' = [daemon EXCEPT ![d] =
                     [@ EXCEPT !.at = "resolved", !.endpoint = IF asked_for = "default" THEN Preferred(env) ELSE asked_for]]
        BY <3>1 DEF Resolve
      <4> DEFINE e == IF asked_for = "default" THEN Preferred(env) ELSE asked_for
      <4>2. e \in Endpoints
        BY DEF Preferred, Endpoints
      <4>3. CASE Fail(d, "no_endpoint") \/ Fail(d, "no_store")
        BY <4>3, DaemonFails DEF Fail, LaunchInv, Stages, Reasons
      <4>4. CASE daemon' = [daemon EXCEPT ![d] = [@ EXCEPT !.at = "resolved", !.endpoint = e]]
        BY <4>2, <4>4, DaemonResolves DEF LaunchInv
      <4> QED
        BY <4>1, <4>3, <4>4
    <3>2. CASE OpenStore(d) \/ MakeDirectory(d)
      <4>1. \/ Advance(d, "opened") \/ Advance(d, "made")
            \/ Fail(d, "no_store") \/ Fail(d, "no_directory")
        BY <3>2 DEF OpenStore, MakeDirectory
      <4>2. CASE Advance(d, "opened") \/ Advance(d, "made")
        BY <4>2, DaemonAdvances DEF LaunchInv, Stages, Starting
      <4>3. CASE Fail(d, "no_store") \/ Fail(d, "no_directory")
        BY <4>3, DaemonFails DEF Fail, LaunchInv, Stages, Reasons
      <4> QED
        BY <4>1, <4>2, <4>3
    <3> QED
      BY <1>1, <3>1, <3>2
  <2>types. LaunchTypes'
    BY <2>1, <2>3, TypesAreKept DEF LaunchInv, LaunchTypes
  <2>others. \A x \in Daemons \ {d} : daemon'[x] = daemon[x]
    BY <2>3, DaemonMoves DEF LaunchInv
  <2>4. SocketsAreBound' /\ \A e \in Endpoints : Listens(e)' <=> Listens(e)
    BY <2>1, <2>2, <2>others, OthersListen
  <2>5. LooksGoOn' /\ NobodyIsMissed'
    BY <2>1, <2>types, <2>4, LooksAreKept DEF LaunchInv, LaunchTypes, LooksGoOn
  <2> QED
    BY <2>types, <2>4, <2>5 DEF LaunchInv
<1>2. ASSUME NEW d \in Daemons, RemoveStale(d) PROVE LaunchInv'
  <2> DEFINE f == daemon[d].endpoint
  <2>1. /\ daemon[d].at = "made" /\ Advance(d, "cleared")
        /\ socket' = [socket EXCEPT ![f] = "none"]
        /\ stays' = [c \in Clients |-> stays[c] \ {f}]
        /\ UNCHANGED look
    BY <1>2 DEF RemoveStale
  <2>become. Becomes(d, "cleared", daemon[d].endpoint, daemon[d].why)
    BY <2>1, DaemonAdvances DEF LaunchInv, Stages, Starting
  <2>2. \A e \in Endpoints : socket[e] # d
    BY <2>1 DEF LaunchInv, SocketsAreBound
  <2>3. LaunchTypes'
    <3>1. socket' \in [Endpoints -> Daemons \cup {"none"}] /\ stays' \in [Clients -> SUBSET Endpoints]
      BY <2>1 DEF LaunchInv, LaunchTypes
    <3> QED
      BY <2>become, <3>1, TypesAreKept DEF LaunchInv
  <2>4. \A e \in Endpoints : e # f => socket'[e] = socket[e]
    BY <2>1 DEF LaunchInv, LaunchTypes
  <2>5. \A x \in Daemons \ {d} : daemon'[x] = daemon[x]
    BY <2>become, DaemonMoves DEF LaunchInv
  <2>6. \A e \in Endpoints : socket'[e] # "none" => socket'[e] = socket[e] /\ socket[e] \in Daemons \ {d}
    BY <2>1, <2>2, <2>4 DEF LaunchInv, LaunchTypes
  <2>7. SocketsAreBound'
    BY <2>5, <2>6 DEF LaunchInv, SocketsAreBound
  <2>8. \A e \in Endpoints : e # f /\ Listens(e) => Listens(e)'
    BY <2>2, <2>4, <2>5 DEF Listens, LaunchInv, LaunchTypes
  <2>9. LooksGoOn' /\ NobodyIsMissed'
    <3>1. \A c \in Clients : stays'[c] = stays[c] \ {f} /\ stays[c] \subseteq Endpoints
      BY <2>1 DEF LaunchInv, LaunchTypes
    <3>2. \A c \in Clients : \A e \in stays'[c] : Listens(e)'
      BY <3>1, <2>8 DEF LaunchInv, LooksGoOn
    <3> QED
      BY <2>1, <2>3, <3>1, <3>2, LooksAreKept DEF LaunchTypes
  <2> QED
    BY <2>3, <2>7, <2>9 DEF LaunchInv
<1>3. ASSUME NEW d \in Daemons, Bind(d) PROVE LaunchInv'
  <2> DEFINE f == daemon[d].endpoint
  <2>1. daemon[d].at = "cleared" /\ UNCHANGED <<look, stays>>
    BY <1>3 DEF Bind
  <2>2. \A e \in Endpoints : socket[e] # d
    BY <2>1 DEF LaunchInv, SocketsAreBound
  <2>3. CASE socket[f] # "none"
    <3>1. Fail(d, "in_use") /\ UNCHANGED socket
      BY <1>3, <2>3 DEF Bind
    <3>become. Becomes(d, "failed", daemon[d].endpoint, "in_use")
      BY <3>1, DaemonFails DEF Fail, LaunchInv, Stages, Reasons
    <3>2. LaunchTypes' /\ \A x \in Daemons \ {d} : daemon'[x] = daemon[x]
      BY <2>1, <3>1, <3>become, TypesAreKept, DaemonMoves DEF LaunchInv, LaunchTypes
    <3>3. SocketsAreBound' /\ \A e \in Endpoints : Listens(e)' <=> Listens(e)
      BY <2>2, <3>1, <3>2, OthersListen
    <3>4. LooksGoOn' /\ NobodyIsMissed'
      BY <2>1, <3>2, <3>3, LooksAreKept DEF LaunchInv, LaunchTypes, LooksGoOn
    <3> QED
      BY <3>2, <3>3, <3>4 DEF LaunchInv
  <2>4. CASE socket[f] = "none"
    <3>1. Advance(d, "bound") /\ socket' = [socket EXCEPT ![f] = d]
      BY <1>3, <2>4 DEF Bind, Bound
    <3>become. Becomes(d, "bound", f, daemon[d].why)
      BY <3>1, DaemonAdvances DEF LaunchInv, Stages, Starting
    <3>2. LaunchTypes'
      <4>1. socket' \in [Endpoints -> Daemons \cup {"none"}] /\ stays' \in [Clients -> SUBSET Endpoints]
        BY <2>1, <3>1 DEF LaunchInv, LaunchTypes
      <4> QED
        BY <3>become, <4>1, TypesAreKept DEF LaunchInv
    <3>3. /\ \A x \in Daemons \ {d} : daemon'[x] = daemon[x]
          /\ daemon'[d].at = "bound" /\ daemon'[d].endpoint = f
          /\ \A e \in Endpoints : IF e = f THEN socket'[e] = d ELSE socket'[e] = socket[e]
      BY <3>1, <3>become, DaemonMoves DEF LaunchInv, LaunchTypes
    <3>4. SocketsAreBound'
      <4>1. \A e \in Endpoints \ {f} : socket'[e] # "none" => socket'[e] \in Daemons \ {d} /\ socket'[e] = socket[e]
        BY <2>2, <3>3 DEF LaunchInv, LaunchTypes
      <4> QED
        BY <3>3, <4>1 DEF LaunchInv, SocketsAreBound
    <3>5. \A e \in Endpoints : Listens(e) => Listens(e)'
      BY <2>2, <2>4, <3>3 DEF Listens, LaunchInv, LaunchTypes
    <3>6. LooksGoOn' /\ NobodyIsMissed'
      BY <2>1, <3>2, <3>5, LooksAreKept DEF LaunchInv, LaunchTypes, LooksGoOn
    <3> QED
      BY <3>2, <3>4, <3>6 DEF LaunchInv
  <2> QED
    BY <2>3, <2>4
<1>4. ASSUME NEW d \in Daemons, Guard(d) \/ Announce(d) PROVE LaunchInv'
  <2>1. daemon[d].at \in {"bound", "guarded"} /\ UNCHANGED <<socket, look, stays>>
    BY <1>4 DEF Guard, Announce
  <2>2. \E to \in {"guarded", "serving", "failed"}, why \in Reasons :
          /\ Becomes(d, to, daemon[d].endpoint, why)
          /\ to = "failed" => socket[daemon[d].endpoint] = "none"
    <3>1. CASE Advance(d, "guarded") \/ Advance(d, "serving")
      BY <3>1, DaemonAdvances, DaemonRecord DEF LaunchInv, Stages, Starting
    <3>2. CASE Fail(d, "no_file") /\ socket[daemon[d].endpoint] = "none"
      BY <3>2, DaemonFails DEF Fail, LaunchInv, Stages, Reasons
    <3> QED
      BY <1>4, <3>1, <3>2 DEF Guard, Announce
  <2>3. LaunchTypes'
    BY <2>1, <2>2, TypesAreKept DEF LaunchInv, LaunchTypes
  <2>4. /\ \A x \in Daemons \ {d} : daemon'[x] = daemon[x]
        /\ daemon'[d].endpoint = daemon[d].endpoint
        /\ daemon'[d].at \in {"guarded", "serving"} \/ \A e \in Endpoints : socket[e] # d
    BY <2>2, DaemonMoves DEF LaunchInv, SocketsAreBound
  <2>5. SocketsAreBound' /\ \A e \in Endpoints : Listens(e) => Listens(e)'
    BY <2>1, <2>4 DEF LaunchInv, LaunchTypes, SocketsAreBound, Listens
  <2>6. LooksGoOn' /\ NobodyIsMissed'
    BY <2>1, <2>3, <2>5, LooksAreKept DEF LaunchInv, LaunchTypes, LooksGoOn
  <2> QED
    BY <2>3, <2>5, <2>6 DEF LaunchInv
<1>5. ASSUME NEW d \in Daemons, Kill(d) PROVE LaunchInv'
  <2>1. /\ daemon[d].at \in Starting \cup {"serving"}
        /\ Becomes(d, "killed", daemon[d].endpoint, daemon[d].at)
        /\ stays' = [c \in Clients |-> {e \in stays[c] : socket[e] # d}]
        /\ UNCHANGED <<socket, look>>
    <3>1. daemon[d].at \in Reasons
      BY <1>5 DEF Kill, Reasons
    <3>2. daemon' = [daemon EXCEPT ![d] = [@ EXCEPT !.at = "killed", !.why = daemon[d].at]]
      BY <1>5 DEF Kill
    <3>3. Becomes(d, "killed", daemon[d].endpoint, daemon[d].at)
      BY <3>1, <3>2, DaemonFails DEF LaunchInv, Stages
    <3> QED
      BY <1>5, <3>3 DEF Kill
  <2>2. LaunchTypes'
    <3>1. stays' \in [Clients -> SUBSET Endpoints]
      BY <2>1 DEF LaunchInv, LaunchTypes
    <3> QED
      BY <2>1, <3>1, TypesAreKept DEF LaunchInv, LaunchTypes
  <2>3. /\ \A x \in Daemons \ {d} : daemon'[x] = daemon[x]
        /\ daemon'[d].endpoint = daemon[d].endpoint /\ daemon'[d].at = "killed"
    BY <2>1, DaemonMoves DEF LaunchInv
  <2>4. SocketsAreBound' /\ \A e \in Endpoints : socket[e] # d /\ Listens(e) => Listens(e)'
    BY <2>1, <2>3 DEF LaunchInv, LaunchTypes, SocketsAreBound, Listens
  <2>5. \A c \in Clients : stays'[c] \subseteq stays[c] /\ \A e \in stays'[c] : Listens(e)'
    BY <2>1, <2>4 DEF LaunchInv, LaunchTypes, LooksGoOn
  <2>6. LooksGoOn' /\ NobodyIsMissed'
    BY <2>1, <2>2, <2>5, LooksAreKept DEF LaunchTypes
  <2> QED
    BY <2>2, <2>4, <2>6 DEF LaunchInv
<1>6. ASSUME NEW c \in Clients, LookFor(c) PROVE LaunchInv'
  <2>1. look[c].found = "not_asked" /\ UNCHANGED <<daemon, socket>>
    BY <1>6 DEF LookFor
  <2>2. PICK env \in Environments :
          /\ look' = [look EXCEPT ![c] =
               IF env = {} THEN NotFound ELSE [@ EXCEPT !.left = Candidates(env), !.found = "looking"]]
          /\ stays' = [stays EXCEPT ![c] = {e \in Endpoints : e \in env /\ Listens(e)}]
    BY <1>6 DEF LookFor
  <2>3. LaunchTypes' /\ SocketsAreBound' /\ \A e \in Endpoints : Listens(e)' <=> Listens(e)
    BY <2>1, <2>2 DEF LaunchInv, LaunchTypes, SocketsAreBound, Listens
  <2>4. /\ \A x \in Clients \ {c} : look'[x] = look[x] /\ stays'[x] = stays[x]
        /\ stays'[c] = {e \in Endpoints : e \in env /\ Listens(e)}
        /\ DOMAIN look' = Clients
    BY <2>2 DEF LaunchInv, LaunchTypes, LooksGoOn
  <2>5. \A x \in Clients : \A e \in stays'[x] : Listens(e)'
    BY <2>3, <2>4 DEF LaunchInv, LaunchTypes, LooksGoOn
  <2>r. /\ look[c] = [left |-> look[c].left, to |-> look[c].to, found |-> look[c].found]
        /\ stays'[c] \subseteq env
    BY <2>4 DEF LaunchInv, LooksGoOn
  <2>at. look'[c] = IF env = {} THEN NotFound ELSE [look[c] EXCEPT !.left = Candidates(env), !.found = "looking"]
    BY <2>2 DEF LaunchInv, LooksGoOn
  <2>6. CASE env = {}
    <3>1. look'[c] = [left |-> <<>>, to |-> "none", found |-> "absent"] /\ stays'[c] = {}
      BY <2>r, <2>at, <2>6 DEF NotFound
    <3>2. GoesOn(c)'
      BY <3>1 DEF GoesOn
    <3> QED
      BY <2>3, <2>4, <2>5, <3>2, OneLookGoesOn DEF LaunchInv
  <2>7. CASE env # {}
    <3>1. env = {"runtime", "home"} \/ env = {"runtime"} \/ env = {"home"}
      BY <2>7
    <3>2. Candidates(env) \in Paths /\ \A e \in env : \E i \in DOMAIN Candidates(env) : Candidates(env)[i] = e
      <4>1. CASE env = {"runtime", "home"}
        <5>1. Candidates(env) = <<"runtime", "home">>
          BY <4>1 DEF Candidates
        <5>2. Candidates(env)[1] = "runtime" /\ Candidates(env)[2] = "home" /\ DOMAIN Candidates(env) = {1, 2}
          BY <5>1
        <5> QED
          BY <4>1, <5>1, <5>2 DEF Paths
      <4>2. CASE env = {"runtime"}
        <5>1. Candidates(env) = <<"runtime">>
          BY <4>2 DEF Candidates, Preferred
        <5>2. Candidates(env)[1] = "runtime" /\ DOMAIN Candidates(env) = {1}
          BY <5>1
        <5> QED
          BY <4>2, <5>1, <5>2 DEF Paths
      <4>3. CASE env = {"home"}
        <5>1. Candidates(env) = <<"home">>
          BY <4>3 DEF Candidates, Preferred
        <5>2. Candidates(env)[1] = "home" /\ DOMAIN Candidates(env) = {1}
          BY <5>1
        <5> QED
          BY <4>3, <5>1, <5>2 DEF Paths
      <4> QED
        BY <3>1, <4>1, <4>2, <4>3
    <3> DEFINE r == [left |-> look[c].left, to |-> look[c].to, found |-> look[c].found]
               h == [left |-> Candidates(env), to |-> look[c].to, found |-> look[c].found]
               n == [left |-> Candidates(env), to |-> look[c].to, found |-> "looking"]
    <3>3. [r EXCEPT !.left = Candidates(env)] = h
      OBVIOUS
    <3>4. [h EXCEPT !.found = "looking"] = n
      OBVIOUS
    <3>5. [look[c] EXCEPT !.left = Candidates(env), !.found = "looking"] = n
      BY <2>r, <3>3, <3>4, Zenon
    <3>6. look'[c] = n
      BY <2>at, <2>7, <3>5, Zenon
    <3>7. GoesOn(c)'
      <4>1. \A e \in stays'[c] : \E i \in DOMAIN Candidates(env) : Candidates(env)[i] = e
        BY <2>r, <3>2
      <4> QED
        BY <3>2, <3>6, <4>1, LookWritten
    <3> QED
      BY <2>3, <2>4, <2>5, <3>7, OneLookGoesOn DEF LaunchInv
  <2> QED
    BY <2>6, <2>7
<1>7. ASSUME NEW c \in Clients, Try(c) PROVE LaunchInv'
  <2> DEFINE e == Head(look[c].left)
             rest == Tail(look[c].left)
  <2>1. /\ look[c].found = "looking" /\ UNCHANGED <<daemon, socket, stays>>
        /\ look' = [look EXCEPT ![c] =
             IF Listens(e) THEN Connected(e) ELSE IF rest = <<>> THEN NotFound ELSE [@ EXCEPT !.left = rest]]
    BY <1>7 DEF Try
  <2>2. LaunchTypes' /\ SocketsAreBound' /\ \A f \in Endpoints : Listens(f)' <=> Listens(f)
    BY <2>1 DEF LaunchInv, LaunchTypes, SocketsAreBound, Listens
  <2>3. DOMAIN look' = Clients /\ \A x \in Clients \ {c} : look'[x] = look[x]
    BY <2>1 DEF LaunchInv, LooksGoOn
  <2>4. look[c].left = <<"runtime", "home">> \/ look[c].left = <<"runtime">> \/ look[c].left = <<"home">>
    BY <2>1 DEF LaunchInv, LooksGoOn
  <2>5. /\ \A f \in stays[c] : f \in Endpoints /\ Listens(f) /\ \E i \in DOMAIN look[c].left : look[c].left[i] = f
        /\ look[c] = [left |-> look[c].left, to |-> look[c].to, found |-> look[c].found]
        /\ look'[c] = IF Listens(e) THEN Connected(e) ELSE IF rest = <<>> THEN NotFound ELSE [look[c] EXCEPT !.left = rest]
    BY <2>1 DEF LaunchInv, LaunchTypes, LooksGoOn
  <2>stay. /\ \A x \in Clients : \A f \in stays'[x] : Listens(f)'
           /\ \A x \in Clients \ {c} : look'[x] = look[x] /\ stays'[x] = stays[x]
    BY <2>1, <2>2, <2>3 DEF LaunchInv, LaunchTypes, LooksGoOn
  <2>goes. GoesOn(c)'
    <3>1. CASE Listens(e)
      <4>1. look'[c] = [left |-> <<>>, to |-> socket[e], found |-> "connected"]
        BY <2>5, <3>1 DEF Connected
      <4> QED
        BY <4>1 DEF GoesOn
    <3>2. CASE ~Listens(e) /\ rest = <<>>
      <4>1. look'[c] = [left |-> <<>>, to |-> "none", found |-> "absent"]
        BY <2>5, <3>2 DEF NotFound
      <4>2. \/ look[c].left = <<"runtime">> /\ e = "runtime"
            \/ look[c].left = <<"home">> /\ e = "home"
        BY <2>4, <3>2, PathsEnd
      <4>3. \A i \in DOMAIN look[c].left : look[c].left[i] = e
        BY <4>2
      <4>4. stays[c] = {}
        BY <2>5, <3>2, <4>3
      <4> QED
        BY <2>1, <4>1, <4>4 DEF GoesOn
    <3>3. CASE ~Listens(e) /\ rest # <<>>
      <4>1. look[c].left = <<"runtime", "home">> /\ rest = <<"home">> /\ e = "runtime"
        BY <2>4, <3>3, PathsEnd
      <4> DEFINE n == [left |-> rest, to |-> look[c].to, found |-> look[c].found]
      <4>2. PICK m : m = rest
        OBVIOUS
      <4> DEFINE r == [left |-> look[c].left, to |-> look[c].to, found |-> look[c].found]
      <4>written. [r EXCEPT !.left = m] = [left |-> m, to |-> look[c].to, found |-> look[c].found]
        OBVIOUS
      <4>3. [look[c] EXCEPT !.left = rest] = n
        BY <2>5, <4>2, <4>written, Zenon
      <4>4. look'[c] = n
        BY <2>5, <3>3, <4>3, Zenon
      <4>5. \A i \in DOMAIN look[c].left : look[c].left[i] = "runtime" \/ look[c].left[i] = "home"
        BY <4>1
      <4>6. \A f \in stays[c] : f = "home"
        BY <2>5, <3>3, <4>1, <4>5
      <4>7. \E i \in DOMAIN rest : rest[i] = "home"
        <5>1. <<"home">>[1] = "home" /\ DOMAIN <<"home">> = {1}
          OBVIOUS
        <5> QED
          BY <4>1, <5>1
      <4>8. rest \in Paths
        BY <4>1 DEF Paths
      <4>9. n = [left |-> rest, to |-> look[c].to, found |-> "looking"] /\ stays'[c] = stays[c]
        BY <2>1
      <4>10. look'[c] = [left |-> rest, to |-> look[c].to, found |-> "looking"]
        BY <4>4, <4>9, Zenon
      <4>11. \A f \in stays'[c] : \E i \in DOMAIN rest : rest[i] = f
        BY <4>6, <4>7, <4>9, Zenon
      <4> HIDE DEF rest
      <4> QED
        BY <4>8, <4>10, <4>11, LookWritten
    <3> QED
      BY <3>1, <3>2, <3>3
  <2> QED
    BY <2>2, <2>3, <2>stay, <2>goes, OneLookGoesOn DEF LaunchInv
<1>8. ASSUME NEW c \in Clients, Handshake(c) PROVE LaunchInv'
  <2>1. PICK f \in {"open", "trouble"} : look' = [look EXCEPT ![c].found = f]
    BY <1>8 DEF Handshake
  <2>2. UNCHANGED <<daemon, socket, stays>>
    BY <1>8 DEF Handshake
  <2> DEFINE r == [left |-> look[c].left, to |-> look[c].to, found |-> look[c].found]
             n == [left |-> look[c].left, to |-> look[c].to, found |-> f]
  <2>3. look'[c] = n
    <3>1. look[c] = r /\ look'[c] = [look[c] EXCEPT !.found = f]
      BY <2>1 DEF LaunchInv, LooksGoOn
    <3>2. [r EXCEPT !.found = f] = n
      OBVIOUS
    <3> QED
      BY <3>1, <3>2, Zenon
  <2>4. DOMAIN look' = Clients /\ \A x \in Clients \ {c} : look'[x] = look[x]
    BY <2>1 DEF LaunchInv, LooksGoOn
  <2>5. LaunchTypes' /\ SocketsAreBound' /\ \A e \in Endpoints : Listens(e)' <=> Listens(e)
    BY <2>2 DEF LaunchInv, LaunchTypes, SocketsAreBound, Listens
  <2>6. GoesOn(c)'
    BY <2>3 DEF GoesOn
  <2>7. \A x \in Clients : \A e \in stays'[x] : Listens(e)'
    BY <2>2, <2>5 DEF LaunchInv, LaunchTypes, LooksGoOn
  <2> QED
    BY <2>2, <2>4, <2>5, <2>6, <2>7, OneLookGoesOn DEF LaunchInv
<1> QED
  BY <1>1, <1>2, <1>3, <1>4, <1>5, <1>6, <1>7, <1>8 DEF LaunchNext, Start

LEMMA LaunchStep == LaunchInv /\ [Next]_vars => LaunchInv'
<1>1. Next => LaunchNext \/ UNCHANGED launchVars
  BY DEF Next, WithPeople, WithTheMachine, InTheWindow, AtTheTerminal, AtTheEndpoint,
         AtTheDoor, OnThePage, peopleVars
<1>2. UNCHANGED vars => UNCHANGED launchVars
  BY DEF vars, peopleVars
<1> QED
  BY <1>1, <1>2, LaunchRests, LaunchGoesOn

\* Any number of daemons that start, fail and are killed while any number of clients look:
\* a client that says nothing is listening has not overlooked one (NobodyIsMissed).
THEOREM LooksAreThorough == Spec => []NobodyIsMissed
<1>1. Init => LaunchInv
  BY LaunchBegins DEF Init
<1>2. LaunchInv => NobodyIsMissed
  BY DEF LaunchInv
<1> QED
  BY <1>1, <1>2, LaunchStep, PTL DEF Spec

\* An endpoint without a file has no daemon behind it, or one that cleared the file away
\* and is about to bind its own, or was killed before it did.
EndpointsHaveOwners ==
  \A e \in Endpoints : socket[e] = "none" =>
    \/ \A d \in Daemons : daemon[d].endpoint = e => daemon[d].at \notin {"bound", "guarded", "serving"}
    \/ \E d \in Daemons :
         /\ daemon[d].endpoint = e
         /\ daemon[d].at = "cleared" \/ (daemon[d].at = "killed" /\ daemon[d].why = "cleared")

OwnersInv == LaunchInv /\ EndpointsHaveOwners

LEMMA OwnersAnswer == OwnersInv => SomeoneAnswers
<1> SUFFICES ASSUME OwnersInv, NEW e \in Endpoints,
                    \A d \in Daemons : daemon[d].endpoint = e => daemon[d].at \notin Starting,
                    NEW s \in Daemons, daemon[s].endpoint = e, daemon[s].at = "serving"
             PROVE  \/ Listens(e)
                    \/ socket[e] # "none" /\ daemon[socket[e]].at = "killed"
                    \/ /\ socket[e] = "none"
                       /\ \E d \in Daemons : daemon[d].endpoint = e /\ daemon[d].at = "killed" /\ daemon[d].why = "cleared"
  BY DEF SomeoneAnswers
<1>1. CASE socket[e] = "none"
  BY <1>1 DEF OwnersInv, EndpointsHaveOwners, Starting
<1>2. CASE socket[e] # "none"
  <2>1. socket[e] \in Daemons
    BY <1>2 DEF OwnersInv, LaunchInv, LaunchTypes
  <2>2. daemon[socket[e]].endpoint = e /\ daemon[socket[e]].at \in {"bound", "guarded", "serving", "killed"}
    BY <1>2 DEF OwnersInv, LaunchInv, SocketsAreBound
  <2> QED
    BY <1>2, <2>1, <2>2 DEF Listens, Starting
<1> QED
  BY <1>1, <1>2

LEMMA OwnersBegin == LaunchInit => EndpointsHaveOwners
  BY DEF LaunchInit, EndpointsHaveOwners, Endpoints

LEMMA OwnersRest == EndpointsHaveOwners /\ UNCHANGED <<daemon, socket>> => EndpointsHaveOwners'
  BY DEF EndpointsHaveOwners

\* A daemon that has cleared nothing goes on: it may be one that has its file by now.
LEMMA OwnersStay ==
  ASSUME OwnersInv, NEW d \in Daemons, NEW to, NEW e, NEW why, Becomes(d, to, e, why), UNCHANGED socket,
         daemon[d].at \notin {"cleared", "killed"},
         to \in {"bound", "guarded", "serving"} =>
           daemon[d].at \in {"bound", "guarded", "serving"} /\ e = daemon[d].endpoint
  PROVE  EndpointsHaveOwners'
<1>1. /\ \A x \in Daemons \ {d} : daemon'[x] = daemon[x]
      /\ daemon'[d].at = to /\ daemon'[d].endpoint = e
  BY DaemonMoves DEF OwnersInv, LaunchInv
<1> SUFFICES ASSUME NEW f \in Endpoints, socket[f] = "none"
             PROVE  \/ \A x \in Daemons : daemon'[x].endpoint = f => daemon'[x].at \notin {"bound", "guarded", "serving"}
                    \/ \E x \in Daemons :
                         /\ daemon'[x].endpoint = f
                         /\ daemon'[x].at = "cleared" \/ (daemon'[x].at = "killed" /\ daemon'[x].why = "cleared")
  BY DEF EndpointsHaveOwners
<1>2. CASE \A x \in Daemons : daemon[x].endpoint = f => daemon[x].at \notin {"bound", "guarded", "serving"}
  BY <1>1, <1>2
<1>3. CASE \E x \in Daemons :
             /\ daemon[x].endpoint = f
             /\ daemon[x].at = "cleared" \/ (daemon[x].at = "killed" /\ daemon[x].why = "cleared")
  BY <1>1, <1>3
<1> QED
  BY <1>2, <1>3 DEF OwnersInv, EndpointsHaveOwners

LEMMA OwnersGoOn == OwnersInv /\ LaunchNext => EndpointsHaveOwners'
<1> SUFFICES ASSUME OwnersInv, LaunchNext PROVE EndpointsHaveOwners'
  OBVIOUS
<1> USE LaunchAssumption
<1>0. LaunchInv /\ LaunchTypes /\ EndpointsHaveOwners
  BY DEF OwnersInv, LaunchInv
<1>1. ASSUME NEW d \in Daemons, Resolve(d) PROVE EndpointsHaveOwners'
  <2>1. PICK env \in Environments, asked_for \in Endpoints \cup {"default"} :
          IF asked_for = "default" /\ env = {}
          THEN Fail(d, "no_endpoint")
          ELSE IF "home" \notin env
          THEN Fail(d, "no_store")
          ELSE daemon' = [daemon EXCEPT ![d] =
                 [@ EXCEPT !.at = "resolved", !.endpoint = IF asked_for = "default" THEN Preferred(env) ELSE asked_for]]
    BY <1>1 DEF Resolve
  <2>2. daemon[d].at = "off" /\ UNCHANGED socket
    BY <1>1 DEF Resolve
  <2> DEFINE e == IF asked_for = "default" THEN Preferred(env) ELSE asked_for
  <2>3. e \in Endpoints
    BY DEF Preferred, Endpoints
  <2>4. CASE Fail(d, "no_endpoint") \/ Fail(d, "no_store")
    <3>1. \E why : Becomes(d, "failed", daemon[d].endpoint, why)
      BY <1>0, <2>4, DaemonFails DEF Fail, Stages, Reasons
    <3> QED
      BY <2>2, <3>1, OwnersStay
  <2>5. CASE daemon' = [daemon EXCEPT ![d] = [@ EXCEPT !.at = "resolved", !.endpoint = e]]
    <3>1. Becomes(d, "resolved", e, daemon[d].why)
      BY <1>0, <2>3, <2>5, DaemonResolves
    <3> QED
      BY <2>2, <3>1, OwnersStay
  <2> QED
    BY <2>1, <2>4, <2>5
<1>2. ASSUME NEW d \in Daemons, OpenStore(d) \/ MakeDirectory(d) PROVE EndpointsHaveOwners'
  <2>1. daemon[d].at \in {"resolved", "opened"} /\ UNCHANGED socket
    BY <1>2 DEF OpenStore, MakeDirectory
  <2>2. \E to \in {"opened", "made", "failed"} : \E why : Becomes(d, to, daemon[d].endpoint, why)
    <3>1. CASE Advance(d, "opened") \/ Advance(d, "made")
      BY <1>0, <3>1, DaemonAdvances DEF Stages, Starting
    <3>2. CASE Fail(d, "no_store") \/ Fail(d, "no_directory")
      BY <1>0, <3>2, DaemonFails DEF Fail, Stages, Reasons
    <3> QED
      BY <1>2, <3>1, <3>2 DEF OpenStore, MakeDirectory
  <2> QED
    BY <2>1, <2>2, OwnersStay
<1>3. ASSUME NEW d \in Daemons, RemoveStale(d) PROVE EndpointsHaveOwners'
  <2> DEFINE f == daemon[d].endpoint
  <2>1. daemon[d].at = "made" /\ Advance(d, "cleared") /\ socket' = [socket EXCEPT ![f] = "none"]
    BY <1>3 DEF RemoveStale
  <2>2. Becomes(d, "cleared", f, daemon[d].why)
    BY <1>0, <2>1, DaemonAdvances DEF Stages, Starting
  <2>3. /\ \A x \in Daemons \ {d} : daemon'[x] = daemon[x]
        /\ daemon'[d].at = "cleared" /\ daemon'[d].endpoint = f
        /\ \A e \in Endpoints \ {f} : socket'[e] = socket[e]
    BY <1>0, <2>1, <2>2, DaemonMoves DEF LaunchTypes
  <2> SUFFICES ASSUME NEW e \in Endpoints, socket'[e] = "none"
               PROVE  \/ \A x \in Daemons : daemon'[x].endpoint = e => daemon'[x].at \notin {"bound", "guarded", "serving"}
                      \/ \E x \in Daemons :
                           /\ daemon'[x].endpoint = e
                           /\ daemon'[x].at = "cleared" \/ (daemon'[x].at = "killed" /\ daemon'[x].why = "cleared")
    BY DEF EndpointsHaveOwners
  <2>4. CASE e = f
    <3>1. daemon'[d].endpoint = e /\ daemon'[d].at = "cleared"
      BY <2>3, <2>4
    <3> QED
      BY <3>1
  <2>5. CASE e # f
    BY <1>0, <2>1, <2>3, <2>5 DEF EndpointsHaveOwners
  <2> QED
    BY <2>4, <2>5
<1>4. ASSUME NEW d \in Daemons, Bind(d) PROVE EndpointsHaveOwners'
  <2> DEFINE f == daemon[d].endpoint
  <2>1. daemon[d].at = "cleared"
    BY <1>4 DEF Bind
  <2>2. /\ \A x \in Daemons \ {d} : daemon'[x] = daemon[x]
        /\ daemon'[d].at \in {"bound", "failed"} /\ daemon'[d].endpoint = f
        /\ \A e \in Endpoints : IF e = f THEN socket'[e] # "none" ELSE socket'[e] = socket[e]
    <3>1. CASE socket[f] = "none"
      <4>1. Advance(d, "bound") /\ socket' = [socket EXCEPT ![f] = d]
        BY <1>4, <3>1 DEF Bind, Bound
      <4>2. Becomes(d, "bound", f, daemon[d].why)
        BY <1>0, <4>1, DaemonAdvances DEF Stages, Starting
      <4>3. \A e \in Endpoints : IF e = f THEN socket'[e] # "none" ELSE socket'[e] = socket[e]
        BY <1>0, <4>1 DEF LaunchTypes
      <4> QED
        BY <1>0, <4>2, <4>3, DaemonMoves
    <3>2. CASE socket[f] # "none"
      <4>1. Fail(d, "in_use") /\ UNCHANGED socket
        BY <1>4, <3>2 DEF Bind
      <4>2. Becomes(d, "failed", f, "in_use")
        BY <1>0, <4>1, DaemonFails DEF Fail, Stages, Reasons
      <4> QED
        BY <1>0, <3>2, <4>1, <4>2, DaemonMoves
    <3> QED
      BY <3>1, <3>2
  <2> SUFFICES ASSUME NEW e \in Endpoints, socket'[e] = "none"
               PROVE  \/ \A x \in Daemons : daemon'[x].endpoint = e => daemon'[x].at \notin {"bound", "guarded", "serving"}
                      \/ \E x \in Daemons :
                           /\ daemon'[x].endpoint = e
                           /\ daemon'[x].at = "cleared" \/ (daemon'[x].at = "killed" /\ daemon'[x].why = "cleared")
    BY DEF EndpointsHaveOwners
  <2> QED
    BY <1>0, <2>1, <2>2 DEF EndpointsHaveOwners
<1>5. ASSUME NEW d \in Daemons, Guard(d) \/ Announce(d) PROVE EndpointsHaveOwners'
  <2>1. daemon[d].at \in {"bound", "guarded"} /\ UNCHANGED socket
    BY <1>5 DEF Guard, Announce
  <2>2. \E to, why : Becomes(d, to, daemon[d].endpoint, why)
    <3>1. CASE Advance(d, "guarded") \/ Advance(d, "serving")
      BY <1>0, <3>1, DaemonAdvances DEF Stages, Starting
    <3>2. CASE Fail(d, "no_file")
      BY <1>0, <3>2, DaemonFails DEF Fail, Stages, Reasons
    <3> QED
      BY <1>5, <3>1, <3>2 DEF Guard, Announce
  <2> QED
    BY <2>1, <2>2, OwnersStay
<1>6. ASSUME NEW d \in Daemons, Kill(d) PROVE EndpointsHaveOwners'
  <2>1. /\ daemon[d].at \in Starting \cup {"serving"} /\ UNCHANGED socket
        /\ daemon' = [daemon EXCEPT ![d] = [@ EXCEPT !.at = "killed", !.why = daemon[d].at]]
    BY <1>6 DEF Kill
  <2>2. Becomes(d, "killed", daemon[d].endpoint, daemon[d].at)
    BY <1>0, <2>1, DaemonFails DEF Stages, Reasons
  <2>3. /\ \A x \in Daemons \ {d} : daemon'[x] = daemon[x]
        /\ daemon'[d].at = "killed" /\ daemon'[d].endpoint = daemon[d].endpoint
    BY <1>0, <2>2, DaemonMoves
  <2>4. daemon'[d].why = daemon[d].at
    BY <1>0, <2>2 DEF Becomes, Daemon, LaunchTypes
  <2> SUFFICES ASSUME NEW e \in Endpoints, socket[e] = "none"
               PROVE  \/ \A x \in Daemons : daemon'[x].endpoint = e => daemon'[x].at \notin {"bound", "guarded", "serving"}
                      \/ \E x \in Daemons :
                           /\ daemon'[x].endpoint = e
                           /\ daemon'[x].at = "cleared" \/ (daemon'[x].at = "killed" /\ daemon'[x].why = "cleared")
    BY <2>1 DEF EndpointsHaveOwners
  <2> QED
    BY <1>0, <2>1, <2>3, <2>4 DEF EndpointsHaveOwners, Starting
<1>7. ASSUME NEW c \in Clients, LookFor(c) \/ Try(c) \/ Handshake(c) PROVE EndpointsHaveOwners'
  BY <1>0, <1>7, OwnersRest DEF LookFor, Try, Handshake
<1> QED
  BY <1>1, <1>2, <1>3, <1>4, <1>5, <1>6, <1>7 DEF LaunchNext, Start

\* Any number of daemons that start at once, on any endpoints, and are killed anywhere:
\* when all have come up or given up, one of those that announced themselves can be
\* reached, or a kill left its file or the absence of one (SomeoneAnswers).
THEOREM ADaemonAnswers == Spec => []SomeoneAnswers
<1>1. Init => OwnersInv
  BY LaunchBegins, OwnersBegin DEF Init, OwnersInv
<1>2. OwnersInv /\ [Next]_vars => OwnersInv'
  <2>1. Next => LaunchNext \/ UNCHANGED launchVars
    BY DEF Next, WithPeople, WithTheMachine, InTheWindow, AtTheTerminal, AtTheEndpoint,
           AtTheDoor, OnThePage, peopleVars
  <2>2. UNCHANGED vars => UNCHANGED launchVars
    BY DEF vars, peopleVars
  <2>3. OwnersInv /\ UNCHANGED launchVars => EndpointsHaveOwners'
    BY OwnersRest DEF OwnersInv, launchVars
  <2> QED
    BY <2>1, <2>2, <2>3, LaunchStep, OwnersGoOn DEF OwnersInv
<1> QED
  BY <1>1, <1>2, OwnersAnswer, PTL DEF Spec

--------------------------------------------------------------------------------
(* WorkspaceWalk.                                                             *)

Points ==
  {"asked", "start", "resolve", "missing", "stat", "open", "open file", "opened", "create", "create file",
   "take", "preimage", "truncate", "write", "read back", "parent", "make folder", "canonical", "folder",
   "parent opened", "confirm", "unlink", "lstat file", "done", "refused", "failed"}

CallSet ==
  [op : Tools \cup Broker, at : Points, app : BOOLEAN, real : Places, dir : Dirs \cup {"none"},
   file : Files \cup {"none"}, made : BOOLEAN, written : BOOLEAN, checked : BOOLEAN]

UsedSet ==
  [read : SUBSET Files, changed : SUBSET Files, removed : SUBSET (Files \cup Places),
   made : SUBSET ((Files \cup Dirs) \X Places), moved : BOOLEAN,
   put : SUBSET (Files \cup Places \cup {"none"})]

DiskTypes ==
  /\ holds \in [Places -> Places \cup Dirs \cup {"none"}]
  /\ entry \in [Dirs -> Files \cup Places \cup {"none"}]
  /\ home \in [Files -> Dirs \cup {"none"}]
  /\ been \subseteq Files \X Places

\* No link at a place leads to another; a folder is at one place, a file in the folder it
\* is at home in, and has been where that folder is.
OneLink == \A p \in Places : holds[p] \in Places => holds[holds[p]] \notin Places
OnePlace == \A p, q \in Places : holds[p] \in Dirs /\ holds[p] = holds[q] => p = q
AtHome == \A d \in Dirs : entry[d] \in Files => home[entry[d]] = d
Been == \A f \in Files, p \in Places : home[f] \in Dirs /\ holds[p] = home[f] => <<f, p>> \in been

DiskInv == DiskTypes /\ OneLink /\ OnePlace /\ AtHome /\ Been

\* Where a call has a handle of a file, where it has asked that where it lives, and where
\* it has a handle of a folder.
Sure == {"take", "preimage", "truncate", "write", "read back", "folder", "parent opened", "confirm", "unlink"}
Handled == {"opened"} \cup Sure
InAFolder == {"open file", "create file", "parent opened", "confirm", "unlink"}

\* Where it has a path that leads to a file or to its folder.
Led == {"canonical", "stat", "open", "create", "open file", "create file"} \cup Handled

Made(f) == f \in Files /\ home[f] \in Dirs

\* It was where the call may go.
Vets(f) == \E p \in IF call.op \in Broker THEN {Folder} ELSE Inside : <<f, p>> \in been

\* A call at the place a, with a folder d and a file f in hand.
StandsAt(a, d, f) ==
  /\ a \in Handled => Made(f)
  /\ a \in Sure => Vets(f)
  /\ a \in InAFolder => d \in Dirs
  /\ a \in {"confirm", "unlink"} => f \in used.read
  /\ a = "unlink" => entry[d] \in used.read \cup used.put \cup {"none"}
  /\ a \notin Over => used.removed = {}

CallStands == StandsAt(call.at, call.dir, call.file) /\ RemovesWhatItRead

UsedWell == \A f \in used.read \cup used.changed : Made(f) /\ Vets(f)

\* The app's, at the path r: while nothing is moved since it looked, no step leads to a
\* kept folder.
Clear(d) == \A p \in Kept : holds[p] # d

AppAt(a, r, d, f) ==
  /\ a \in {"start", "resolve", "missing"} => Final(Folder) \notin Kept
  /\ a = "resolve" => r = Leads(Folder)
  /\ a = "parent" => Leads(Folder) \notin Kept
  /\ a = "make folder" => r = Folder /\ holds[Folder] \notin Places
  /\ a \in Led => Leads(r) \notin Kept
  /\ a \in {"open file", "create file"} => Clear(d)
  /\ a \in Handled => Clear(home[f])

AppUsed == \A f \in used.read \cup used.changed : Clear(home[f])

AppMay(a) ==
  /\ a \in {"parent", "make folder"} => call.op = "write"
  /\ a # "lstat file"

AppInv ==
  /\ call.at = "asked" => call.app /\ used.read \cup used.changed = {}
  /\ call.app => call.op \in Tools /\ AppMay(call.at)
  /\ call.app /\ ~used.moved => AppUsed /\ AppAt(call.at, call.real, call.dir, call.file)

WalkInv ==
  /\ call \in CallSet /\ used \in UsedSet
  /\ DiskInv /\ CallStands /\ UsedWell /\ AppInv

\* What a step leaves of the call: where it stands, and the paths and handles it has.
Now(a, r, d, f) ==
  /\ call' \in CallSet
  /\ call'.at = a /\ call'.real = r /\ call'.dir = d /\ call'.file = f
  /\ call'.op = call.op /\ call'.app = call.app

LEMMA Going ==
  ASSUME call \in CallSet, NEW a \in Points, Go(a)
  PROVE  Now(a, call.real, call.dir, call.file)
  BY DEF CallSet, Go, Now

LEMMA GoingTo ==
  ASSUME call \in CallSet, NEW a \in Points, NEW r \in Places,
         \/ call' = [call EXCEPT !.at = a, !.real = r]
         \/ call' = [call EXCEPT !.real = r, !.at = a]
  PROVE  Now(a, r, call.dir, call.file)
<1>1. CASE call' = [call EXCEPT !.at = a, !.real = r]
  BY <1>1 DEF CallSet, Now
<1>2. CASE call' = [call EXCEPT !.real = r, !.at = a]
  BY <1>2 DEF CallSet, Now
<1> QED
  BY <1>1, <1>2

LEMMA GoingIn ==
  ASSUME call \in CallSet, NEW a \in Points, NEW d \in Dirs \cup {"none"},
         call' = [call EXCEPT !.at = a, !.dir = d]
  PROVE  Now(a, call.real, d, call.file)
  BY DEF CallSet, Now

LEMMA Opening ==
  ASSUME call \in CallSet, NEW a \in Points, NEW f \in Files,
         \/ call' = [call EXCEPT !.at = a, !.file = f]
         \/ call' = [call EXCEPT !.at = a, !.file = f, !.made = TRUE]
  PROVE  Now(a, call.real, call.dir, f)
<1>1. CASE call' = [call EXCEPT !.at = a, !.file = f]
  BY <1>1 DEF CallSet, Now
<1>2. CASE call' = [call EXCEPT !.at = a, !.file = f, !.made = TRUE]
  BY <1>2 DEF CallSet, Now
<1> QED
  BY <1>1, <1>2

LEMMA Noting ==
  ASSUME call \in CallSet, NEW a \in Points,
         \/ call' = [call EXCEPT !.at = a, !.written = TRUE]
         \/ a = call.at /\ call' = [call EXCEPT !.checked = TRUE]
  PROVE  Now(a, call.real, call.dir, call.file)
<1>1. CASE call' = [call EXCEPT !.at = a, !.written = TRUE]
  BY <1>1 DEF CallSet, Now
<1>2. CASE a = call.at /\ call' = [call EXCEPT !.checked = TRUE]
  BY <1>2 DEF CallSet, Now
<1> QED
  BY <1>1, <1>2

LEMMA Leading == DiskTypes => \A p \in Places : Leads(p) \in Places /\ Final(p) \in Places
  BY WalkAssumption DEF DiskTypes, Leads, Final, Entry, Dir

LEMMA LeadsOnce == DiskTypes /\ OneLink => \A p \in Places : Leads(Leads(p)) = Leads(p)
  BY DEF DiskTypes, OneLink, Leads

LEMMA LinksEnd == DiskTypes /\ OneLink => \A p \in Places : Leads(Final(p)) = Final(p) /\ Final(Leads(p)) = Final(p)
<1> SUFFICES ASSUME DiskTypes, OneLink, NEW p \in Places
             PROVE  Leads(Final(p)) = Final(p) /\ Final(Leads(p)) = Final(p)
  OBVIOUS
<1>1. Leads(Leads(p)) = Leads(p) /\ Leads(p) \in Places
  BY LeadsOnce, Leading
<1>2. Dir(Leads(p)) = Dir(p)
  BY <1>1 DEF Dir
<1>3. Final(p) = Leads(p) \/ \E x \in Places : Final(p) = Leads(x)
  BY DEF Final
<1> QED
  BY <1>1, <1>2, <1>3, LeadsOnce DEF Final

\* A folder that a path leads to, when it is at no kept place, is at none.
LEMMA LedClear ==
  ASSUME DiskInv, NEW r \in Places, Leads(r) \notin Kept, Dir(r) # "none"
  PROVE  Dir(r) \in Dirs /\ Clear(Dir(r))
<1>1. Leads(r) \in Places /\ Dir(r) = holds[Leads(r)] /\ Dir(r) \in Dirs
  BY Leading DEF DiskInv, Dir
<1> QED
  BY <1>1, WalkAssumption DEF DiskInv, OnePlace, Clear, Places

LEMMA DiskRests == DiskInv /\ UNCHANGED <<holds, entry, home, been>> => DiskInv'
  BY DEF DiskInv, DiskTypes, OneLink, OnePlace, AtHome, Been

\* A step of the call that finds the disk as it was.
LEMMA QuietStep ==
  ASSUME WalkInv, UNCHANGED <<holds, entry, home, been>>, UNCHANGED used,
         NEW a, NEW r, NEW d, NEW f, Now(a, r, d, f),
         call.at \notin Over, a # "asked",
         StandsAt(a, d, f),
         call.app => AppMay(a),
         call.app /\ ~used.moved => AppAt(a, r, d, f)
  PROVE  WalkInv'
<1>1. DiskInv'
  BY DiskRests DEF WalkInv
<1>2. \A x : (Made(x) => Made(x)') /\ (Vets(x) => Vets(x)')
  BY DEF Made, Vets, Now
<1>3. CallStands' /\ UsedWell'
  <2>1. StandsAt(a, d, f)'
    BY <1>2 DEF StandsAt
  <2>2. RemovesWhatItRead'
    BY DEF WalkInv, CallStands, RemovesWhatItRead
  <2> QED
    BY <1>2, <2>1, <2>2 DEF WalkInv, CallStands, UsedWell, Now
<1>4. AppInv'
  <2>1. AppUsed => AppUsed'
    BY DEF AppUsed, Clear, Now
  <2>2. AppAt(a, r, d, f) => AppAt(a, r, d, f)'
    BY DEF AppAt, Led, Clear, Leads, Final, Entry, Dir
  <2>3. AppMay(a) => AppMay(a)'
    BY DEF AppMay, Now
  <2> QED
    BY <2>1, <2>2, <2>3 DEF WalkInv, AppInv, Now
<1> QED
  BY <1>1, <1>3, <1>4 DEF WalkInv, Now

\* Most places ask nothing of the handles.
LEMMA NothingInHand ==
  ASSUME WalkInv, call.at \notin Over, NEW a, a \notin Handled, a \notin InAFolder, NEW d, NEW f
  PROVE  StandsAt(a, d, f)
  BY DEF WalkInv, CallStands, StandsAt, Handled, InAFolder, Sure

LEMMA RefusedWell == WalkInv /\ Refuse /\ Quietly /\ call.at \notin Over => WalkInv'
<1> SUFFICES ASSUME WalkInv, Refuse, Quietly, call.at \notin Over PROVE WalkInv'
  OBVIOUS
<1>1. Now("refused", call.real, call.dir, call.file)
  BY Going DEF WalkInv, Refuse, Points
<1>2. StandsAt("refused", call.dir, call.file)
  BY NothingInHand DEF Handled, Sure, InAFolder
<1>3. AppMay("refused") /\ AppAt("refused", call.real, call.dir, call.file)
  BY DEF AppMay, AppAt, Led, Handled, Sure
<1> QED
  BY <1>1, <1>2, <1>3, QuietStep DEF Quietly, diskVars

LEMMA ResolvesWell == WalkInv /\ (ResolveFolder \/ ResolveFile \/ Missing \/ Stat) => WalkInv'
<1> SUFFICES ASSUME WalkInv, ResolveFolder \/ ResolveFile \/ Missing \/ Stat PROVE WalkInv'
  OBVIOUS
<1>0. /\ call.at \notin Over /\ UNCHANGED <<holds, entry, home, been, used>> /\ Quietly
      /\ call \in CallSet /\ DiskTypes /\ OneLink
  BY DEF ResolveFolder, ResolveFile, Missing, Stat, Quietly, diskVars, Over, WalkInv, DiskInv
<1>1. CASE ResolveFolder
  <2>1. CASE call' = [call EXCEPT !.at = "missing"]
    <3>1. Now("missing", call.real, call.dir, call.file)
      BY <1>0, <2>1, Going DEF Go, Points
    <3>2. StandsAt("missing", call.dir, call.file)
      BY <1>0, NothingInHand DEF Handled, Sure, InAFolder
    <3>3. call.app => AppMay("missing") /\ (~used.moved => AppAt("missing", call.real, call.dir, call.file))
      BY <1>1 DEF ResolveFolder, AppMay, AppAt, Led, WalkInv, AppInv, Handled, Sure
    <3> QED
      BY <1>0, <3>1, <3>2, <3>3, QuietStep
  <2>2. CASE call' = [call EXCEPT !.at = "resolve", !.real = Leads(Folder)]
    <3>1. Now("resolve", Leads(Folder), call.dir, call.file)
      BY <1>0, <2>2, Leading, GoingTo, WalkAssumption DEF Places, Points
    <3>2. StandsAt("resolve", call.dir, call.file)
      BY <1>0, NothingInHand DEF Handled, Sure, InAFolder
    <3>3. call.app => AppMay("resolve") /\ (~used.moved => AppAt("resolve", Leads(Folder), call.dir, call.file))
      BY <1>1 DEF ResolveFolder, AppMay, AppAt, Led, WalkInv, AppInv, Handled, Sure
    <3> QED
      BY <1>0, <3>1, <3>2, <3>3, QuietStep
  <2> QED
    BY <1>1, <2>1, <2>2 DEF ResolveFolder
<1>2. CASE ResolveFile
  <2> DEFINE to == Final(call.real)
  <2>0. to \in Places /\ call.real \in Places
    BY <1>0, Leading DEF CallSet
  <2>1. CASE call' = [call EXCEPT !.at = "missing"]
    <3>1. Now("missing", call.real, call.dir, call.file)
      BY <1>0, <2>1, Going DEF Go, Points
    <3>2. StandsAt("missing", call.dir, call.file)
      BY <1>0, NothingInHand DEF Handled, Sure, InAFolder
    <3>3. call.app => AppMay("missing") /\ (~used.moved => AppAt("missing", call.real, call.dir, call.file))
      BY <1>2 DEF ResolveFile, AppMay, AppAt, Led, WalkInv, AppInv, Handled, Sure
    <3> QED
      BY <1>0, <3>1, <3>2, <3>3, QuietStep
  <2>2. CASE call' = [call EXCEPT !.at = "refused"]
    BY <1>0, <2>2, RefusedWell DEF Refuse, Go
  <2>3. CASE call' = [call EXCEPT !.at = "stat", !.real = to]
    <3>1. Now("stat", to, call.dir, call.file)
      BY <1>0, <2>0, <2>3, GoingTo DEF Points
    <3>2. StandsAt("stat", call.dir, call.file)
      BY <1>0, NothingInHand DEF Handled, Sure, InAFolder
    <3>3. ASSUME call.app, ~used.moved PROVE Leads(to) \notin Kept
      <4>1. call.real = Leads(Folder) /\ Final(Folder) \notin Kept
        BY <1>2, <3>3 DEF ResolveFile, WalkInv, AppInv, AppAt, Led
      <4>2. to = Final(Folder) /\ Leads(to) = to
        BY <1>0, <2>0, <4>1, LinksEnd, WalkAssumption DEF Places
      <4> QED
        BY <4>1, <4>2
    <3>4. call.app => AppMay("stat") /\ (~used.moved => AppAt("stat", to, call.dir, call.file))
      BY <3>3 DEF AppMay, AppAt, Led, Handled, Sure
    <3> QED
      BY <1>0, <3>1, <3>2, <3>4, QuietStep
  <2> QED
    BY <1>2, <2>1, <2>2, <2>3 DEF ResolveFile
<1>3. CASE Missing
  <2>1. CASE Refuse
    BY <1>0, <2>1, RefusedWell
  <2>2. CASE Go("parent") /\ Entry(Dir(Folder)) \notin Places /\ call.op = "write"
    <3>1. Now("parent", call.real, call.dir, call.file)
      BY <1>0, <2>2, Going DEF Points
    <3>2. StandsAt("parent", call.dir, call.file)
      BY <1>0, NothingInHand DEF Handled, Sure, InAFolder
    <3>3. call.app => AppMay("parent") /\ (~used.moved => AppAt("parent", call.real, call.dir, call.file))
      BY <1>3, <2>2 DEF Missing, AppMay, AppAt, Led, WalkInv, AppInv, Final, Handled, Sure
    <3> QED
      BY <1>0, <3>1, <3>2, <3>3, QuietStep
  <2> QED
    BY <1>3, <2>1, <2>2 DEF Missing
<1>4. CASE Stat
  <2>1. CASE Refuse
    BY <1>0, <2>1, RefusedWell
  <2>2. CASE Go("open")
    <3>1. Now("open", call.real, call.dir, call.file)
      BY <1>0, <2>2, Going DEF Points
    <3>2. StandsAt("open", call.dir, call.file)
      BY <1>0, NothingInHand DEF Handled, Sure, InAFolder
    <3>3. call.app => AppMay("open") /\ (~used.moved => AppAt("open", call.real, call.dir, call.file))
      BY <1>4 DEF Stat, AppMay, AppAt, Led, WalkInv, AppInv, Handled, Sure
    <3> QED
      BY <1>0, <3>1, <3>2, <3>3, QuietStep
  <2> QED
    BY <1>4, <2>1, <2>2 DEF Stat
<1> QED
  BY <1>1, <1>2, <1>3, <1>4

LEMMA OpensWell == WalkInv /\ (OpenFolder \/ OpenFile \/ VerifyOpened) => WalkInv'
<1> SUFFICES ASSUME WalkInv, OpenFolder \/ OpenFile \/ VerifyOpened PROVE WalkInv'
  OBVIOUS
<1>0. /\ call.at \notin Over /\ UNCHANGED <<holds, entry, home, been, used>> /\ Quietly
      /\ call \in CallSet /\ DiskInv /\ DiskTypes
  BY DEF OpenFolder, OpenFile, VerifyOpened, Quietly, diskVars, Over, WalkInv, DiskInv
<1>1. CASE OpenFolder
  <2> DEFINE d == Dir(call.real)
  <2>0. d \in Dirs \cup {"none"} /\ call.real \in Places
    BY <1>0 DEF Dir, CallSet, DiskTypes
  <2>1. ASSUME NEW a \in {"open file", "create file"}, d # "none", call' = [call EXCEPT !.at = a, !.dir = d]
        PROVE WalkInv'
    <3>1. Now(a, call.real, d, call.file)
      BY <1>0, <2>0, <2>1, GoingIn DEF Points
    <3>2. StandsAt(a, d, call.file)
      BY <1>0, <2>0, <2>1 DEF WalkInv, CallStands, StandsAt, Handled, Sure
    <3>3. ASSUME call.app PROVE AppMay(a) /\ (~used.moved => AppAt(a, call.real, d, call.file))
      <4>1. ASSUME ~used.moved PROVE Clear(d) /\ Leads(call.real) \notin Kept
        <5>1. Leads(call.real) \notin Kept
          BY <1>1, <3>3, <4>1 DEF OpenFolder, WalkInv, AppInv, AppAt, Led
        <5> QED
          BY <1>0, <2>0, <2>1, <5>1, LedClear
      <4> QED
        BY <4>1 DEF AppMay, AppAt, Led, Handled, Sure
    <3> QED
      BY <1>0, <3>1, <3>2, <3>3, QuietStep
  <2>2. ASSUME d = "none", call' = [call EXCEPT !.at = "refused", !.dir = d] PROVE WalkInv'
    <3>1. Now("refused", call.real, d, call.file)
      BY <1>0, <2>0, <2>2, GoingIn DEF Points
    <3>2. StandsAt("refused", d, call.file)
      BY <1>0, NothingInHand DEF Handled, Sure, InAFolder
    <3>3. AppMay("refused") /\ AppAt("refused", call.real, d, call.file)
      BY DEF AppMay, AppAt, Led, Handled, Sure
    <3> QED
      BY <1>0, <3>1, <3>2, <3>3, QuietStep
  <2> QED
    BY <1>1, <2>1, <2>2 DEF OpenFolder
<1>2. CASE OpenFile
  <2>0. call.dir \in Dirs /\ call.dir # "none" /\ Entry(call.dir) = entry[call.dir]
    BY <1>2, WalkAssumption DEF OpenFile, WalkInv, CallStands, StandsAt, InAFolder, Entry
  <2>1. CASE call' = [call EXCEPT !.at = "refused"]
    BY <1>0, <2>1, RefusedWell DEF Refuse, Go
  <2>2. CASE entry[call.dir] \in Files /\ call' = [call EXCEPT !.at = "opened", !.file = entry[call.dir]]
    <3> DEFINE f == entry[call.dir]
    <3>1. Now("opened", call.real, call.dir, f)
      BY <1>0, <2>2, Opening DEF Points
    <3>2. home[f] = call.dir
      BY <1>0, <2>0, <2>2 DEF DiskInv, AtHome
    <3>3. StandsAt("opened", call.dir, f)
      BY <1>0, <2>0, <2>2, <3>2 DEF WalkInv, CallStands, StandsAt, Made, Sure, InAFolder
    <3>4. call.app => AppMay("opened") /\ (~used.moved => AppAt("opened", call.real, call.dir, f))
      BY <1>2, <3>2 DEF OpenFile, WalkInv, AppInv, AppMay, AppAt, Led
    <3> QED
      BY <1>0, <3>1, <3>3, <3>4, QuietStep
  <2> QED
    BY <1>2, <2>0, <2>1, <2>2 DEF OpenFile
<1>3. CASE VerifyOpened
  <2>0. Made(call.file)
    BY <1>3 DEF VerifyOpened, WalkInv, CallStands, StandsAt, Handled
  <2>1. CASE Refuse
    BY <1>0, <2>1, RefusedWell
  <2>2. ASSUME LivesWell(call.file), NEW a \in {"take", "folder", "read back", "write", "preimage"}, Go(a)
        PROVE  WalkInv'
    <3>1. Now(a, call.real, call.dir, call.file)
      BY <1>0, <2>2, Going DEF Points
    <3>2. Vets(call.file)
      <4>1. CASE call.op \in Tools
        <5>1. PICK p \in PlaceOf(home[call.file]) : p \in Inside
          BY <2>2, <4>1 DEF LivesWell, InWorkspace, Within
        <5>2. <<call.file, p>> \in been
          BY <1>0, <2>0, <5>1 DEF PlaceOf, Made, DiskInv, Been
        <5> QED
          BY <4>1, <5>1, <5>2 DEF Vets, Tools, Broker
      <4>2. CASE call.op \in Broker
        <5>1. <<call.file, Folder>> \in been
          BY <1>0, <2>0, <2>2, <4>2, WalkAssumption
             DEF LivesWell, AtThePath, Made, DiskInv, Been, Places, Tools, Broker
        <5> QED
          BY <4>2, <5>1 DEF Vets
      <4> QED
        BY <1>0, <4>1, <4>2 DEF CallSet
    <3>3. StandsAt(a, call.dir, call.file)
      BY <1>0, <2>0, <2>2, <3>2 DEF WalkInv, CallStands, StandsAt, InAFolder
    <3>4. call.app => AppMay(a) /\ (~used.moved => AppAt(a, call.real, call.dir, call.file))
      BY <1>3, <2>2 DEF VerifyOpened, WalkInv, AppInv, AppMay, AppAt, Led, Handled
    <3> QED
      BY <1>0, <2>2, <3>1, <3>3, <3>4, QuietStep
  <2> QED
    BY <1>3, <2>1, <2>2 DEF VerifyOpened, Refuse
<1> QED
  BY <1>1, <1>2, <1>3

LEMMA WalksWell == WalkInv /\ (Parent \/ Canonical \/ OpenParent \/ LstatFolder \/ LstatFile) => WalkInv'
<1> SUFFICES ASSUME WalkInv, Parent \/ Canonical \/ OpenParent \/ LstatFolder \/ LstatFile PROVE WalkInv'
  OBVIOUS
<1>0. /\ call.at \notin Over /\ UNCHANGED <<holds, entry, home, been, used>> /\ Quietly
      /\ call \in CallSet /\ DiskTypes /\ OneLink /\ Folder \in Places
  BY WalkAssumption
     DEF Parent, Canonical, OpenParent, LstatFolder, LstatFile, Quietly, diskVars, Over, WalkInv, DiskInv, Places
<1> USE DEF Points
<1>1. CASE Parent
  <2>1. CASE call' = [call EXCEPT !.at = "refused"]
    BY <1>0, <2>1, RefusedWell DEF Refuse, Go
  <2>2. CASE call' = [call EXCEPT !.checked = TRUE]
    <3>1. Now("parent", call.real, call.dir, call.file)
      BY <1>0, <1>1, <2>2, Noting DEF Parent
    <3>2. StandsAt("parent", call.dir, call.file)
      BY <1>0, NothingInHand DEF Handled, Sure, InAFolder
    <3>3. call.app => AppMay("parent") /\ (~used.moved => AppAt("parent", call.real, call.dir, call.file))
      BY <1>1 DEF Parent, AppMay, AppAt, Led, WalkInv, AppInv, Handled, Sure
    <3> QED
      BY <1>0, <3>1, <3>2, <3>3, QuietStep
  <2>3. CASE holds[Folder] = "none" /\ call' = [call EXCEPT !.at = "make folder", !.real = Folder]
    <3>1. Now("make folder", Folder, call.dir, call.file)
      BY <1>0, <2>3, GoingTo
    <3>2. StandsAt("make folder", call.dir, call.file)
      BY <1>0, NothingInHand DEF Handled, Sure, InAFolder
    <3>3. call.app => AppMay("make folder") /\ (~used.moved => AppAt("make folder", Folder, call.dir, call.file))
      BY <1>1, <2>3, WalkAssumption DEF Parent, AppMay, AppAt, Led, WalkInv, AppInv, Handled, Sure
    <3> QED
      BY <1>0, <3>1, <3>2, <3>3, QuietStep
  <2>4. CASE call' = [call EXCEPT !.at = "canonical", !.real = Leads(Folder)]
    <3>1. Now("canonical", Leads(Folder), call.dir, call.file)
      BY <1>0, <2>4, GoingTo, Leading
    <3>2. StandsAt("canonical", call.dir, call.file)
      BY <1>0, NothingInHand DEF Handled, Sure, InAFolder
    <3>3. call.app => AppMay("canonical") /\ (~used.moved => AppAt("canonical", Leads(Folder), call.dir, call.file))
      BY <1>0, <1>1, LeadsOnce DEF Parent, AppMay, AppAt, Led, WalkInv, AppInv, Handled, Sure
    <3> QED
      BY <1>0, <3>1, <3>2, <3>3, QuietStep
  <2> QED
    BY <1>1, <2>1, <2>2, <2>3, <2>4 DEF Parent
<1>2. CASE Canonical
  <2> DEFINE r == Leads(call.real)
  <2>0. r \in Places /\ Leads(r) = r
    BY <1>0, Leading, LeadsOnce DEF CallSet
  <2>1. CASE call' = [call EXCEPT !.at = "refused"]
    BY <1>0, <2>1, RefusedWell DEF Refuse, Go
  <2>2. CASE call' = [call EXCEPT !.at = "create", !.real = r]
    <3>1. Now("create", r, call.dir, call.file)
      BY <1>0, <2>0, <2>2, GoingTo
    <3>2. StandsAt("create", call.dir, call.file)
      BY <1>0, NothingInHand DEF Handled, Sure, InAFolder
    <3>3. call.app => AppMay("create") /\ (~used.moved => AppAt("create", r, call.dir, call.file))
      BY <1>2, <2>0 DEF Canonical, AppMay, AppAt, Led, WalkInv, AppInv, Handled, Sure
    <3> QED
      BY <1>0, <3>1, <3>2, <3>3, QuietStep
  <2> QED
    BY <1>2, <2>1, <2>2 DEF Canonical
<1>3. CASE OpenParent
  <2> DEFINE d == holds[call.real]
  <2>1. CASE call' = [call EXCEPT !.at = "refused"]
    BY <1>0, <2>1, RefusedWell DEF Refuse, Go
  <2>2. CASE d \in Dirs /\ call' = [call EXCEPT !.at = "parent opened", !.dir = d]
    <3>1. Now("parent opened", call.real, d, call.file)
      BY <1>0, <2>2, GoingIn
    <3>2. StandsAt("parent opened", d, call.file)
      BY <1>0, <1>3, <2>2 DEF OpenParent, WalkInv, CallStands, StandsAt, Handled, Sure
    <3>3. call.app => AppMay("parent opened") /\ (~used.moved => AppAt("parent opened", call.real, d, call.file))
      BY <1>3 DEF OpenParent, AppMay, AppAt, Led, WalkInv, AppInv, Handled, Sure
    <3> QED
      BY <1>0, <3>1, <3>2, <3>3, QuietStep
  <2> QED
    BY <1>3, <2>1, <2>2 DEF OpenParent
<1>4. CASE LstatFolder
  <2>0. ~call.app
    BY <1>4 DEF LstatFolder, WalkInv, AppInv, Tools, Broker
  <2>1. ASSUME NEW a \in {"lstat file", "refused", "make folder", "done"},
               call' = [call EXCEPT !.real = Folder, !.at = a]
        PROVE  WalkInv'
    <3>1. Now(a, Folder, call.dir, call.file)
      BY <1>0, <2>1, GoingTo
    <3>2. StandsAt(a, call.dir, call.file)
      BY <1>0, <2>1, NothingInHand DEF Handled, Sure, InAFolder
    <3> QED
      BY <1>0, <2>0, <2>1, <3>1, <3>2, QuietStep
  <2> QED
    BY <1>4, <2>1 DEF LstatFolder
<1>5. CASE LstatFile
  <2>0. ~call.app
    BY <1>5 DEF LstatFile, WalkInv, AppInv, AppMay
  <2>1. ASSUME NEW a \in {"refused", "done", "open", "create"}, Go(a) PROVE WalkInv'
    <3>1. Now(a, call.real, call.dir, call.file)
      BY <1>0, <2>1, Going
    <3>2. StandsAt(a, call.dir, call.file)
      BY <1>0, <2>1, NothingInHand DEF Handled, Sure, InAFolder
    <3> QED
      BY <1>0, <2>0, <2>1, <3>1, <3>2, QuietStep
  <2> QED
    BY <1>5, <2>1 DEF LstatFile, Refuse
<1> QED
  BY <1>1, <1>2, <1>3, <1>4, <1>5

LEMMA Using ==
  ASSUME used \in UsedSet, NEW how \in {"read", "changed"}, Use(how), call.file \in Files
  PROVE  /\ used' \in UsedSet
         /\ used.read \subseteq used'.read /\ used.changed \subseteq used'.changed
         /\ used'.read \subseteq used.read \cup {call.file}
         /\ used'.changed \subseteq used.changed \cup {call.file}
         /\ how = "read" => call.file \in used'.read
         /\ used'.removed = used.removed /\ used'.moved = used.moved /\ used'.put = used.put
<1>1. CASE how = "read"
  BY <1>1 DEF Use, UsedSet
<1>2. CASE how = "changed"
  BY <1>2 DEF Use, UsedSet
<1> QED
  BY <1>1, <1>2

\* A step of the call that reads or changes the file it has asked about, and goes on with
\* the handles it has.
LEMMA UseStep ==
  ASSUME WalkInv, UNCHANGED <<holds, entry, home, been>>,
         NEW how \in {"read", "changed"}, Use(how), call.at \in Sure,
         NEW a, Now(a, call.real, call.dir, call.file),
         \/ a \in {"done", "refused", "failed", "stat", "open"}
         \/ a \in {"truncate", "write"} /\ call.at \notin InAFolder
         \/ a = "confirm" /\ how = "read" /\ call.dir \in Dirs
  PROVE  WalkInv'
<1>1. DiskInv'
  BY DiskRests DEF WalkInv
<1>2. Made(call.file) /\ Vets(call.file) /\ call.at \notin Over
  BY DEF WalkInv, CallStands, StandsAt, Handled, Sure, Over
<1>3. /\ used' \in UsedSet
      /\ used.read \subseteq used'.read /\ used.changed \subseteq used'.changed
      /\ used'.read \subseteq used.read \cup {call.file}
      /\ used'.changed \subseteq used.changed \cup {call.file}
      /\ how = "read" => call.file \in used'.read
      /\ used'.removed = used.removed /\ used'.moved = used.moved /\ used'.put = used.put
  BY <1>2, Using DEF WalkInv, Made
<1>4. \A x : (Made(x) => Made(x)') /\ (Vets(x) => Vets(x)')
  BY DEF Made, Vets, Now
<1>5. UsedWell'
  BY <1>2, <1>3, <1>4 DEF WalkInv, UsedWell
<1>6. CallStands'
  <2>1. used'.removed = {}
    BY <1>2, <1>3 DEF WalkInv, CallStands, StandsAt
  <2>2. StandsAt(a, call.dir, call.file)'
    BY <1>2, <1>3, <1>4, <2>1 DEF StandsAt, Handled, Sure, InAFolder, Now
  <2> QED
    BY <2>1, <2>2 DEF CallStands, RemovesWhatItRead, Now
<1>7. AppInv'
  <2>1. call.app => call.op \in Tools
    BY DEF WalkInv, AppInv
  <2>2. AppMay(a)' /\ a # "asked"
    BY DEF AppMay
  <2>3. ASSUME call.app, ~used.moved PROVE AppUsed' /\ AppAt(a, call.real, call.dir, call.file)'
    <3>1. AppUsed /\ Clear(home[call.file]) /\ Leads(call.real) \notin Kept
      BY <2>3 DEF WalkInv, AppInv, AppAt, Led, Handled, Led
    <3>2. AppUsed'
      BY <1>3, <2>2, <3>1 DEF AppUsed, Clear, Now
    <3>3. AppAt(a, call.real, call.dir, call.file)'
      BY <2>3, <3>1 DEF AppAt, Led, Clear, Leads, Now
    <3> QED
      BY <3>2, <3>3
  <2> QED
    BY <1>3, <2>1, <2>2, <2>3 DEF AppInv, Now
<1> QED
  BY <1>1, <1>3, <1>5, <1>6, <1>7 DEF WalkInv, Now

LEMMA UsesWell ==
  WalkInv /\ (TakeText \/ Preimage \/ Truncate \/ Write \/ ReadBack \/ VerifyParent) => WalkInv'
<1> SUFFICES ASSUME WalkInv, TakeText \/ Preimage \/ Truncate \/ Write \/ ReadBack \/ VerifyParent
             PROVE  WalkInv'
  OBVIOUS
<1>0. /\ call.at \in Sure /\ call.at \notin Over /\ UNCHANGED <<holds, entry, home, been>>
      /\ call \in CallSet
      /\ call.at \in InAFolder => call.at = "parent opened" /\ call.dir \in Dirs
  BY DEF TakeText, Preimage, Truncate, Write, ReadBack, VerifyParent, Sure, Over, InAFolder, diskVars,
         WalkInv, CallStands, StandsAt
<1>1. ASSUME NEW how \in {"read", "changed"}, Use(how),
             NEW a \in {"done", "refused", "failed", "truncate", "write", "confirm"}, Go(a),
             a \in {"truncate", "write"} => call.at \notin InAFolder,
             a = "confirm" => how = "read" /\ call.at \in InAFolder
      PROVE  WalkInv'
  <2>1. Now(a, call.real, call.dir, call.file)
    BY <1>0, <1>1, Going DEF Points
  <2> QED
    BY <1>0, <1>1, <2>1, UseStep
<1>2. CASE TakeText
  BY <1>1, <1>2 DEF TakeText
<1>3. CASE Preimage
  BY <1>1, <1>3 DEF Preimage, Refuse, InAFolder
<1>4. CASE Truncate
  BY <1>1, <1>4 DEF Truncate, InAFolder
<1>5. CASE Write
  <2>1. CASE Go("failed")
    BY <1>1, <1>5, <2>1 DEF Write
  <2>2. ASSUME NEW a \in {"stat", "open"}, call' = [call EXCEPT !.at = a, !.written = TRUE] PROVE WalkInv'
    <3>1. Now(a, call.real, call.dir, call.file)
      BY <1>0, <2>2, Noting DEF Points
    <3> QED
      BY <1>0, <1>5, <3>1, UseStep DEF Write
  <2> QED
    BY <1>5, <2>1, <2>2 DEF Write
<1>6. CASE ReadBack
  BY <1>1, <1>6 DEF ReadBack
<1>7. CASE VerifyParent
  <2>1. CASE Refuse /\ UNCHANGED used
    BY <1>0, <1>7, <2>1, RefusedWell DEF VerifyParent, Quietly
  <2>2. CASE Use("read") /\ (Go("confirm") \/ Refuse)
    BY <1>1, <1>7, <2>2 DEF VerifyParent, Refuse, InAFolder
  <2> QED
    BY <1>7, <2>1, <2>2 DEF VerifyParent
<1> QED
  BY <1>2, <1>3, <1>4, <1>5, <1>6, <1>7

LEMMA LocatesWell == WalkInv /\ Locate => WalkInv'
<1> SUFFICES ASSUME WalkInv, Locate PROVE WalkInv'
  OBVIOUS
<1>0. /\ call.at = "asked" /\ call.app /\ UNCHANGED <<holds, entry, home, been>> /\ call \in CallSet
      /\ used' = [used EXCEPT !.moved = FALSE] /\ used \in UsedSet
  BY DEF Locate, diskVars, WalkInv, AppInv
<1>1. /\ used' \in UsedSet /\ used'.read = used.read /\ used'.changed = used.changed
      /\ used'.removed = used.removed /\ used'.put = used.put
  BY <1>0 DEF UsedSet
<1>2. PICK a \in {"start", "refused"} : Go(a) /\ (a = "start" => Final(Folder) \notin Kept)
  BY <1>0 DEF Locate, Guarded, Refuse
<1>3. Now(a, call.real, call.dir, call.file)
  BY <1>0, <1>2, Going DEF Points
<1>4. DiskInv'
  BY <1>0, DiskRests DEF WalkInv
<1>5. \A x : (Made(x) => Made(x)') /\ (Vets(x) => Vets(x)')
  BY <1>0, <1>3 DEF Made, Vets, Now
<1>6. CallStands' /\ UsedWell'
  <2>1. UsedWell'
    BY <1>1, <1>5 DEF WalkInv, UsedWell
  <2>2. used'.removed = {}
    BY <1>0, <1>1 DEF WalkInv, CallStands, StandsAt, Over
  <2> QED
    BY <1>3, <2>1, <2>2 DEF CallStands, StandsAt, RemovesWhatItRead, Now, Handled, Sure, InAFolder
<1>7. AppInv'
  <2>1. AppMay(a)' /\ a # "asked" /\ call.op \in Tools
    BY <1>0 DEF AppMay, WalkInv, AppInv
  <2>2. used'.read \cup used'.changed = {}
    BY <1>0, <1>1 DEF WalkInv, AppInv
  <2> QED
    BY <1>0, <1>2, <1>3, <2>1, <2>2
       DEF AppInv, Now, AppUsed, AppAt, Led, Handled, Sure, Final, Leads, Dir, Entry
<1> QED
  BY <1>1, <1>3, <1>4, <1>6, <1>7 DEF WalkInv, Now

LEMMA Removing ==
  ASSUME used \in UsedSet, NEW put \in SUBSET (Files \cup Places \cup {"none"}), NEW gone \in SUBSET (Files \cup Places)
  PROVE  /\ LET u == [used EXCEPT !.put = put]
            IN /\ u \in UsedSet /\ u.put = put /\ u.read = used.read /\ u.changed = used.changed
               /\ u.removed = used.removed /\ u.moved = used.moved
         /\ LET u == [used EXCEPT !.removed = gone]
            IN /\ u \in UsedSet /\ u.removed = gone /\ u.read = used.read /\ u.changed = used.changed
               /\ u.put = used.put /\ u.moved = used.moved
  BY DEF UsedSet

LEMMA ConfirmsWell == WalkInv /\ Confirm => WalkInv'
<1> SUFFICES ASSUME WalkInv, Confirm PROVE WalkInv'
  OBVIOUS
<1>0. /\ call.at = "confirm" /\ UNCHANGED <<holds, entry, home, been>> /\ call \in CallSet
      /\ used' = [used EXCEPT !.put = {}] /\ used \in UsedSet
      /\ Made(call.file) /\ Vets(call.file) /\ call.dir \in Dirs /\ call.file \in used.read /\ used.removed = {}
  BY DEF Confirm, diskVars, WalkInv, CallStands, StandsAt, Handled, Sure, InAFolder, Over
<1>1. /\ used' \in UsedSet /\ used'.read = used.read /\ used'.changed = used.changed
      /\ used'.removed = {} /\ used'.moved = used.moved
  BY <1>0, Removing
<1>2. PICK a \in {"unlink", "refused"} : Go(a) /\ (a = "unlink" => entry[call.dir] = call.file)
  BY <1>0 DEF Confirm
<1>3. Now(a, call.real, call.dir, call.file)
  BY <1>0, <1>2, Going DEF Points
<1>4. DiskInv'
  BY <1>0, DiskRests DEF WalkInv
<1>5. \A x : (Made(x) => Made(x)') /\ (Vets(x) => Vets(x)')
  BY <1>0, <1>3 DEF Made, Vets, Now
<1>6. CallStands' /\ UsedWell'
  <2>1. UsedWell'
    BY <1>1, <1>5 DEF WalkInv, UsedWell
  <2>2. StandsAt(a, call.dir, call.file)'
    BY <1>0, <1>1, <1>2, <1>3, <1>5 DEF StandsAt, Handled, Sure, InAFolder, Now
  <2> QED
    BY <1>1, <1>3, <2>1, <2>2 DEF CallStands, RemovesWhatItRead, Now
<1>7. AppInv'
  <2>1. AppMay(a)' /\ a # "asked"
    BY DEF AppMay
  <2>2. ASSUME call.app, ~used.moved PROVE AppUsed' /\ AppAt(a, call.real, call.dir, call.file)'
    <3>1. AppUsed /\ Clear(home[call.file]) /\ Leads(call.real) \notin Kept
      BY <1>0, <2>2 DEF WalkInv, AppInv, AppAt, Led, Handled, Sure
    <3> QED
      BY <1>0, <1>1, <1>2, <1>3, <3>1 DEF AppUsed, AppAt, Clear, Leads, Now
  <2> QED
    BY <1>1, <1>3, <2>1, <2>2 DEF AppInv, Now, WalkInv
<1> QED
  BY <1>1, <1>3, <1>4, <1>6, <1>7 DEF WalkInv, Now

LEMMA UnlinksWell == WalkInv /\ Unlink => WalkInv'
<1> SUFFICES ASSUME WalkInv, Unlink PROVE WalkInv'
  OBVIOUS
<1> DEFINE gone == {entry[call.dir]} \ {"none"}
<1>0. /\ call.at = "unlink" /\ UNCHANGED <<holds, home, been>> /\ call \in CallSet
      /\ entry' = [entry EXCEPT ![call.dir] = "none"]
      /\ used' = [used EXCEPT !.removed = gone] /\ used \in UsedSet
      /\ Made(call.file) /\ Vets(call.file) /\ call.dir \in Dirs
      /\ entry[call.dir] \in used.read \cup used.put \cup {"none"} /\ DiskInv /\ DiskTypes
  BY DEF Unlink, WalkInv, DiskInv, CallStands, StandsAt, Handled, Sure, InAFolder
<1>1. /\ used' \in UsedSet /\ used'.read = used.read /\ used'.changed = used.changed
      /\ used'.removed = gone /\ used'.moved = used.moved /\ used'.put = used.put
  <2>1. gone \in SUBSET (Files \cup Places)
    BY <1>0 DEF DiskTypes
  <2> QED
    BY <1>0, <2>1, Removing
<1>2. PICK a \in {"failed", "done"} : Go(a)
  BY <1>0 DEF Unlink
<1>3. Now(a, call.real, call.dir, call.file)
  BY <1>0, <1>2, Going DEF Points
<1>4. DiskInv'
  <2>1. DiskTypes' /\ OneLink' /\ OnePlace' /\ Been'
    BY <1>0 DEF DiskInv, DiskTypes, OneLink, OnePlace, Been
  <2>2. AtHome'
    BY <1>0, WalkAssumption DEF DiskInv, DiskTypes, AtHome
  <2> QED
    BY <2>1, <2>2 DEF DiskInv
<1>5. \A x : (Made(x) => Made(x)') /\ (Vets(x) => Vets(x)')
  BY <1>0, <1>3 DEF Made, Vets, Now
<1>6. CallStands' /\ UsedWell'
  <2>1. UsedWell'
    BY <1>1, <1>5 DEF WalkInv, UsedWell
  <2>2. StandsAt(a, call.dir, call.file)'
    BY <1>3 DEF StandsAt, Handled, Sure, InAFolder, Now, Over
  <2>3. RemovesWhatItRead'
    BY <1>0, <1>1 DEF RemovesWhatItRead
  <2> QED
    BY <1>3, <2>1, <2>2, <2>3 DEF CallStands, Now
<1>7. AppInv'
  <2>1. AppMay(a)' /\ a # "asked"
    BY DEF AppMay
  <2>2. ASSUME call.app, ~used.moved PROVE AppUsed' /\ AppAt(a, call.real, call.dir, call.file)'
    <3>1. AppUsed
      BY <1>0, <2>2 DEF WalkInv, AppInv
    <3> QED
      BY <1>0, <1>1, <1>2, <1>3, <3>1 DEF AppUsed, AppAt, Clear, Now, Led, Handled, Sure
  <2> QED
    BY <1>1, <1>3, <2>1, <2>2 DEF AppInv, Now, WalkInv
<1> QED
  BY <1>1, <1>3, <1>4, <1>6, <1>7 DEF WalkInv, Now

\* A handle of a file that is there stays one, and where it has been stays true.
LEMMA StaysMade ==
  ASSUME been \subseteq been', call'.op = call.op,
         \A x \in Files : home[x] \in Dirs => home'[x] \in Dirs
  PROVE  \A x : (Made(x) => Made(x)') /\ (Vets(x) => Vets(x)')
  BY DEF Made, Vets

\* What the call has made changes; what it used does not.
SameUse ==
  /\ used' \in UsedSet /\ used'.read = used.read /\ used'.changed = used.changed
  /\ used'.removed = used.removed /\ used'.moved = used.moved /\ used'.put = used.put

LEMMA Making ==
  ASSUME used \in UsedSet, NEW more \in SUBSET ((Files \cup Dirs) \X Places),
         used' = [used EXCEPT !.made = @ \cup more]
  PROVE  SameUse /\ used'.made = used.made \cup more
  BY DEF UsedSet, SameUse

LEMMA CreatesWell == WalkInv /\ CreateFile => WalkInv'
<1> SUFFICES ASSUME WalkInv, CreateFile PROVE WalkInv'
  OBVIOUS
<1>0. /\ call.at = "create file" /\ call.at \notin Over /\ call \in CallSet /\ used \in UsedSet
      /\ call.dir \in Dirs /\ DiskInv /\ DiskTypes /\ used.removed = {}
  BY DEF CreateFile, WalkInv, DiskInv, CallStands, StandsAt, InAFolder, Over
<1>1. CASE Refuse /\ UNCHANGED <<diskVars, used>>
  BY <1>0, <1>1, RefusedWell DEF CreateFile, Quietly
<1>2. ASSUME NEW f \in Files,
             entry[call.dir] = "none" /\ home[f] = "none",
             home' = [home EXCEPT ![f] = call.dir],
             entry' = [entry EXCEPT ![call.dir] = f],
             been' = been \cup {<<f, p>> : p \in PlaceOf(call.dir)},
             call' = [call EXCEPT !.at = "opened", !.file = f, !.made = TRUE],
             used' = [used EXCEPT !.made = @ \cup {<<f, p>> : p \in PlaceOf(call.dir)}],
             UNCHANGED <<holds, text>>
      PROVE  WalkInv'
  <2>0. SameUse
    <3>1. {<<f, p>> : p \in PlaceOf(call.dir)} \subseteq (Files \cup Dirs) \X Places
      BY DEF PlaceOf
    <3> QED
      BY <1>0, <1>2, <3>1, Making
  <2>1. Now("opened", call.real, call.dir, f)
    BY <1>0, <1>2, Opening DEF Points
  <2>2. /\ home'[f] = call.dir /\ \A x \in Files \ {f} : home'[x] = home[x]
        /\ entry'[call.dir] = f /\ \A d \in Dirs \ {call.dir} : entry'[d] = entry[d]
    BY <1>0, <1>2 DEF DiskTypes
  <2>3. DiskInv'
    <3>1. DiskTypes'
      <4>1. {<<f, p>> : p \in PlaceOf(call.dir)} \subseteq Files \X Places
        BY DEF PlaceOf
      <4>2. been' \subseteq Files \X Places
        BY <1>0, <1>2, <4>1 DEF DiskTypes
      <4>3. /\ home' \in [Files -> Dirs \cup {"none"}]
            /\ entry' \in [Dirs -> Files \cup Places \cup {"none"}]
            /\ holds' \in [Places -> Places \cup Dirs \cup {"none"}]
        BY <1>0, <1>2 DEF DiskTypes
      <4> QED
        BY <4>2, <4>3 DEF DiskTypes
    <3>2. OneLink' /\ OnePlace'
      BY <1>0, <1>2 DEF DiskInv, OneLink, OnePlace
    <3>3. AtHome'
      <4> SUFFICES ASSUME NEW d \in Dirs, entry'[d] \in Files PROVE home'[entry'[d]] = d
        BY DEF AtHome
      <4>1. CASE d = call.dir
        BY <2>2, <4>1
      <4>2. CASE d # call.dir
        <5>1. entry'[d] = entry[d] /\ home[entry[d]] = d /\ d # "none"
          BY <1>0, <2>2, <4>2, WalkAssumption DEF DiskInv, AtHome
        <5> QED
          BY <1>2, <2>2, <5>1
      <4> QED
        BY <4>1, <4>2
    <3>4. Been'
      BY <1>0, <1>2, <2>2 DEF DiskInv, Been, PlaceOf
    <3> QED
      BY <3>1, <3>2, <3>3, <3>4 DEF DiskInv
  <2>4. \A x : (Made(x) => Made(x)') /\ (Vets(x) => Vets(x)')
    BY <1>0, <1>2, <2>1, <2>2, StaysMade DEF Now
  <2>5. CallStands' /\ UsedWell'
    <3>1. UsedWell'
      BY <2>0, <2>4 DEF SameUse, WalkInv, UsedWell
    <3>2. StandsAt("opened", call.dir, f)'
      BY <1>0, <1>2, <2>0, <2>1, <2>2 DEF SameUse, StandsAt, Sure, InAFolder, Now, Made
    <3> QED
      BY <1>0, <2>0, <2>1, <3>1, <3>2 DEF SameUse, CallStands, RemovesWhatItRead, Now
  <2>6. AppInv'
    <3>1. AppMay("opened")'
      BY DEF AppMay
    <3>2. ASSUME call.app, ~used.moved PROVE AppUsed' /\ AppAt("opened", call.real, call.dir, f)'
      <4>1. AppUsed /\ Clear(call.dir) /\ Leads(call.real) \notin Kept
        BY <1>0, <3>2 DEF WalkInv, AppInv, AppAt, Led
      <4>2. AppUsed'
        <5> SUFFICES ASSUME NEW x \in used.read \cup used.changed PROVE Clear(home[x])'
          BY <2>0 DEF SameUse, AppUsed
        <5>1. x \in Files /\ home[x] \in Dirs
          BY DEF WalkInv, UsedWell, Made
        <5>2. home'[x] = home[x]
          BY <1>2, <2>2, <5>1, WalkAssumption
        <5> QED
          BY <1>2, <4>1, <5>2 DEF AppUsed, Clear
      <4>3. AppAt("opened", call.real, call.dir, f)'
        BY <1>2, <2>1, <2>2, <4>1 DEF AppAt, Clear, Leads, Now
      <4> QED
        BY <4>2, <4>3
    <3> QED
      BY <1>0, <2>0, <2>1, <3>1, <3>2 DEF SameUse, AppInv, Now, WalkInv
  <2> QED
    BY <1>0, <2>0, <2>1, <2>3, <2>5, <2>6 DEF SameUse, WalkInv, Now
<1> QED
  BY <1>0, <1>1, <1>2 DEF CreateFile

LEMMA MakesWell == WalkInv /\ MakeFolder => WalkInv'
<1> SUFFICES ASSUME WalkInv, MakeFolder PROVE WalkInv'
  OBVIOUS
<1> DEFINE next == IF call.op = "write" THEN "canonical" ELSE "lstat file"
<1>0. /\ call.at = "make folder" /\ call.at \notin Over /\ UNCHANGED <<entry, home, been>> /\ call \in CallSet
      /\ used \in UsedSet /\ DiskInv /\ DiskTypes /\ used.removed = {} /\ Folder \in Places /\ Folder \notin Kept
      /\ next \in {"canonical", "lstat file"}
  BY WalkAssumption DEF MakeFolder, WalkInv, DiskInv, CallStands, StandsAt, Over, Places
<1>1. CASE Refuse /\ UNCHANGED <<holds, used>>
  BY <1>0, <1>1, RefusedWell DEF MakeFolder, Quietly, diskVars
<1>2. ASSUME NEW p \in {Folder} \cup ({holds[Folder]} \cap Places), Go(next), SameUse,
             \/ UNCHANGED holds /\ holds[p] \in Dirs
             \/ \E d \in Dirs : /\ PlaceOf(d) = {} /\ (\A f \in Files : home[f] # d)
                                /\ holds[p] = "none" /\ holds' = [holds EXCEPT ![p] = d]
      PROVE  WalkInv'
  <2>0. p \in Places
    BY <1>0
  <2>1. Now(next, call.real, call.dir, call.file)
    BY <1>0, <1>2, Going DEF Points
  <2>2. /\ holds'[p] \in Dirs /\ holds'[p] \notin Places
        /\ \A q \in Places \ {p} : holds'[q] = holds[q] /\ holds[q] # holds'[p]
        /\ \A f \in Files : home[f] = holds'[p] => UNCHANGED holds
        /\ DiskTypes' /\ (UNCHANGED holds \/ holds[p] = "none")
    <3>1. CASE UNCHANGED holds /\ holds[p] \in Dirs
      BY <1>0, <2>0, <3>1, WalkAssumption DEF DiskInv, DiskTypes, OnePlace
    <3>2. CASE \E d \in Dirs : /\ PlaceOf(d) = {} /\ (\A f \in Files : home[f] # d)
                               /\ holds[p] = "none" /\ holds' = [holds EXCEPT ![p] = d]
      BY <1>0, <2>0, <3>2, WalkAssumption DEF DiskTypes, PlaceOf
    <3> QED
      BY <1>2, <3>1, <3>2
  <2>3. DiskInv'
    <3>1. OneLink'
      BY <1>0, <2>0, <2>2 DEF DiskInv, DiskTypes, OneLink
    <3>2. OnePlace'
      BY <1>0, <2>0, <2>2 DEF DiskInv, OnePlace
    <3>3. AtHome' /\ Been'
      BY <1>0, <2>0, <2>2 DEF DiskInv, AtHome, Been
    <3> QED
      BY <2>2, <3>1, <3>2, <3>3 DEF DiskInv
  <2>4. \A x : (Made(x) => Made(x)') /\ (Vets(x) => Vets(x)')
    BY <1>0, <2>1 DEF Made, Vets, Now
  <2>5. CallStands' /\ UsedWell'
    <3>1. UsedWell'
      BY <1>2, <2>4 DEF SameUse, WalkInv, UsedWell
    <3>2. StandsAt(next, call.dir, call.file)'
      BY <1>0, <1>2, <2>1 DEF SameUse, StandsAt, Handled, Sure, InAFolder, Now
    <3> QED
      BY <1>0, <1>2, <2>1, <3>1, <3>2 DEF SameUse, CallStands, RemovesWhatItRead, Now
  <2>6. AppInv'
    <3>0. AppMay("canonical")'
      BY DEF AppMay
    <3>1. ASSUME call.app PROVE next = "canonical"
      BY <1>0, <3>1 DEF AppMay, WalkInv, AppInv
    <3>2. ASSUME call.app, ~used.moved PROVE AppUsed' /\ AppAt("canonical", call.real, call.dir, call.file)'
      <4>1. AppUsed /\ call.real = Folder /\ p = Folder
        BY <1>0, <3>2 DEF WalkInv, AppInv, AppAt
      <4>2. AppUsed'
        <5> SUFFICES ASSUME NEW x \in used.read \cup used.changed PROVE Clear(home[x])'
          BY <1>2 DEF SameUse, AppUsed
        <5>1. \A k \in Kept : holds'[k] = holds[k]
          BY <1>0, <2>2, <4>1, WalkAssumption DEF Places
        <5> QED
          BY <1>0, <4>1, <5>1 DEF AppUsed, Clear
      <4>3. Leads(call.real)' \notin Kept
        BY <1>0, <2>1, <2>2, <4>1 DEF Leads, Now
      <4> QED
        BY <1>0, <2>1, <4>2, <4>3 DEF AppAt, Handled, Sure, Now
    <3> QED
      BY <1>0, <1>2, <2>1, <3>0, <3>1, <3>2 DEF SameUse, AppInv, Now, WalkInv
  <2> QED
    BY <1>0, <1>2, <2>1, <2>3, <2>5, <2>6 DEF SameUse, WalkInv, Now
<1>3. PICK p \in {Folder} \cup ({holds[Folder]} \cap Places) :
        IF holds[p] = "none"
        THEN \E d \in Dirs :
               /\ PlaceOf(d) = {} /\ entry[d] = "none" /\ \A f \in Files : home[f] # d
               /\ holds' = [holds EXCEPT ![p] = d]
               /\ used' = [used EXCEPT !.made = used.made \cup {<<d, p>>}]
               /\ Go(next)
        ELSE (IF holds[p] \in Dirs THEN Go(next) ELSE Refuse) /\ UNCHANGED <<holds, used>>
  BY DEF MakeFolder
<1>4. CASE holds[p] # "none"
  <2>1. UNCHANGED used => SameUse
    BY <1>0 DEF SameUse
  <2> QED
    BY <1>1, <1>2, <1>3, <1>4, <2>1
<1>5. CASE holds[p] = "none"
  <2>1. PICK d \in Dirs : /\ PlaceOf(d) = {} /\ (\A f \in Files : home[f] # d) /\ Go(next)
                          /\ holds' = [holds EXCEPT ![p] = d]
                          /\ used' = [used EXCEPT !.made = used.made \cup {<<d, p>>}]
    BY <1>3, <1>5
  <2>2. {<<d, p>>} \in SUBSET ((Files \cup Dirs) \X Places)
    <3>1. p \in Places /\ d \in Files \cup Dirs
      BY <1>0, <1>3, <2>1
    <3> QED
      BY <3>1
  <2>3. SameUse
    BY <1>0, <2>1, <2>2, Making
  <2> QED
    BY <1>2, <1>5, <2>1, <2>3
<1> QED
  BY <1>4, <1>5

\* What other programs do to the disk, as long as it leaves DiskInv, leaves the rest: what
\* the call holds is what it was, and the app is told that something moved.
LEMMA MoveStep ==
  ASSUME WalkInv, DiskInv', call.at \notin Over, UNCHANGED call, used' \in UsedSet,
         used'.moved \/ UNCHANGED <<holds, entry, home, used>>,
         used'.read = used.read, used'.changed = used.changed, used'.removed = used.removed,
         been \subseteq been', \A x \in Files : home[x] \in Dirs => home'[x] \in Dirs,
         call.at = "unlink" => entry'[call.dir] \in used'.read \cup used'.put \cup {"none"}
  PROVE  WalkInv'
<1>1. \A x : (Made(x) => Made(x)') /\ (Vets(x) => Vets(x)')
  BY StaysMade
<1>2. UsedWell'
  BY <1>1 DEF WalkInv, UsedWell
<1>3. CallStands'
  <2>1. StandsAt(call.at, call.dir, call.file)'
    BY <1>1 DEF WalkInv, CallStands, StandsAt, Handled, Sure
  <2>2. used.removed = {}
    BY DEF WalkInv, CallStands, StandsAt
  <2> QED
    BY <2>1, <2>2 DEF CallStands, RemovesWhatItRead
<1>4. AppInv'
  <2>1. CASE used'.moved
    BY <2>1 DEF WalkInv, AppInv, AppMay
  <2>2. CASE UNCHANGED <<holds, entry, home, used>>
    BY <2>2 DEF WalkInv, AppInv, AppMay, AppUsed, AppAt, Clear, Leads, Final, Dir, Entry
  <2> QED
    BY <2>1, <2>2
<1> QED
  BY <1>2, <1>3, <1>4 DEF WalkInv

LEMMA PlacesMoveWell == WalkInv /\ call.at \notin Over /\ MovePlace => WalkInv'
<1> SUFFICES ASSUME WalkInv, call.at \notin Over, MovePlace PROVE WalkInv'
  OBVIOUS
<1>0. /\ UNCHANGED <<entry, home, call>> /\ used' = [used EXCEPT !.moved = TRUE] /\ used \in UsedSet
      /\ DiskInv /\ DiskTypes
      /\ \A p \in Places : holds'[p] \in Places => holds'[holds'[p]] \notin Places
      /\ been' = been \cup {b \in Files \X Places : home[b[1]] \in Dirs /\ holds'[b[2]] = home[b[1]]}
  BY DEF MovePlace, WalkInv, DiskInv
<1>1. /\ used' \in UsedSet /\ used'.moved /\ used'.read = used.read /\ used'.changed = used.changed
      /\ used'.removed = used.removed /\ used'.put = used.put
  BY <1>0 DEF UsedSet
<1>2. PICK p \in Places, q \in Places :
        \/ holds[p] # "none" /\ holds[q] = "none" /\ holds' = [holds EXCEPT ![q] = holds[p], ![p] = "none"]
        \/ holds[p] = "none" /\ holds[q] \in Dirs /\ holds' = [holds EXCEPT ![p] = q]
        \/ holds[p] \in Places /\ holds' = [holds EXCEPT ![p] = "none"]
  BY DEF MovePlace
<1>3. holds' \in [Places -> Places \cup Dirs \cup {"none"}] /\ OnePlace'
  <2>1. CASE holds[p] # "none" /\ holds[q] = "none" /\ holds' = [holds EXCEPT ![q] = holds[p], ![p] = "none"]
    <3>1. /\ p # q /\ holds'[q] = holds[p] /\ holds'[p] = "none"
          /\ \A x \in Places \ {p, q} : holds'[x] = holds[x]
          /\ holds' \in [Places -> Places \cup Dirs \cup {"none"}]
      BY <1>0, <2>1 DEF DiskTypes
    <3> QED
      BY <1>0, <3>1, WalkAssumption DEF DiskInv, OnePlace
  <2>2. CASE \E x \in Places \cup {"none"} : holds' = [holds EXCEPT ![p] = x]
    <3>1. PICK x \in Places \cup {"none"} : holds' = [holds EXCEPT ![p] = x]
      BY <2>2
    <3>2. /\ x \notin Dirs /\ holds'[p] = x /\ \A y \in Places \ {p} : holds'[y] = holds[y]
          /\ holds' \in [Places -> Places \cup Dirs \cup {"none"}]
      BY <1>0, <3>1, WalkAssumption DEF DiskTypes
    <3> QED
      BY <1>0, <3>2 DEF DiskInv, OnePlace
  <2> QED
    BY <1>2, <2>1, <2>2
<1>4. DiskInv'
  <2>1. DiskTypes' /\ OneLink'
    BY <1>0, <1>3 DEF DiskTypes, OneLink
  <2>2. AtHome' /\ Been'
    BY <1>0 DEF DiskInv, AtHome, Been
  <2> QED
    BY <1>3, <2>1, <2>2 DEF DiskInv
<1>5. call.at = "unlink" => entry'[call.dir] \in used'.read \cup used'.put \cup {"none"}
  BY <1>0, <1>1 DEF WalkInv, CallStands, StandsAt
<1> QED
  BY <1>0, <1>1, <1>4, <1>5, MoveStep

LEMMA EntriesMoveWell == WalkInv /\ call.at \notin Over /\ MoveEntry => WalkInv'
<1> SUFFICES ASSUME WalkInv, call.at \notin Over, MoveEntry PROVE WalkInv'
  OBVIOUS
<1>0. UNCHANGED <<holds, call>> /\ used \in UsedSet /\ DiskInv /\ DiskTypes /\ "none" \notin Files
  BY WalkAssumption DEF MoveEntry, WalkInv, DiskInv
<1>1. ASSUME NEW x \in Files \cup Places \cup {"none"}, used' = [used EXCEPT !.moved = TRUE, !.put = @ \cup {x}]
      PROVE  /\ used' \in UsedSet /\ used'.moved /\ used'.read = used.read /\ used'.changed = used.changed
             /\ used'.removed = used.removed /\ used'.put = used.put \cup {x}
  BY <1>0, <1>1 DEF UsedSet
<1>2. ASSUME NEW d \in Dirs, NEW x \in Places \cup {"none"}, x # entry[d], PutEntry(d, x) PROVE WalkInv'
  <2>1. /\ x \notin Files /\ UNCHANGED <<home, been>> /\ entry' = [entry EXCEPT ![d] = x]
        /\ used' = [used EXCEPT !.moved = TRUE, !.put = @ \cup {x}]
    BY <1>2, <1>0, WalkAssumption DEF PutEntry
  <2>2. /\ used' \in UsedSet /\ used'.moved /\ used'.read = used.read /\ used'.changed = used.changed
        /\ used'.removed = used.removed /\ used'.put = used.put \cup {x}
    BY <1>1, <2>1
  <2>3. entry'[d] = x /\ \A c \in Dirs \ {d} : entry'[c] = entry[c]
    BY <1>0, <2>1 DEF DiskTypes
  <2>4. DiskInv'
    <3>1. DiskTypes'
      BY <1>0, <2>1 DEF DiskTypes
    <3>2. OneLink' /\ OnePlace' /\ Been'
      BY <1>0, <2>1 DEF DiskInv, OneLink, OnePlace, Been
    <3>3. AtHome'
      BY <1>0, <2>1, <2>3 DEF DiskInv, AtHome
    <3> QED
      BY <3>1, <3>2, <3>3 DEF DiskInv
  <2>5. call.at = "unlink" => entry'[call.dir] \in used'.read \cup used'.put \cup {"none"}
    BY <2>2, <2>3 DEF WalkInv, CallStands, StandsAt, InAFolder
  <2> QED
    BY <1>0, <2>1, <2>2, <2>4, <2>5, MoveStep
<1>3. ASSUME NEW d \in Dirs, NEW e \in Dirs \ {d}, entry[e] \in Files,
             entry' = [entry EXCEPT ![d] = entry[e], ![e] = "none"],
             home' = [home EXCEPT ![entry[e]] = d],
             been' = been \cup {<<entry[e], p>> : p \in PlaceOf(d)},
             used' = [used EXCEPT !.moved = TRUE, !.put = @ \cup {entry[e]}]
      PROVE  WalkInv'
  <2> DEFINE f == entry[e]
  <2>1. /\ used' \in UsedSet /\ used'.moved /\ used'.read = used.read /\ used'.changed = used.changed
        /\ used'.removed = used.removed /\ used'.put = used.put \cup {f}
    BY <1>1, <1>3
  <2>2. /\ entry'[d] = f /\ entry'[e] = "none" /\ \A c \in Dirs \ {d, e} : entry'[c] = entry[c]
        /\ home'[f] = d /\ \A x \in Files \ {f} : home'[x] = home[x]
    BY <1>0, <1>3 DEF DiskTypes
  <2>3. DiskInv'
    <3>1. DiskTypes'
      <4>1. {<<f, p>> : p \in PlaceOf(d)} \subseteq Files \X Places
        BY <1>3 DEF PlaceOf
      <4>2. been' \subseteq Files \X Places
        BY <1>0, <1>3, <4>1 DEF DiskTypes
      <4>3. /\ home' \in [Files -> Dirs \cup {"none"}]
            /\ entry' \in [Dirs -> Files \cup Places \cup {"none"}]
        BY <1>0, <1>3 DEF DiskTypes
      <4> QED
        BY <1>0, <4>2, <4>3 DEF DiskTypes
    <3>2. OneLink' /\ OnePlace'
      BY <1>0 DEF DiskInv, OneLink, OnePlace
    <3>3. Been'
      BY <1>0, <1>3, <2>2 DEF DiskInv, Been, PlaceOf
    <3>4. AtHome'
      <4>1. \A c \in Dirs \ {d, e} : entry[c] \in Files => entry[c] # f /\ home[entry[c]] = c
        BY <1>0, <1>3 DEF DiskInv, AtHome
      <4>2. \A c \in Dirs \ {d, e} : entry'[c] \in Files => home'[entry'[c]] = c
        BY <2>2, <4>1
      <4>3. home'[entry'[d]] = d /\ entry'[e] \notin Files
        BY <1>0, <2>2
      <4> QED
        BY <4>2, <4>3 DEF AtHome
    <3> QED
      BY <3>1, <3>2, <3>3, <3>4 DEF DiskInv
  <2>4. call.at = "unlink" => entry'[call.dir] \in used'.read \cup used'.put \cup {"none"}
    BY <2>1, <2>2 DEF WalkInv, CallStands, StandsAt, InAFolder
  <2>5. /\ been \subseteq been'
        /\ \A x \in Files : home[x] \in Dirs => home'[x] \in Dirs
    BY <1>3, <2>2
  <2> QED
    BY <1>0, <2>1, <2>3, <2>4, <2>5, MoveStep
<1> QED
  BY <1>2, <1>3 DEF MoveEntry

LEMMA RewritesWell == WalkInv /\ call.at \notin Over /\ Rewrite => WalkInv'
<1> SUFFICES ASSUME WalkInv, call.at \notin Over, Rewrite PROVE WalkInv'
  OBVIOUS
<1>1. UNCHANGED <<holds, entry, home, been, call, used>>
  BY DEF Rewrite
<1>2. DiskInv' /\ used' \in UsedSet
  BY <1>1, DiskRests DEF WalkInv
<1>3. call.at = "unlink" => entry'[call.dir] \in used'.read \cup used'.put \cup {"none"}
  BY <1>1 DEF WalkInv, CallStands, StandsAt
<1> QED
  BY <1>1, <1>2, <1>3, MoveStep

LEMMA WalkGoesOn == WalkInv /\ WalkNext => WalkInv'
<1>1. ASSUME WalkInv, CallStep PROVE WalkInv'
  <2>1. CASE ResolveFolder \/ ResolveFile \/ Missing \/ Stat
    BY <1>1, <2>1, ResolvesWell
  <2>2. CASE OpenFolder \/ OpenFile \/ VerifyOpened
    BY <1>1, <2>2, OpensWell
  <2>3. CASE Parent \/ Canonical \/ OpenParent \/ LstatFolder \/ LstatFile
    BY <1>1, <2>3, WalksWell
  <2>4. CASE TakeText \/ Preimage \/ Truncate \/ Write \/ ReadBack \/ VerifyParent
    BY <1>1, <2>4, UsesWell
  <2>5. CASE Locate \/ Confirm \/ Unlink \/ CreateFile \/ MakeFolder
    BY <1>1, <2>5, LocatesWell, ConfirmsWell, UnlinksWell, CreatesWell, MakesWell
  <2> QED
    BY <1>1, <2>1, <2>2, <2>3, <2>4, <2>5, Zenon DEF CallStep
<1>2. ASSUME WalkInv, Others PROVE WalkInv'
  BY <1>2, PlacesMoveWell, EntriesMoveWell, RewritesWell DEF Others
<1> QED
  BY <1>1, <1>2 DEF WalkNext

LEMMA WalkSteps == [Next]_vars => WalkNext \/ UNCHANGED walkVars
<1>1. Next => WalkNext \/ UNCHANGED walkVars
  BY DEF Next, WithPeople, WithTheMachine, InTheWorkspace, InTheSystem, machineVars
<1>2. UNCHANGED vars => UNCHANGED walkVars
  BY DEF vars, machineVars
<1> QED
  BY <1>1, <1>2

LEMMA WalkRests == WalkInv /\ UNCHANGED walkVars => WalkInv'
<1> SUFFICES ASSUME WalkInv, UNCHANGED walkVars PROVE WalkInv'
  OBVIOUS
<1>1. UNCHANGED <<holds, entry, home, been, call, used>>
  BY DEF walkVars
<1>2. DiskInv'
  BY <1>1, DiskRests DEF WalkInv
<1>3. CallStands' /\ UsedWell'
  BY <1>1 DEF WalkInv, CallStands, StandsAt, Made, Vets, RemovesWhatItRead, UsedWell
<1>4. AppInv'
  BY <1>1 DEF WalkInv, AppInv, AppMay, AppUsed, AppAt, Clear, Leads, Final, Dir, Entry
<1> QED
  BY <1>1, <1>2, <1>3, <1>4 DEF WalkInv

LEMMA WalkBegins ==
  ASSUME NEW folder \in SUBSET {Folder}, NEW wanted \in Calls, WalkStart(folder, wanted)
  PROVE  WalkInv
<1> DEFINE there == Kept \cup Outside \cup folder
<1>0. /\ holds = [p \in Places |-> IF p \in there THEN DirOf[p] ELSE "none"]
      /\ entry = [d \in Dirs |-> IF \E p \in there : d = DirOf[p]
                                 THEN FileOf[CHOOSE p \in there : d = DirOf[p]] ELSE "none"]
      /\ home = [f \in Files |-> IF Present(f) = {} THEN "none" ELSE holds[CHOOSE p \in Present(f) : TRUE]]
      /\ been = {b \in Files \X Places : b[2] \in Present(b[1])}
      /\ call = wanted
      /\ used = [read |-> {}, changed |-> {}, removed |-> {}, made |-> {}, moved |-> FALSE, put |-> {}]
  BY DEF WalkStart
<1>1. there \subseteq Places /\ Folder \in Places
  BY WalkAssumption DEF Places
<1>2. \A p \in Places : DirOf[p] \in Dirs /\ FileOf[p] \in Files
  BY DEF Dirs, Files
<1>3. \A p, q \in Places : DirOf[p] = DirOf[q] \/ FileOf[p] = FileOf[q] => p = q
  BY WalkAssumption
<1>4. \A p \in there : holds[p] = DirOf[p] /\ entry[DirOf[p]] = FileOf[p]
  <2> SUFFICES ASSUME NEW p \in there PROVE holds[p] = DirOf[p] /\ entry[DirOf[p]] = FileOf[p]
    OBVIOUS
  <2>1. (CHOOSE q \in there : DirOf[p] = DirOf[q]) = p
    BY <1>1, <1>3
  <2> QED
    BY <1>0, <1>1, <1>2, <2>1
<1>5. \A d \in Dirs : entry[d] # "none" => \E p \in there : d = DirOf[p] /\ entry[d] = FileOf[p]
  BY <1>0, <1>4
<1>6. \A p \in Places : holds[p] # "none" => p \in there
  BY <1>0
<1>7. \A f \in Files : \A p \in Present(f) : p \in there /\ f = FileOf[p] /\ Present(f) = {p}
  <2> SUFFICES ASSUME NEW f \in Files, NEW p \in Present(f) PROVE p \in there /\ f = FileOf[p] /\ Present(f) = {p}
    OBVIOUS
  <2>1. \A q \in Present(f) : q \in there /\ f = FileOf[q]
    BY <1>1, <1>4, <1>6, WalkAssumption DEF Present
  <2>2. \A q \in Present(f) : q = p
    BY <1>1, <1>3, <2>1
  <2>3. Present(f) = {p}
    BY <2>2
  <2> QED
    BY <2>1, <2>3
<1>8. \A f \in Files : \A p \in Present(f) : home[f] = DirOf[p]
  <2> SUFFICES ASSUME NEW f \in Files, NEW p \in Present(f) PROVE home[f] = DirOf[p]
    OBVIOUS
  <2>1. home[f] = holds[CHOOSE q \in Present(f) : TRUE]
    BY <1>0
  <2>2. (CHOOSE q \in Present(f) : TRUE) = p /\ holds[p] = DirOf[p]
    BY <1>4, <1>7
  <2> QED
    BY <2>1, <2>2
<1>9. \A f \in Files : Present(f) = {} => home[f] = "none"
  BY <1>0
<1>10. DiskTypes
  <2>1. holds \in [Places -> Places \cup Dirs \cup {"none"}]
    BY <1>0, <1>2
  <2>2. entry \in [Dirs -> Files \cup Places \cup {"none"}]
    <3>1. \A d \in Dirs : entry[d] \in Files \cup {"none"}
      BY <1>1, <1>2, <1>5
    <3>2. entry = [d \in Dirs |-> entry[d]]
      BY <1>0
    <3> QED
      BY <3>1, <3>2
  <2>3. home \in [Files -> Dirs \cup {"none"}]
    <3>1. \A f \in Files : home[f] \in Dirs \cup {"none"}
      BY <1>1, <1>2, <1>7, <1>8, <1>9
    <3>2. home = [f \in Files |-> home[f]]
      BY <1>0
    <3> QED
      BY <3>1, <3>2
  <2>4. been \subseteq Files \X Places
    BY <1>0
  <2> QED
    BY <2>1, <2>2, <2>3, <2>4 DEF DiskTypes
<1>11. OneLink /\ OnePlace
  BY <1>1, <1>2, <1>3, <1>4, <1>6, WalkAssumption DEF OneLink, OnePlace
<1>12. AtHome
  <2> SUFFICES ASSUME NEW d \in Dirs, entry[d] \in Files PROVE home[entry[d]] = d
    BY DEF AtHome
  <2>1. PICK p \in there : d = DirOf[p] /\ entry[d] = FileOf[p]
    BY <1>5, WalkAssumption
  <2>2. p \in Present(entry[d])
    BY <1>1, <1>2, <1>4, <2>1 DEF Present
  <2> QED
    BY <1>8, <2>1, <2>2
<1>13. Been
  <2> SUFFICES ASSUME NEW f \in Files, NEW p \in Places, home[f] \in Dirs, holds[p] = home[f]
               PROVE  <<f, p>> \in been
    BY DEF Been
  <2>1. PICK q \in Present(f) : home[f] = DirOf[q] /\ q \in there
    BY <1>7, <1>8, <1>9, WalkAssumption
  <2>2. p \in there /\ holds[p] = DirOf[p]
    BY <1>4, <1>6, WalkAssumption
  <2>3. p = q
    BY <1>1, <1>3, <2>1, <2>2
  <2> QED
    BY <1>0, <2>1, <2>3
<1>14. DiskInv
  BY <1>10, <1>11, <1>12, <1>13 DEF DiskInv
<1>15. PICK op \in Tools \cup Broker, app \in BOOLEAN :
         call = Call(op, app) /\ (app => op \in Tools)
  BY <1>0 DEF Calls
<1>16. /\ call \in CallSet /\ call.at \in {"asked", "start"} /\ call.app = app /\ call.op = op
       /\ call.at = "asked" <=> app
  BY <1>1, <1>15 DEF Call, CallSet, Points
<1>17. used \in UsedSet /\ used.read = {} /\ used.changed = {} /\ used.removed = {}
  BY <1>0 DEF UsedSet
<1>18. CallStands /\ UsedWell
  BY <1>16, <1>17 DEF CallStands, UsedWell, StandsAt, RemovesWhatItRead, Handled, Sure, InAFolder
<1>19. AppInv
  BY <1>15, <1>16, <1>17 DEF AppInv, AppMay, AppUsed, AppAt, Led, Handled, Sure
<1> QED
  BY <1>14, <1>16, <1>17, <1>18, <1>19 DEF WalkInv

LEMMA WalkHolds == Spec => []WalkInv
<1>1. Init => WalkInv
  <2>1. Call("read", FALSE) \in Calls
    BY DEF Calls, Tools
  <2> QED
    BY <2>1, WalkBegins DEF Init, WalkInit
<1>2. WalkInv /\ [Next]_vars => WalkInv'
  BY WalkSteps, WalkRests, WalkGoesOn
<1> QED
  BY <1>1, <1>2, PTL DEF Spec

\* What a call makes.  While nothing is moved, the path at r, and the folder d, are where
\* the call may go.
MakesAt(a, r, d) ==
  /\ a \in {"make folder", "lstat file"} => r = Folder
  /\ a = "make folder" => holds[Folder] \notin Places
  /\ a = "lstat file" => holds[Folder] \in Dirs
  /\ a = "create" => Leads(r) \in May
  /\ a = "create file" => \A p \in Places : holds[p] = d => p \in May

Makes == {"make folder", "lstat file", "create", "create file"}

MadeInv ==
  /\ call.at = "asked" => used.made = {}
  /\ call.at \in {"parent", "canonical"} => call.op = "write"
  /\ ~used.moved =>
       /\ \A m \in used.made : m[2] \in May
       /\ MakesAt(call.at, call.real, call.dir)

\* Most steps make nothing, and do not lead to where something is made.
LEMMA MakesNothing ==
  ASSUME MadeInv, call'.op = call.op, call'.app = call.app,
         used'.made = used.made, used'.moved = used.moved, call'.at \notin Makes \cup {"asked", "parent", "canonical"}
  PROVE  MadeInv'
  BY DEF MadeInv, MakesAt, Makes, May

LEMMA CallMakesWell ==
  ASSUME WalkInv, MadeInv, CallStep
  PROVE  MadeInv'
<1>0. /\ call \in CallSet /\ used \in UsedSet /\ DiskInv /\ DiskTypes /\ OnePlace
      /\ Folder \in Places /\ Folder \in May /\ Dirs \cap Places = {} /\ "none" \notin Places \cup Dirs
  BY WalkAssumption DEF WalkInv, DiskInv, May, Places
<1>1. ASSUME NEW a \in Points \ (Makes \cup {"asked", "parent", "canonical"}), call'.at = a,
             call'.op = call.op, call'.app = call.app, used'.made = used.made, used'.moved = used.moved
      PROVE  MadeInv'
  BY <1>1, MakesNothing
<1>a. ASSUME call' = [call EXCEPT !.at = "refused"], UNCHANGED used PROVE MadeInv'
  <2>1. call'.at = "refused" /\ call'.op = call.op /\ call'.app = call.app
    BY <1>0, <1>a DEF CallSet
  <2> QED
    BY <1>1, <1>a, <2>1 DEF Points, Makes
<1>2. ASSUME NEW a \in Points, NEW r, NEW d, NEW f, Now(a, r, d, f), UNCHANGED <<holds, used>>, a # "asked",
             a \in {"parent", "canonical"} => call.op = "write",
             ~used.moved => MakesAt(a, r, d)
      PROVE  MadeInv'
  BY <1>2 DEF MadeInv, Now, MakesAt, May, Leads
<1>3. CASE ResolveFolder \/ ResolveFile \/ Stat
  <2>1. /\ call'.at \in {"missing", "resolve", "refused", "stat", "open"} /\ UNCHANGED used
        /\ call'.op = call.op /\ call'.app = call.app
    BY <1>0, <1>3 DEF CallSet, ResolveFolder, ResolveFile, Stat, Go, Refuse, Quietly
  <2> QED
    BY <2>1, <1>1 DEF Points, Makes
<1>4. CASE OpenFile \/ VerifyOpened \/ OpenParent
  <2>1. /\ call'.at \in {"opened", "refused", "take", "folder", "read back", "write", "preimage", "parent opened"}
        /\ UNCHANGED used
        /\ call'.op = call.op /\ call'.app = call.app
    BY <1>0, <1>4 DEF CallSet, OpenFile, VerifyOpened, OpenParent, Go, Quietly
  <2> QED
    BY <2>1, <1>1 DEF Points, Makes
<1>5. CASE TakeText \/ Preimage \/ Truncate \/ Write \/ ReadBack \/ VerifyParent
  <2>1. /\ call'.at \in {"done", "truncate", "refused", "write", "stat", "open", "failed", "confirm"}
        /\ call'.op = call.op /\ call'.app = call.app
    BY <1>0, <1>5 DEF CallSet, TakeText, Preimage, Truncate, Write, ReadBack, VerifyParent, Go, Refuse
  <2>2. (\E how \in {"read", "changed"} : Use(how)) \/ UNCHANGED used
    BY <1>5 DEF TakeText, Preimage, Truncate, Write, ReadBack, VerifyParent
  <2>3. used'.made = used.made /\ used'.moved = used.moved
    <3>1. CASE Use("read")
      BY <1>0, <3>1 DEF Use, UsedSet
    <3>2. CASE Use("changed")
      BY <1>0, <3>2 DEF Use, UsedSet
    <3> QED
      BY <2>2, <3>1, <3>2
  <2> QED
    BY <2>1, <2>3, <1>1 DEF Points, Makes
<1>6. CASE Confirm \/ Unlink
  <2>1. /\ call'.at \in {"unlink", "refused", "failed", "done"}
        /\ call'.op = call.op /\ call'.app = call.app
    BY <1>0, <1>6 DEF CallSet, Confirm, Unlink, Go
  <2>2. used'.made = used.made /\ used'.moved = used.moved
    BY <1>0, <1>6 DEF Confirm, Unlink, UsedSet
  <2> QED
    BY <2>1, <2>2, <1>1 DEF Points, Makes
<1>7. CASE Locate
  <2>1. /\ call'.at \in {"start", "refused"} /\ call'.op = call.op /\ call'.app = call.app
        /\ call.at = "asked"
    BY <1>0, <1>7 DEF CallSet, Locate, Go, Refuse
  <2>2. used'.made = {}
    BY <1>0, <1>7, <2>1 DEF Locate, UsedSet, MadeInv
  <2> QED
    BY <2>1, <2>2 DEF MadeInv, MakesAt
<1>8. CASE Missing \/ Parent
  <2>1. UNCHANGED <<holds, used>> /\ call.at \in {"missing", "parent"}
    BY <1>8 DEF Missing, Parent, Quietly, diskVars
  <2>2. CASE call' = [call EXCEPT !.at = "refused"]
    BY <1>a, <2>1, <2>2
  <2>3. CASE call' = [call EXCEPT !.at = "parent"] /\ call.op = "write"
    <3>1. Now("parent", call.real, call.dir, call.file)
      BY <1>0, <2>3, Going DEF Go, Points
    <3> QED
      BY <1>2, <2>1, <2>3, <3>1 DEF MakesAt, Points
  <2>4. CASE call.at = "parent" /\ call' = [call EXCEPT !.checked = TRUE]
    <3>1. Now("parent", call.real, call.dir, call.file)
      BY <1>0, <2>4, Noting DEF Points
    <3> QED
      BY <1>2, <2>1, <2>4, <3>1 DEF MakesAt, Points, MadeInv
  <2>5. CASE call.at = "parent" /\ holds[Folder] = "none"
             /\ call' = [call EXCEPT !.at = "make folder", !.real = Folder]
    <3>1. Now("make folder", Folder, call.dir, call.file)
      BY <1>0, <2>5, GoingTo DEF Points
    <3> QED
      BY <1>0, <1>2, <2>1, <2>5, <3>1 DEF MakesAt, Points
  <2>6. CASE call.at = "parent" /\ call' = [call EXCEPT !.at = "canonical", !.real = Leads(Folder)]
    <3>1. Now("canonical", Leads(Folder), call.dir, call.file)
      BY <1>0, <2>6, GoingTo, Leading DEF Points
    <3> QED
      BY <1>2, <2>1, <2>6, <3>1 DEF MakesAt, Points, MadeInv
  <2> QED
    BY <1>8, <2>2, <2>3, <2>4, <2>5, <2>6 DEF Missing, Parent, Refuse, Go
<1>9. CASE Canonical
  <2>1. UNCHANGED <<holds, used>> /\ call.at = "canonical" /\ call.op = "write"
    BY <1>9 DEF Canonical, Quietly, diskVars, MadeInv
  <2>2. CASE call' = [call EXCEPT !.at = "refused"]
    BY <1>a, <2>1, <2>2
  <2>3. CASE Within(Leads(call.real)) /\ call' = [call EXCEPT !.at = "create", !.real = Leads(call.real)]
    <3>1. Leads(call.real) \in Places /\ Leads(Leads(call.real)) = Leads(call.real)
      BY <1>0, Leading, LeadsOnce DEF CallSet, DiskInv
    <3>2. Now("create", Leads(call.real), call.dir, call.file)
      BY <1>0, <2>3, <3>1, GoingTo DEF Points
    <3>3. ~used.moved => Leads(call.real) \in May
      <4>1. call.app /\ ~used.moved => Leads(call.real) \notin Kept
        BY <2>1 DEF WalkInv, AppInv, AppAt, Led
      <4>2. call.op \notin Broker
        BY <2>1 DEF Broker
      <4> QED
        BY <2>3, <4>1, <4>2 DEF May, Within
    <3> QED
      BY <1>2, <2>1, <3>1, <3>2, <3>3 DEF MakesAt, Points
  <2> QED
    BY <1>9, <2>2, <2>3 DEF Canonical
<1>10. CASE LstatFolder
  <2>1. UNCHANGED <<holds, used>>
    BY <1>10 DEF LstatFolder, Quietly, diskVars
  <2>2. PICK a \in {"lstat file", "refused", "make folder", "done"} :
          /\ call' = [call EXCEPT !.real = Folder, !.at = a]
          /\ a = "lstat file" => holds[Folder] \in Dirs
          /\ a = "make folder" => holds[Folder] \notin Places
    BY <1>10 DEF LstatFolder
  <2>3. Now(a, Folder, call.dir, call.file)
    BY <1>0, <2>2, GoingTo DEF Points
  <2> QED
    BY <1>2, <2>1, <2>2, <2>3 DEF MakesAt, Points
<1>11. CASE LstatFile
  <2>1. UNCHANGED <<holds, used>> /\ call.at = "lstat file"
    BY <1>11 DEF LstatFile, Quietly, diskVars
  <2>2. PICK a \in {"refused", "done", "open", "create"} : Go(a)
    BY <1>11 DEF LstatFile, Refuse
  <2>3. Now(a, call.real, call.dir, call.file)
    BY <1>0, <2>2, Going DEF Points
  <2>4. ~used.moved => Leads(call.real) = Folder
    BY <1>0, <2>1 DEF MadeInv, MakesAt, Leads
  <2> QED
    BY <1>0, <1>2, <2>1, <2>2, <2>3, <2>4 DEF MakesAt, Points
<1>12. CASE OpenFolder
  <2> DEFINE d == Dir(call.real)
  <2>1. UNCHANGED <<holds, used>> /\ call.at \in {"open", "create"}
    BY <1>12 DEF OpenFolder, Quietly, diskVars
  <2>2. PICK a \in {"refused", "open file", "create file"} :
          /\ call' = [call EXCEPT !.at = a, !.dir = d]
          /\ a = "create file" => call.at = "create" /\ d # "none"
    BY <1>12 DEF OpenFolder
  <2>3. d \in Dirs \cup {"none"} /\ Leads(call.real) \in Places
    BY <1>0, Leading DEF Dir, CallSet, DiskTypes
  <2>4. Now(a, call.real, d, call.file)
    BY <1>0, <2>2, <2>3, GoingIn DEF Points
  <2>5. ASSUME ~used.moved, a = "create file", NEW p \in Places, holds[p] = d PROVE p \in May
    <3>1. holds[Leads(call.real)] = d /\ d \in Dirs
      BY <1>0, <2>2, <2>3, <2>5 DEF Dir
    <3>2. p = Leads(call.real)
      BY <1>0, <2>3, <2>5, <3>1 DEF OnePlace
    <3> QED
      BY <2>2, <2>5, <3>2 DEF MadeInv, MakesAt
  <2> QED
    BY <1>2, <2>1, <2>2, <2>4, <2>5 DEF MakesAt, Points
<1>13. CASE CreateFile
  <2>1. call.at = "create file" /\ UNCHANGED holds
    BY <1>13 DEF CreateFile, diskVars
  <2>2. CASE Refuse /\ UNCHANGED used
    BY <1>a, <2>2 DEF Refuse, Go
  <2>3. ASSUME NEW f \in Files, call' = [call EXCEPT !.at = "opened", !.file = f, !.made = TRUE],
               used' = [used EXCEPT !.made = used.made \cup {<<f, p>> : p \in PlaceOf(call.dir)}]
        PROVE  MadeInv'
    <3>1. call'.at = "opened" /\ call'.op = call.op /\ call'.app = call.app
      BY <1>0, <2>3 DEF CallSet
    <3>2. used'.made = used.made \cup {<<f, p>> : p \in PlaceOf(call.dir)} /\ used'.moved = used.moved
      BY <1>0, <2>3 DEF UsedSet
    <3>3. ASSUME ~used.moved, NEW m \in used'.made PROVE m[2] \in May
      <4>1. CASE m \in used.made
        BY <3>3, <4>1 DEF MadeInv
      <4>2. CASE \E p \in PlaceOf(call.dir) : m = <<f, p>>
        <5>1. PICK p \in Places : holds[p] = call.dir /\ m = <<f, p>>
          BY <4>2 DEF PlaceOf
        <5>2. p \in May
          BY <2>1, <3>3, <5>1 DEF MadeInv, MakesAt
        <5> QED
          BY <5>1, <5>2
      <4> QED
        BY <3>2, <3>3, <4>1, <4>2
    <3> QED
      BY <3>1, <3>2, <3>3 DEF MadeInv, MakesAt, May
  <2> QED
    BY <1>13, <2>2, <2>3 DEF CreateFile
<1>14. CASE MakeFolder
  <2> DEFINE next == IF call.op = "write" THEN "canonical" ELSE "lstat file"
  <2>1. PICK p \in {Folder} \cup ({holds[Folder]} \cap Places) :
          IF holds[p] = "none"
          THEN \E d \in Dirs : /\ holds' = [holds EXCEPT ![p] = d]
                               /\ used' = [used EXCEPT !.made = used.made \cup {<<d, p>>}]
                               /\ Go(next)
          ELSE (IF holds[p] \in Dirs THEN Go(next) ELSE Refuse) /\ UNCHANGED <<holds, used>>
    BY <1>14 DEF MakeFolder
  <2>2. call.at = "make folder" /\ (~used.moved => p = Folder /\ call.real = Folder)
    BY <1>14, <2>1 DEF MakeFolder, MadeInv, MakesAt
  <2>3. CASE Refuse /\ UNCHANGED used
    BY <1>a, <2>3 DEF Refuse, Go
  <2>4. CASE Go(next) /\ holds[p] \in Dirs /\ UNCHANGED <<holds, used>>
    <3>1. Now(next, call.real, call.dir, call.file)
      BY <1>0, <2>4, Going DEF Points
    <3> QED
      BY <1>2, <2>2, <2>4, <3>1 DEF MakesAt, Points
  <2>5. ASSUME NEW d \in Dirs, holds' = [holds EXCEPT ![p] = d],
               used' = [used EXCEPT !.made = used.made \cup {<<d, p>>}], Go(next)
        PROVE  MadeInv'
    <3>1. Now(next, call.real, call.dir, call.file)
      BY <1>0, <2>5, Going DEF Points
    <3>2. used'.made = used.made \cup {<<d, p>>} /\ used'.moved = used.moved
      BY <1>0, <2>5 DEF UsedSet
    <3>3. ~used.moved => holds'[Folder] \in Dirs
      BY <1>0, <2>2, <2>5 DEF DiskTypes
    <3>4. ASSUME ~used.moved, NEW m \in used'.made PROVE m[2] \in May
      <4>1. CASE m \in used.made
        BY <3>4, <4>1 DEF MadeInv
      <4>2. CASE m = <<d, p>>
        BY <1>0, <2>2, <3>4, <4>2
      <4> QED
        BY <3>2, <3>4, <4>1, <4>2
    <3> QED
      BY <2>2, <3>1, <3>2, <3>3, <3>4 DEF MadeInv, MakesAt, May, Now
  <2> QED
    BY <2>1, <2>3, <2>4, <2>5
<1> QED
  BY <1>3, <1>4, <1>5, <1>6, <1>7, <1>8, <1>9, <1>10, <1>11, <1>12, <1>13, <1>14, Zenon DEF CallStep

LEMMA OthersMakeNothing ==
  ASSUME WalkInv, MadeInv, Others
  PROVE  MadeInv'
<1>0. UNCHANGED call /\ used \in UsedSet
  BY DEF Others, MovePlace, MoveEntry, Rewrite, WalkInv
<1>1. CASE Rewrite
  BY <1>0, <1>1 DEF Rewrite, MadeInv, MakesAt, May, Leads
<1>2. CASE MovePlace \/ MoveEntry
  <2>1. \/ used' = [used EXCEPT !.moved = TRUE]
        \/ \E x : used' = [used EXCEPT !.moved = TRUE, !.put = used.put \cup {x}]
    BY <1>2 DEF MovePlace, MoveEntry, PutEntry
  <2>2. used'.moved /\ used'.made = used.made
    BY <1>0, <2>1 DEF UsedSet
  <2> QED
    BY <1>0, <2>2 DEF MadeInv
<1> QED
  BY <1>1, <1>2 DEF Others

LEMMA MadeHolds == Spec => []MadeInv
<1>1. Init => MadeInv
  <2>1. ASSUME NEW folder, NEW wanted \in Calls, WalkStart(folder, wanted) PROVE MadeInv
    <3>1. call.at \in {"asked", "start"} /\ used.made = {}
      BY <2>1 DEF WalkStart, Calls, Call
    <3> QED
      BY <3>1 DEF MadeInv, MakesAt
  <2>2. Call("read", FALSE) \in Calls
    BY DEF Calls, Tools
  <2> QED
    BY <2>1, <2>2 DEF Init, WalkInit
<1>2. WalkInv /\ MadeInv /\ [Next]_vars => MadeInv'
  <2>1. MadeInv /\ UNCHANGED walkVars => MadeInv'
    BY DEF walkVars, MadeInv, MakesAt, May, Leads
  <2> QED
    BY <2>1, WalkSteps, CallMakesWell, OthersMakeNothing DEF WalkNext
<1> QED
  BY <1>1, <1>2, WalkHolds, PTL DEF Spec

LEMMA WalkStays == WalkInv /\ MadeInv => CallsStayInside /\ RemovesWhatItRead
<1> SUFFICES ASSUME WalkInv, MadeInv PROVE CallsStayInside /\ RemovesWhatItRead
  OBVIOUS
<1>1. ASSUME NEW f \in used.read \cup used.changed, call.app, ~used.moved PROVE Present(f) \cap Kept = {}
  <2>1. f \in Files /\ Clear(home[f])
    BY <1>1 DEF WalkInv, AppInv, AppUsed, UsedWell, Made
  <2>2. \A p \in Present(f) : holds[p] = home[f]
    BY <2>1 DEF Present, WalkInv, DiskInv, AtHome
  <2> QED
    BY <2>1, <2>2 DEF Clear
<1>2. CallsStayInside
  BY <1>1 DEF CallsStayInside, WalkInv, UsedWell, Vets, MadeInv
<1> QED
  BY <1>2 DEF WalkInv, CallStands

\* Whatever other programs rename, link or rewrite under a call, any number of times: what
\* it reads or writes has been in the workspace, the broker's at the path it named, and
\* the app's is in no kept folder unless something moved after it looked; and what it makes,
\* files and folders, it makes there unless something moved (CallsStayInside).
THEOREM CallsAreConfined == Spec => []CallsStayInside
  BY WalkHolds, MadeHolds, WalkStays, PTL

\* And what it removes is the file it read, or one put in its place in the instant after
\* it had confirmed that (RemovesWhatItRead).
THEOREM RemovalsAreConfirmed == Spec => []RemovesWhatItRead
  BY WalkHolds, MadeHolds, WalkStays, PTL

--------------------------------------------------------------------------------
\* A set of numbers has a least one.
LEMMA LeastNumber ==
  ASSUME NEW T, T \subseteq Nat, T # {}
  PROVE  \E x \in T : \A y \in T : x <= y
<1>1. PICK n \in T : TRUE
  OBVIOUS
<1> DEFINE S == 0 .. n
           U == {0 .. y : y \in T \cap S}
<1>2. n \in Nat /\ IsFiniteSet(S)
  BY FS_Interval
<1>3. IsWellFoundedOn(StrictSubsetOrdering(S), SUBSET S)
  BY <1>2, FS_StrictSubsetOrderingWellFounded, FS_FiniteSubsetsOfFinite
<1>4. U \subseteq SUBSET S /\ U # {}
  BY <1>1, <1>2
<1>5. PICK u \in U : \A v \in U : ~ (<<v, u>> \in StrictSubsetOrdering(S))
  <2> HIDE DEF S, U
  <2> QED
    BY <1>3, <1>4, WFMin
<1>6. PICK x \in T \cap S : u = 0 .. x
  OBVIOUS
<1>7. ASSUME NEW y \in T, y < x PROVE FALSE
  <2>1. y \in T \cap S /\ 0 .. y \in U
    BY <1>1, <1>7
  <2>2. 0 .. y \subseteq 0 .. x /\ 0 .. y # 0 .. x
    BY <1>1, <1>7
  <2> QED
    BY <1>4, <1>5, <1>6, <2>1, <2>2 DEF StrictSubsetOrdering
<1> QED
  BY <1>7

--------------------------------------------------------------------------------
(* PageReads: the ledger.                                                     *)

Bytes == {"a", "nl", "first", "second"}

\* The ledger only grows, so what was sent of it stays in it.
TailInv ==
  /\ file \in Seq(Bytes)
  /\ tail \in [at : {"idle", "sized", "sent", "not_text"}, size : Nat, from : Nat, sent : Seq(Bytes)]
  /\ tail.at \in {"sized", "sent"} => tail.size <= Len(file)
  /\ tail.at = "sent" => tail.from + Len(tail.sent) <= Len(file)
  /\ TailIsTheNewestRows

\* A row is dropped up to its newline, or there is none.
LEMMA RowDropped ==
  ASSUME NEW q \in Seq(Bytes), Len(q) > 0
  PROVE  /\ DropRow(q) \in 1 .. Len(q)
         /\ q[DropRow(q)] = "nl" \/ DropRow(q) = Len(q)
         /\ \A j \in 1 .. DropRow(q) - 1 : q[j] # "nl"
<1> DEFINE T == {i \in DOMAIN q : q[i] = "nl"}
<1>1. DOMAIN q = 1 .. Len(q) /\ Len(q) \in Nat
  OBVIOUS
<1>2. CASE T = {}
  BY <1>1, <1>2 DEF DropRow
<1>3. CASE T # {}
  <2>1. PICK k \in T : \A y \in T : k <= y
    <3>1. T \subseteq Nat
      BY <1>1
    <3> HIDE DEF T
    <3> QED
      BY <1>3, <3>1, LeastNumber
  <2>2. k \in DOMAIN q /\ q[k] = "nl" /\ \A j \in 1 .. k - 1 : q[j] # "nl"
    BY <1>1, <2>1
  <2>3. DropRow(q) = CHOOSE i \in DOMAIN q : q[i] = "nl" /\ \A j \in 1 .. i - 1 : q[j] # "nl"
    BY <2>2 DEF DropRow
  <2>4. DropRow(q) \in DOMAIN q /\ q[DropRow(q)] = "nl" /\ \A j \in 1 .. DropRow(q) - 1 : q[j] # "nl"
    BY <2>2, <2>3
  <2> QED
    BY <1>1, <2>4
<1> QED
  BY <1>2, <1>3

LEMMA Piece ==
  ASSUME NEW q \in Seq(Bytes), NEW m \in Nat \ {0}, NEW n \in Nat, n <= Len(q), m <= n + 1
  PROVE  /\ SubSeq(q, m, n) \in Seq(Bytes)
         /\ Len(SubSeq(q, m, n)) = n - m + 1
         /\ \A i \in 1 .. n - m + 1 : SubSeq(q, m, n)[i] = q[m + i - 1]
<1>1. \A i \in m .. n : q[i] \in Bytes
  OBVIOUS
<1>2. /\ SubSeq(q, m, n) \in Seq(Bytes)
      /\ Len(SubSeq(q, m, n)) = IF m <= n THEN n - m + 1 ELSE 0
      /\ \A i \in 1 .. n - m + 1 : SubSeq(q, m, n)[i] = q[m + i - 1]
  BY <1>1, SubSeqProperties
<1> QED
  BY <1>2

\* What the ledger's reader leaves out and what it sends.
LEMMA TailIsRead ==
  ASSUME TailInv, ReadTail
  PROVE  TailInv'
<1> DEFINE start == IF tail.size > LedgerCap THEN tail.size - LedgerCap ELSE 0
           end == Lesser(Len(file), start + LedgerCap)
           from == Cut(tail.size)
           sent == SubSeq(file, from + 1, end)
<1>1. /\ file \in Seq(Bytes) /\ Len(file) \in Nat /\ LedgerCap \in Nat
      /\ tail.size \in Nat /\ tail.size <= Len(file) /\ tail.at = "sized" /\ file' = file
      /\ DOMAIN file = 1 .. Len(file) /\ \A i \in 1 .. Len(file) : file[i] \in Bytes
  BY PageReadsAssumption DEF TailInv, ReadTail
<1>2. /\ start \in Nat /\ end \in Nat /\ end <= Len(file) /\ end <= start + LedgerCap
      /\ end >= tail.size
      /\ start = 0 \/ (start = tail.size - LedgerCap /\ end = tail.size /\ start \in 1 .. end)
  BY <1>1 DEF Lesser
<1>7. from = IF start = 0 THEN 0 ELSE start - 1 + DropRow(SubSeq(file, start, end))
  BY DEF Cut
<1> HIDE DEF start, end, from, sent
<1>3. /\ from \in Nat /\ from <= end /\ start <= from
      /\ end - from <= LedgerCap
      /\ from = 0 \/ file[from] = "nl" \/ from = end
      /\ \A i \in 1 .. from : i = 1 \/ file[i - 1] = "nl" => i + LedgerCap <= tail.size
  <2>1. CASE start = 0
    <3>1. from = 0
      BY <1>7, <2>1
    <3> QED
      BY <1>1, <1>2, <2>1, <3>1
  <2>2. CASE start # 0
    <3> DEFINE read == SubSeq(file, start, end)
    <3>1. start = tail.size - LedgerCap /\ end = tail.size /\ start \in 1 .. end
      BY <1>2, <2>2
    <3>2. /\ read \in Seq(Bytes) /\ Len(read) = LedgerCap + 1
          /\ \A i \in 1 .. LedgerCap + 1 : read[i] = file[start + i - 1]
      <4>1. /\ read \in Seq(Bytes) /\ Len(read) = end - start + 1
            /\ \A i \in 1 .. end - start + 1 : read[i] = file[start + i - 1]
        <5>1. start \in Nat \ {0} /\ start <= end + 1
          BY <1>2, <3>1
        <5> QED
          BY <1>1, <1>2, <5>1, Piece
      <4>2. end - start + 1 = LedgerCap + 1
        BY <1>1, <3>1
      <4> QED
        BY <4>1, <4>2
    <3>3. from = start - 1 + DropRow(read)
      BY <1>7, <2>2
    <3> DEFINE d == DropRow(read)
    <3> HIDE DEF read
    <3>4. d \in 1 .. LedgerCap + 1 /\ (read[d] = "nl" \/ d = LedgerCap + 1)
          /\ \A j \in 1 .. d - 1 : read[j] # "nl"
      BY <1>1, <3>2, RowDropped
    <3> HIDE DEF d
    <3>8. from = start - 1 + d
      BY <3>3 DEF d
    <3>9. d \in Nat /\ 1 <= d /\ d <= LedgerCap + 1
      BY <1>1, <3>4
    <3>10. start \in Nat /\ 1 <= start /\ start + LedgerCap = end /\ end = tail.size
      BY <1>1, <1>2, <3>1
    <3>5. from \in Nat /\ from <= end /\ start <= from /\ end - from <= LedgerCap
      BY <1>1, <1>2, <3>8, <3>9, <3>10
    <3>6. file[from] = "nl" \/ from = end
      <4>1. read[d] = file[from]
        <5>1. from = start + d - 1
          BY <3>8, <3>9, <3>10
        <5> QED
          BY <3>2, <3>4, <5>1
      <4>2. d = LedgerCap + 1 => from = end
        BY <1>1, <1>2, <3>8, <3>10
      <4> QED
        BY <3>4, <4>1, <4>2
    <3>7. ASSUME NEW i \in 1 .. from, i = 1 \/ file[i - 1] = "nl" PROVE i + LedgerCap <= tail.size
      <4>1. CASE i <= start
        BY <1>1, <3>10, <4>1
      <4>2. CASE i > start
        <5> DEFINE j == i - start
        <5>1. i # 1 /\ j \in 1 .. d - 1 /\ start + j - 1 = i - 1
          BY <1>2, <3>10, <3>8, <3>9, <4>2
        <5>3. j \in 1 .. LedgerCap + 1
          BY <1>1, <3>9, <5>1
        <5> HIDE DEF j
        <5>2. read[j] = file[i - 1]
          BY <3>2, <5>1, <5>3
        <5> QED
          BY <3>4, <3>7, <5>1, <5>2
      <4> QED
        BY <3>10, <3>5, <4>1, <4>2
    <3> QED
      BY <3>5, <3>6, <3>7
  <2> QED
    BY <2>1, <2>2
<1>4. sent \in Seq(Bytes) /\ Len(sent) = end - from
  <2>1. from + 1 \in Nat \ {0} /\ from + 1 <= end + 1 /\ end - (from + 1) + 1 = end - from
    BY <1>2, <1>3
  <2> QED
    BY <1>1, <1>2, <2>1, Piece DEF sent
<1>5. CASE tail' = [tail EXCEPT !.at = "sent", !.from = from, !.sent = sent]
  <2>1. /\ tail'.at = "sent" /\ tail'.size = tail.size /\ tail'.from = from /\ tail'.sent = sent
        /\ tail' \in [at : {"idle", "sized", "sent", "not_text"}, size : Nat, from : Nat, sent : Seq(Bytes)]
    BY <1>3, <1>4, <1>5 DEF TailInv
  <2>2. from + Len(sent) = end
    BY <1>2, <1>3, <1>4
  <2>3. sent = SubSeq(file, from + 1, end)
    BY DEF sent
  <2>4. TailIsTheNewestRows'
    BY <1>1, <1>2, <1>3, <1>4, <2>1, <2>2, <2>3 DEF TailIsTheNewestRows
  <2> QED
    BY <1>1, <1>2, <2>1, <2>2, <2>4 DEF TailInv
<1>6. CASE tail' = [tail EXCEPT !.at = "not_text"]
  <2>1. /\ tail'.at = "not_text"
        /\ tail' \in [at : {"idle", "sized", "sent", "not_text"}, size : Nat, from : Nat, sent : Seq(Bytes)]
    BY <1>6 DEF TailInv
  <2> QED
    BY <1>1, <2>1 DEF TailInv, TailIsTheNewestRows
<1> QED
  BY <1>5, <1>6 DEF ReadTail, start, end, from, sent

LEMMA LedgerGrows ==
  ASSUME TailInv, NEW b \in Bytes, Append1(b)
  PROVE  TailInv'
<1>1. file \in Seq(Bytes) /\ file' = Append(file, b) /\ tail' = tail /\ tail.size \in Nat /\ tail.from \in Nat
  BY DEF TailInv, Append1
<1>2. /\ file' \in Seq(Bytes) /\ Len(file') = Len(file) + 1 /\ Len(file) \in Nat
      /\ \A i \in 1 .. Len(file) : file'[i] = file[i] /\ file[i] \in Bytes
  BY <1>1
<1>3. CASE tail.at # "sent"
  BY <1>1, <1>2, <1>3 DEF TailInv, TailIsTheNewestRows
<1>4. CASE tail.at = "sent"
  <2> DEFINE end == tail.from + Len(tail.sent)
  <2>1. end \in Nat /\ end <= Len(file) /\ tail.sent \in Seq(Bytes)
    BY <1>4 DEF TailInv
  <2>2. /\ tail.sent = SubSeq(file, tail.from + 1, end)
        /\ Len(tail.sent) <= LedgerCap
        /\ end >= tail.size
        /\ tail.from = 0 \/ file[tail.from] = "nl" \/ tail.from = end
        /\ \A i \in 1 .. tail.from : i = 1 \/ file[i - 1] = "nl" => i + LedgerCap <= tail.size
    BY <1>4 DEF TailInv, TailIsTheNewestRows
  <2>3. SubSeq(file', tail.from + 1, end) = SubSeq(file, tail.from + 1, end)
    <3> DEFINE x == SubSeq(file, tail.from + 1, end)
               y == SubSeq(file', tail.from + 1, end)
    <3>1. tail.from + 1 \in Nat \ {0} /\ tail.from + 1 <= end + 1 /\ end <= Len(file')
      BY <1>1, <1>2, <2>1
    <3>2. /\ x \in Seq(Bytes) /\ Len(x) = end - (tail.from + 1) + 1
          /\ \A i \in 1 .. end - (tail.from + 1) + 1 : x[i] = file[tail.from + 1 + i - 1]
      BY <1>1, <2>1, <3>1, Piece
    <3>3. /\ y \in Seq(Bytes) /\ Len(y) = end - (tail.from + 1) + 1
          /\ \A i \in 1 .. end - (tail.from + 1) + 1 : y[i] = file'[tail.from + 1 + i - 1]
      BY <1>2, <2>1, <3>1, Piece
    <3>5. \A i \in 1 .. end - (tail.from + 1) + 1 : tail.from + 1 + i - 1 \in 1 .. Len(file)
      BY <1>1, <1>2, <2>1
    <3>6. \A i \in 1 .. Len(x) : x[i] = y[i]
      BY <1>2, <3>2, <3>3, <3>5
    <3> HIDE DEF x, y
    <3>4. x = y
      BY <3>2, <3>3, <3>6, SeqEqual
    <3> QED
      BY <3>4 DEF x, y
  <2>4. /\ tail.from <= Len(file)
        /\ \A i \in 1 .. tail.from : i = 1 \/ i - 1 \in 1 .. Len(file)
    BY <1>1, <1>2, <2>1
  <2>5. /\ tail.from = 0 \/ file'[tail.from] = "nl" \/ tail.from = end
        /\ \A i \in 1 .. tail.from : i = 1 \/ file'[i - 1] = "nl" => i + LedgerCap <= tail.size
    BY <1>1, <1>2, <2>2, <2>4
  <2>6. TailIsTheNewestRows'
    BY <1>1, <2>2, <2>3, <2>5 DEF TailIsTheNewestRows
  <2> QED
    BY <1>1, <1>2, <1>4, <2>1, <2>6 DEF TailInv
<1> QED
  BY <1>3, <1>4

LEMMA TailHolds == Spec => []TailInv
<1>1. Init => TailInv
  BY DEF Init, PageInit, TailInv, TailIsTheNewestRows, Bytes
<1>2. TailInv /\ LedgerStep => TailInv'
  <2> SUFFICES ASSUME TailInv, LedgerStep PROVE TailInv'
    OBVIOUS
  <2>1. CASE TakeSize
    BY <2>1 DEF TakeSize, TailInv, TailIsTheNewestRows
  <2> QED
    BY <2>1, LedgerGrows, TailIsRead DEF LedgerStep, Bytes
<1>3. TailInv /\ UNCHANGED tailVars => TailInv'
  BY DEF tailVars, TailInv, TailIsTheNewestRows
<1>4. [Next]_vars => LedgerStep \/ UNCHANGED tailVars
  BY DEF Next, WithPeople, WithTheMachine, InTheWindow, AtTheTerminal, AtTheEndpoint, AtTheDoor, OnThePage,
    vars, peopleVars
<1> QED
  BY <1>1, <1>2, <1>3, <1>4, PTL DEF Spec

\* Any ledger, cap and length, rows of whatever length and cut characters: what the page
\* is sent is the newest rows (TailIsTheNewestRows).
THEOREM TheTailIsTheNewest == Spec => []TailIsTheNewestRows
<1>1. TailInv => TailIsTheNewestRows
  BY DEF TailInv
<1> QED
  BY <1>1, TailHolds, PTL

--------------------------------------------------------------------------------
(* Terminal.                                                                  *)

Shown(id) == IF receipts[id] \in Runs THEN receipts[id] ELSE "unreadable"

\* A row of a file that was not written since it was examined says what the file holds.
RowIsTrue(r) ==
  /\ r.stamp <= written[r.id]
  /\ r.stamp = written[r.id] => r.shows \in {Shown(r.id), "unreadable"}

\* A row of a file that was not written since then has its time, or says it has none.
TimeIsRight(r, since) ==
  written[r.id] \in 1 .. since => r.stamp = written[r.id] \/ r = UnreadRow(r.id, NoTime)

FilesInv ==
  /\ receipts \in [Ids -> Runs \cup {"absent", "torn"}]
  /\ written \in [Ids -> Nat] /\ clock \in Nat
  /\ \A id \in Ids : written[id] <= clock /\ (receipts[id] = "absent" => written[id] = 0)

ReadingShape(k) ==
  /\ reading[k].left \in SUBSET Ids
  /\ reading[k].examined \in SUBSET (Ids \X Nat)
  /\ reading[k].found \in SUBSET Row /\ IsFiniteSet(reading[k].found)
  /\ reading[k].since \in Nat /\ reading[k].since <= clock
  /\ reading[k] = [state |-> reading[k].state, left |-> reading[k].left, examined |-> reading[k].examined,
                   found |-> reading[k].found, trouble |-> reading[k].trouble,
                   since |-> reading[k].since]

\* A file is in one of its parts: still to be read, examined, or found.
PartsAreApart(k) ==
  LET g == reading[k] IN
  /\ \A x, y \in g.examined : x = y
  /\ \A x \in g.examined : x[1] \notin g.left
  /\ \A r \in g.found : r.id \notin g.left /\ \A x \in g.examined : x[1] # r.id
  /\ \A r, s \in g.found : r.id = s.id => r = s

\* A file not written since the directory was listed is in one of them, unless the
\* listing had trouble, and with its time.
NoneIsMissing(k) ==
  LET g == reading[k] IN
  g.state = "listed" =>
    /\ \A x \in g.examined : written[x[1]] \in 1 .. g.since => x[2] = written[x[1]]
    /\ \A r \in g.found : TimeIsRight(r, g.since)
    /\ ~g.trouble =>
         \A id \in Ids : written[id] \in 1 .. g.since =>
           id \in g.left \/ (\E x \in g.examined : x[1] = id) \/ \E r \in g.found : r.id = id

ReadingIsTrue(k) ==
  LET g == reading[k] IN
  /\ g.state # "listed" => g.left = {} /\ g.examined = {} /\ g.found = {}
  /\ \A x \in g.examined : x[2] <= written[x[1]]
  /\ \A r \in g.found : RowIsTrue(r)

ReadingInv == \A k \in Looks :
  ReadingShape(k) /\ PartsAreApart(k) /\ NoneIsMissing(k) /\ ReadingIsTrue(k)

ShownInv ==
  /\ ledger = NoLedger \/ ledger \in Seq(Row)
  /\ seen \in Nat /\ seen <= clock
  /\ ledger # NoLedger =>
       /\ NewestFirst(ledger)
       /\ \A i, j \in DOMAIN ledger : ledger[i].id = ledger[j].id => i = j
       /\ \A i \in DOMAIN ledger : RowIsTrue(ledger[i])
       /\ \A i \in DOMAIN ledger : TimeIsRight(ledger[i], seen)
       /\ ~trouble => \A id \in Ids : written[id] \in 1 .. seen =>
                        \E i \in DOMAIN ledger : ledger[i].id = id

PlaceInv == selected \in Nat /\ screen \in Nat /\ PlaceIsInTheList

\* The directory is read when the daemon is looked for.
TogetherInv ==
  /\ DOMAIN reading = Looks /\ DOMAIN probe = Looks
  /\ \A k \in Looks : probe[k] = "none" => reading[k].state = "none"

TerminalInv ==
  /\ TogetherInv
  /\ FilesInv /\ ReadingInv /\ ShownInv /\ PlaceInv

LEMMA TerminalBegins == TerminalInit => TerminalInv
<1> SUFFICES ASSUME TerminalInit PROVE TerminalInv
  OBVIOUS
<1>1. FilesInv
  BY DEF TerminalInit, ReceiptsInit, FilesInv
<1>2. ASSUME NEW k \in Looks
      PROVE  /\ reading[k].state \in {"asked", "none"} /\ reading[k].left = {} /\ reading[k].examined = {}
             /\ reading[k].found = {} /\ reading[k].since = 0
             /\ reading[k] = [state |-> reading[k].state, left |-> reading[k].left,
                              examined |-> reading[k].examined,
                              found |-> reading[k].found, trouble |-> reading[k].trouble,
                              since |-> reading[k].since]
  BY DEF TerminalInit, NotReading
<1>3. ReadingInv
  <2> SUFFICES ASSUME NEW k \in Looks
               PROVE  ReadingShape(k) /\ PartsAreApart(k) /\ NoneIsMissing(k) /\ ReadingIsTrue(k)
    BY DEF ReadingInv
  <2>1. ReadingShape(k)
    <3>1. reading[k].left \in SUBSET Ids /\ reading[k].examined \in SUBSET (Ids \X Nat)
          /\ reading[k].found \in SUBSET Row
      BY <1>2
    <3>2. IsFiniteSet(reading[k].found)
      BY <1>2, FS_EmptySet
    <3>3. reading[k].since \in Nat /\ reading[k].since <= clock
      <4>1. reading[k].since = 0
        BY <1>2
      <4>2. clock \in Nat
        BY <1>1 DEF FilesInv
      <4> QED
        BY <4>1, <4>2
    <3> QED
      BY <1>2, <3>1, <3>2, <3>3 DEF ReadingShape
  <2> QED
    BY <1>2, <2>1 DEF PartsAreApart, NoneIsMissing, ReadingIsTrue
<1>4. ShownInv /\ PlaceInv
  BY <1>1 DEF TerminalInit, ReceiptsInit, ShownInv, PlaceInv, PlaceIsInTheList, Rows
<1>5. TogetherInv
  BY DEF TerminalInit, TogetherInv, NotReading
<1> QED
  BY <1>1, <1>3, <1>4, <1>5 DEF TerminalInv

LEMMA TerminalRests == TerminalInv /\ UNCHANGED <<terminalVars, receiptVars>> => TerminalInv'
  BY DEF terminalVars, receiptVars, TerminalInv, TogetherInv, FilesInv, ReadingInv, ReadingShape, PartsAreApart,
    NoneIsMissing, ReadingIsTrue, RowIsTrue, TimeIsRight, Shown, ShownInv, NewestFirst, PlaceInv, PlaceIsInTheList, Rows

\* A file that is written is newer than everything read of it.
LEMMA FileIsWritten ==
  ASSUME TerminalInv, RunsWrite
  PROVE  TerminalInv'
<1>1. PICK id \in Ids : OpenReceipt(id) \/ \E r \in Runs : FillReceipt(id, r)
  BY DEF RunsWrite, ReceiptsNext
<1>2. UNCHANGED <<probe, reading, ledger, screen, selected, seen, trouble>>
  BY DEF RunsWrite, terminalVars
<1>3. /\ clock' = clock + 1 /\ written' = [written EXCEPT ![id] = clock + 1]
      /\ \E c \in Runs \cup {"torn"} : receipts' = [receipts EXCEPT ![id] = c]
  BY <1>1 DEF OpenReceipt, FillReceipt, Touch
<1>4. FilesInv'
  BY <1>3, ReceiptsAssumption DEF TerminalInv, FilesInv
<1>5. /\ clock' \in Nat /\ clock < clock' /\ clock \in Nat
      /\ \A other \in Ids : other # id => written'[other] = written[other] /\ receipts'[other] = receipts[other]
      /\ written'[id] = clock + 1 /\ written[id] <= clock
      /\ \A other \in Ids : written[other] \in Nat /\ written'[other] \in Nat /\ written[other] <= written'[other]
  BY <1>3 DEF TerminalInv, FilesInv
<1>6. ASSUME NEW r \in Row, RowIsTrue(r) PROVE RowIsTrue(r)'
  BY <1>5, <1>6 DEF Row, RowIsTrue, Shown
<1>a. ASSUME NEW r \in Row, NEW since \in Nat, since <= clock, TimeIsRight(r, since)
      PROVE  TimeIsRight(r, since)'
  BY <1>5, <1>a DEF Row, TimeIsRight
<1>7. ASSUME NEW k \in Looks
      PROVE  ReadingShape(k)' /\ PartsAreApart(k)' /\ NoneIsMissing(k)' /\ ReadingIsTrue(k)'
  <2>1. ReadingShape(k) /\ PartsAreApart(k) /\ NoneIsMissing(k) /\ ReadingIsTrue(k)
    BY DEF TerminalInv, ReadingInv
  <2>2. ReadingShape(k)' /\ PartsAreApart(k)'
    BY <1>2, <1>5, <2>1 DEF ReadingShape, PartsAreApart
  <2>3. ReadingIsTrue(k)'
    BY <1>2, <1>5, <1>6, <2>1 DEF ReadingShape, ReadingIsTrue
  <2>4. NoneIsMissing(k)'
    <3>1. ASSUME reading[k].state = "listed"
          PROVE  \A x \in reading[k].examined :
                   written'[x[1]] \in 1 .. reading[k].since => x[2] = written'[x[1]]
      BY <1>5, <2>1, <3>1 DEF ReadingShape, NoneIsMissing
    <3>2. ASSUME reading[k].state = "listed", NEW r \in reading[k].found
          PROVE  TimeIsRight(r, reading[k].since)'
      BY <1>2, <1>a, <2>1, <3>2 DEF ReadingShape, NoneIsMissing
    <3>3. ASSUME reading[k].state = "listed", ~reading[k].trouble,
                 NEW o \in Ids, written'[o] \in 1 .. reading[k].since
          PROVE  o \in reading[k].left \/ (\E x \in reading[k].examined : x[1] = o)
                   \/ \E r \in reading[k].found : r.id = o
      <4>1. written[o] = written'[o]
        BY <1>5, <2>1, <3>3 DEF ReadingShape
      <4> QED
        BY <2>1, <3>3, <4>1 DEF NoneIsMissing
    <3> QED
      BY <1>2, <3>1, <3>2, <3>3 DEF NoneIsMissing
  <2> QED
    BY <2>2, <2>3, <2>4
<1>8. ShownInv'
  <2>1. ShownInv /\ seen' = seen /\ ledger' = ledger /\ trouble' = trouble
    BY <1>2 DEF TerminalInv
  <2>2. ASSUME ledger # NoLedger, NEW i \in DOMAIN ledger
        PROVE  RowIsTrue(ledger[i])' /\ TimeIsRight(ledger[i], seen)'
    <3>1. ledger[i] \in Row /\ RowIsTrue(ledger[i]) /\ TimeIsRight(ledger[i], seen) /\ seen \in Nat
      BY <2>1, <2>2 DEF ShownInv
    <3>2. seen <= clock
      BY <2>1 DEF ShownInv
    <3> QED
      BY <1>6, <1>a, <2>1, <3>1, <3>2
  <2>3. ASSUME ledger # NoLedger, ~trouble, NEW o \in Ids, written'[o] \in 1 .. seen
        PROVE  \E i \in DOMAIN ledger : ledger[i].id = o
    <3>1. written[o] = written'[o]
      BY <1>5, <2>1, <2>3 DEF ShownInv
    <3> QED
      BY <2>1, <2>3, <3>1 DEF ShownInv
  <2>4. seen' \in Nat /\ seen' <= clock'
    BY <1>5, <2>1 DEF ShownInv
  <2> QED
    BY <2>1, <2>2, <2>3, <2>4 DEF ShownInv, NewestFirst
<1>9. PlaceInv'
  BY <1>2 DEF TerminalInv, PlaceInv, PlaceIsInTheList, Rows
<1> QED
  BY <1>2, <1>4, <1>7, <1>8, <1>9 DEF TerminalInv, TogetherInv, ReadingInv

\* Only one look reads on, and the rest of the terminal stays.
LEMMA OneReads ==
  ASSUME TerminalInv, NEW k \in Looks, UNCHANGED receiptVars,
         UNCHANGED <<probe, ledger, screen, selected, seen, trouble>>, probe[k] # "none",
         \E g : reading' = [reading EXCEPT ![k] = g],
         ReadingShape(k)', PartsAreApart(k)', NoneIsMissing(k)', ReadingIsTrue(k)'
  PROVE  TerminalInv'
<1>1. DOMAIN reading' = Looks /\ \A j \in Looks : j # k => reading'[j] = reading[j]
  BY DEF TerminalInv, TogetherInv
<1>5. TogetherInv'
  BY <1>1 DEF TerminalInv, TogetherInv
<1>2. UNCHANGED <<receipts, written, clock>>
  BY DEF receiptVars
<1>3. FilesInv' /\ ShownInv' /\ PlaceInv'
  BY <1>2 DEF TerminalInv, FilesInv, ShownInv, NewestFirst, RowIsTrue, TimeIsRight, Shown, PlaceInv, PlaceIsInTheList, Rows
<1>4. ASSUME NEW j \in Looks, j # k
      PROVE  ReadingShape(j)' /\ PartsAreApart(j)' /\ NoneIsMissing(j)' /\ ReadingIsTrue(j)'
  BY <1>1, <1>2, <1>4 DEF TerminalInv, ReadingInv, ReadingShape, PartsAreApart, NoneIsMissing, ReadingIsTrue,
    RowIsTrue, TimeIsRight, Shown
<1> QED
  BY <1>3, <1>4, <1>5 DEF TerminalInv, ReadingInv

LEMMA DirectoryIsListed ==
  ASSUME TerminalInv, NEW k \in Looks, List(k), UNCHANGED receiptVars
  PROVE  TerminalInv'
<1>1. UNCHANGED <<receipts, written, clock>>
  BY DEF receiptVars
<1>2. /\ reading[k].state = "asked"
      /\ ReadingShape(k) /\ PartsAreApart(k) /\ ReadingIsTrue(k)
  BY DEF TerminalInv, ReadingInv, List
<1>3. PICK names \in SUBSET InDirectory, partly \in BOOLEAN :
        /\ names # InDirectory => partly
        /\ reading' = [reading EXCEPT ![k] =
             [reading[k] EXCEPT !.state = "listed", !.left = names, !.trouble = partly, !.since = clock]]
  BY DEF List
<1>a. names \in SUBSET Ids /\ (~partly => \A id \in Ids : receipts[id] # "absent" => id \in names)
  BY <1>3 DEF InDirectory
<1>4. /\ reading'[k].state = "listed" /\ reading'[k].left = names /\ reading'[k].since = clock
      /\ reading'[k].examined = {} /\ reading'[k].found = {} /\ reading'[k].trouble = partly
      /\ reading'[k] = [state |-> "listed", left |-> names, examined |-> {}, found |-> {},
                        trouble |-> partly, since |-> clock]
  <2>1. reading'[k] = [reading[k] EXCEPT !.state = "listed", !.left = names, !.trouble = partly, !.since = clock]
    BY <1>3 DEF TerminalInv, TogetherInv
  <2>2. reading[k].examined = {} /\ reading[k].found = {}
    BY <1>2 DEF ReadingIsTrue
  <2> QED
    BY <1>2, <2>1, <2>2 DEF ReadingShape
<1>5. ReadingShape(k)' /\ PartsAreApart(k)' /\ ReadingIsTrue(k)'
  BY <1>1, <1>a, <1>4, FS_EmptySet DEF TerminalInv, FilesInv, ReadingShape, PartsAreApart, ReadingIsTrue
<1>6. NoneIsMissing(k)'
  BY <1>1, <1>a, <1>4 DEF TerminalInv, FilesInv, NoneIsMissing
<1>7. \E g : reading' = [reading EXCEPT ![k] = g]
  BY <1>3
<1> QED
  BY <1>2, <1>5, <1>6, <1>7, OneReads DEF List, TerminalInv, TogetherInv

LEMMA ReadingGrows ==
  ASSUME NEW g, NEW left1, NEW found1, NEW h, h = [g EXCEPT !.left = left1, !.examined = {}, !.found = found1],
         g = [state |-> g.state, left |-> g.left, examined |-> g.examined, found |-> g.found,
              trouble |-> g.trouble, since |-> g.since]
  PROVE  /\ h.state = g.state /\ h.left = left1 /\ h.since = g.since /\ h.examined = {}
         /\ h.found = found1 /\ h.trouble = g.trouble
         /\ h = [state |-> h.state, left |-> h.left, examined |-> h.examined, found |-> h.found,
                 trouble |-> h.trouble, since |-> h.since]
<1>1. h = [state |-> g.state, left |-> left1, examined |-> {}, found |-> found1,
           trouble |-> g.trouble, since |-> g.since]
  OBVIOUS
<1> QED
  BY <1>1

\* A row for a file that is not to be met again, with its time or none.
LEMMA RowIsAdded ==
  ASSUME TerminalInv, NEW k \in Looks, UNCHANGED receiptVars,
         UNCHANGED <<probe, ledger, screen, selected, seen, trouble>>, probe[k] # "none",
         NEW id \in Ids, NEW row \in Row, row.id = id, RowIsTrue(row), TimeIsRight(row, reading[k].since),
         reading[k].state = "listed",
         id \in reading[k].left \/ \E x \in reading[k].examined : x[1] = id,
         \A x \in reading[k].examined : x[1] = id,
         reading' = [reading EXCEPT ![k] =
           [reading[k] EXCEPT !.left = reading[k].left \ {id}, !.examined = {},
                              !.found = reading[k].found \cup {row}]]
  PROVE  TerminalInv'
<1>1. UNCHANGED <<receipts, written, clock>>
  BY DEF receiptVars
<1>2. ReadingShape(k) /\ PartsAreApart(k) /\ NoneIsMissing(k) /\ ReadingIsTrue(k)
  BY DEF TerminalInv, ReadingInv
<1>3. /\ reading'[k].state = reading[k].state /\ reading'[k].left = reading[k].left \ {id}
      /\ reading'[k].since = reading[k].since /\ reading'[k].examined = {}
      /\ reading'[k].found = reading[k].found \cup {row} /\ reading'[k].trouble = reading[k].trouble
      /\ reading'[k] = [state |-> reading'[k].state, left |-> reading'[k].left,
                        examined |-> reading'[k].examined,
                        found |-> reading'[k].found, trouble |-> reading'[k].trouble,
                        since |-> reading'[k].since]
  <2>1. reading'[k] = [reading[k] EXCEPT !.left = reading[k].left \ {id}, !.examined = {},
                                         !.found = reading[k].found \cup {row}]
    BY DEF TerminalInv, TogetherInv
  <2>2. reading[k] = [state |-> reading[k].state, left |-> reading[k].left,
                      examined |-> reading[k].examined, found |-> reading[k].found,
                      trouble |-> reading[k].trouble, since |-> reading[k].since]
    BY <1>2 DEF ReadingShape
  <2> DEFINE g == reading[k]
             h == reading'[k]
             left1 == g.left \ {id}
             found1 == g.found \cup {row}
  <2>3. h = [g EXCEPT !.left = left1, !.examined = {}, !.found = found1]
    BY <2>1
  <2>4. g = [state |-> g.state, left |-> g.left, examined |-> g.examined, found |-> g.found,
             trouble |-> g.trouble, since |-> g.since]
    BY <2>2
  <2>5. /\ h.state = g.state /\ h.left = left1 /\ h.since = g.since /\ h.examined = {}
        /\ h.found = found1 /\ h.trouble = g.trouble
        /\ h = [state |-> h.state, left |-> h.left, examined |-> h.examined, found |-> h.found,
                trouble |-> h.trouble, since |-> h.since]
    <3> HIDE DEF g, h, left1, found1
    <3> QED
      BY <2>3, <2>4, ReadingGrows
  <2> QED
    BY <2>5
<1>4. ReadingShape(k)'
  <2>1. IsFiniteSet(reading[k].found \cup {row})
    BY <1>2, FS_AddElement DEF ReadingShape
  <2> QED
    BY <1>1, <1>2, <1>3, <2>1 DEF ReadingShape
<1>5. PartsAreApart(k)'
  BY <1>2, <1>3 DEF PartsAreApart
<1>6. ReadingIsTrue(k)'
  BY <1>1, <1>2, <1>3 DEF ReadingIsTrue, RowIsTrue, Shown
<1>7. NoneIsMissing(k)'
  <2>1. \A r \in reading'[k].found : TimeIsRight(r, reading[k].since)'
    BY <1>1, <1>2, <1>3 DEF NoneIsMissing, TimeIsRight
  <2>2. ASSUME NEW o \in Ids, ~reading[k].trouble, written[o] \in 1 .. reading[k].since
        PROVE  o \in reading[k].left \ {id} \/ \E r \in reading'[k].found : r.id = o
    BY <1>2, <1>3, <2>2 DEF NoneIsMissing
  <2> QED
    BY <1>1, <1>3, <2>1, <2>2 DEF NoneIsMissing
<1>8. \E g : reading' = [reading EXCEPT ![k] = g]
  OBVIOUS
<1> QED
  BY <1>4, <1>5, <1>6, <1>7, <1>8, OneReads

LEMMA FileIsExamined ==
  ASSUME TerminalInv, NEW k \in Looks, NEW id \in Ids, Examine(k, id), UNCHANGED receiptVars
  PROVE  TerminalInv'
<1>1. UNCHANGED <<receipts, written, clock>>
  BY DEF receiptVars
<1>2. /\ id \in reading[k].left /\ reading[k].examined = {}
      /\ ReadingShape(k) /\ PartsAreApart(k) /\ NoneIsMissing(k) /\ ReadingIsTrue(k)
      /\ written[id] \in Nat
      /\ UNCHANGED <<probe, ledger, screen, selected, seen, trouble>>
  BY DEF TerminalInv, ReadingInv, Examine, FilesInv
<1>a. probe[k] # "none" /\ reading[k].state = "listed"
  BY <1>2 DEF TerminalInv, TogetherInv, ReadingIsTrue
<1>b. CASE reading' = [reading EXCEPT ![k] =
             [reading[k] EXCEPT !.left = reading[k].left \ {id}, !.examined = {<<id, written[id]>>}]]
  <2>4. /\ reading'[k].state = reading[k].state /\ reading'[k].left = reading[k].left \ {id}
        /\ reading'[k].since = reading[k].since /\ reading'[k].examined = {<<id, written[id]>>}
        /\ reading'[k].found = reading[k].found /\ reading'[k].trouble = reading[k].trouble
        /\ reading'[k] = [state |-> reading'[k].state, left |-> reading'[k].left,
                          examined |-> reading'[k].examined,
                          found |-> reading'[k].found, trouble |-> reading'[k].trouble,
                          since |-> reading'[k].since]
    <3>1. reading'[k] = [reading[k] EXCEPT !.left = reading[k].left \ {id}, !.examined = {<<id, written[id]>>}]
      BY <1>b DEF TerminalInv, TogetherInv
    <3> QED
      BY <1>2, <3>1 DEF ReadingShape
  <2>5. ReadingShape(k)' /\ PartsAreApart(k)'
    BY <1>1, <1>2, <2>4 DEF ReadingShape, PartsAreApart
  <2>6. ReadingIsTrue(k)'
    BY <1>1, <1>2, <1>a, <2>4 DEF ReadingShape, ReadingIsTrue, RowIsTrue, Shown
  <2>7. NoneIsMissing(k)'
    BY <1>1, <1>2, <2>4 DEF NoneIsMissing, TimeIsRight
  <2>8. \E g : reading' = [reading EXCEPT ![k] = g]
    BY <1>b
  <2> QED
    BY <1>2, <1>a, <2>5, <2>6, <2>7, <2>8, OneReads
<1>c. CASE reading' = [reading EXCEPT ![k] =
             [reading[k] EXCEPT !.left = reading[k].left \ {id},
                                !.found = reading[k].found \cup {UnreadRow(id, NoTime)}]]
  <2> DEFINE row == UnreadRow(id, NoTime)
  <2>1. /\ row \in Row /\ row.id = id /\ row.stamp = 0 /\ row.shows = "unreadable"
        /\ UnreadRow(row.id, NoTime) = row
    BY DEF Row, UnreadRow, NoTime
  <2> HIDE DEF row
  <2>2. RowIsTrue(row) /\ TimeIsRight(row, reading[k].since)
    BY <1>2, <2>1 DEF RowIsTrue, TimeIsRight
  <2>3. [reading[k] EXCEPT !.left = reading[k].left \ {id}, !.found = reading[k].found \cup {row}]
          = [reading[k] EXCEPT !.left = reading[k].left \ {id}, !.examined = {},
                               !.found = reading[k].found \cup {row}]
    BY <1>2 DEF ReadingShape
  <2>4. reading' = [reading EXCEPT ![k] =
          [reading[k] EXCEPT !.left = reading[k].left \ {id}, !.examined = {},
                             !.found = reading[k].found \cup {row}]]
    BY <1>c, <2>3 DEF row
  <2> QED
    BY <1>2, <1>a, <2>1, <2>2, <2>4, RowIsAdded
<1> QED
  BY <1>b, <1>c DEF Examine

LEMMA FileIsRead ==
  ASSUME TerminalInv, NEW k \in Looks, ReadOne(k), UNCHANGED receiptVars
  PROVE  TerminalInv'
<1>2. PICK x \in reading[k].examined : \E new \in {RowFor(x[1], x[2]), {UnreadRow(x[1], x[2])}} :
        reading' = [reading EXCEPT ![k] =
          [reading[k] EXCEPT !.examined = {}, !.found = reading[k].found \cup new]]
  BY DEF ReadOne
<1>3. /\ ReadingShape(k) /\ PartsAreApart(k) /\ NoneIsMissing(k) /\ ReadingIsTrue(k)
      /\ x[1] \in Ids /\ x[2] \in Nat /\ x[2] <= written[x[1]]
      /\ UNCHANGED <<probe, ledger, screen, selected, seen, trouble>>
  BY DEF TerminalInv, ReadingInv, ReadingShape, ReadingIsTrue, ReadOne
<1>a. /\ probe[k] # "none" /\ reading[k].state = "listed"
      /\ x[1] \notin reading[k].left /\ \A y \in reading[k].examined : y[1] = x[1]
      /\ written[x[1]] \in 1 .. reading[k].since => x[2] = written[x[1]]
  BY <1>2, <1>3 DEF TerminalInv, TogetherInv, ReadingIsTrue, PartsAreApart, NoneIsMissing
<1>4. PICK row \in Row : /\ row.id = x[1] /\ row.stamp = x[2] /\ row.shows \in {Shown(x[1]), "unreadable"}
                         /\ reading' = [reading EXCEPT ![k] =
                              [reading[k] EXCEPT !.examined = {}, !.found = reading[k].found \cup {row}]]
  <2> DEFINE read == [id |-> x[1], stamp |-> x[2], shows |-> Shown(x[1])]
             failed == UnreadRow(x[1], x[2])
  <2>1. RowFor(x[1], x[2]) = {read}
    BY DEF RowFor, Shown, UnreadRow
  <2>2. read \in Row /\ read.id = x[1] /\ read.stamp = x[2] /\ read.shows = Shown(x[1])
    BY <1>3 DEF Row, Shown
  <2>3. failed \in Row /\ failed.id = x[1] /\ failed.stamp = x[2] /\ failed.shows = "unreadable"
    BY <1>3 DEF Row, UnreadRow
  <2> HIDE DEF read, failed
  <2>4. CASE reading' = [reading EXCEPT ![k] =
               [reading[k] EXCEPT !.examined = {}, !.found = reading[k].found \cup {read}]]
    BY <2>2, <2>4
  <2>5. CASE reading' = [reading EXCEPT ![k] =
               [reading[k] EXCEPT !.examined = {}, !.found = reading[k].found \cup {failed}]]
    BY <2>3, <2>5
  <2>6. \E new \in {{read}, {failed}} : reading' = [reading EXCEPT ![k] =
          [reading[k] EXCEPT !.examined = {}, !.found = reading[k].found \cup new]]
    BY <1>2, <2>1 DEF failed
  <2> QED
    BY <2>4, <2>5, <2>6
<1>5. RowIsTrue(row) /\ TimeIsRight(row, reading[k].since)
  BY <1>3, <1>a, <1>4 DEF RowIsTrue, TimeIsRight
<1>6. [reading[k] EXCEPT !.examined = {}, !.found = reading[k].found \cup {row}]
        = [reading[k] EXCEPT !.left = reading[k].left \ {x[1]}, !.examined = {},
                             !.found = reading[k].found \cup {row}]
  BY <1>3, <1>a DEF ReadingShape
<1>7. reading' = [reading EXCEPT ![k] =
        [reading[k] EXCEPT !.left = reading[k].left \ {x[1]}, !.examined = {},
                           !.found = reading[k].found \cup {row}]]
  BY <1>4, <1>6
<1>8. /\ \E y \in reading[k].examined : y[1] = x[1]
      /\ UNCHANGED <<probe, ledger, screen, selected, seen, trouble>>
  BY <1>2, <1>3
<1> QED
  BY <1>3, <1>a, <1>4, <1>5, <1>7, <1>8, RowIsAdded

\* The rows in an order that loses none, and that shows none twice.
LEMMA LedgerIsShown ==
  ASSUME TerminalInv, NEW k \in Looks, ShowLedger(k), UNCHANGED receiptVars
  PROVE  TerminalInv'
<1> DEFINE found == reading[k].found
           n == Cardinality(found)
<1>1. UNCHANGED <<receipts, written, clock>>
  BY DEF receiptVars
<1>2. /\ reading[k].state = "listed" /\ reading[k].left = {} /\ reading[k].examined = {}
      /\ ReadingShape(k) /\ PartsAreApart(k) /\ NoneIsMissing(k) /\ ReadingIsTrue(k)
  BY DEF TerminalInv, ReadingInv, ShowLedger
<1>3. IsFiniteSet(found) /\ n \in Nat /\ found \subseteq Row
  BY <1>2, FS_CardinalityType DEF ReadingShape
<1>4. PICK q \in [1 .. n -> found] : Range(q) = found /\ NewestFirst(q) /\ ledger' = q
  BY DEF ShowLedger
<1>5. \A i, j \in 1 .. n : q[i] = q[j] => i = j
  <2>1. \A r \in found : \E i \in 1 .. n : q[i] = r
    BY <1>4 DEF Range
  <2>2. q \in Surjection(1 .. n, found)
    BY <1>4, <2>1 DEF Surjection
  <2>3. IsFiniteSet(1 .. n) /\ Cardinality(1 .. n) = n
    BY <1>3, FS_Interval
  <2>4. q \in Injection(1 .. n, found)
    <3> HIDE DEF found
    <3> QED
      BY <2>2, <2>3, FS_SurjSameCardinalityImpliesInj
  <2> HIDE DEF n, found
  <2> QED
    BY <2>4 DEF Injection, IsInjective
<1>6. q \in Seq(Row) /\ Len(q) = n /\ DOMAIN q = 1 .. n /\ \A i \in 1 .. n : q[i] \in found /\ q[i] \in Row
  <2>1. q \in [1 .. n -> Row]
    BY <1>3, <1>4
  <2> HIDE DEF n, found
  <2> QED
    BY <1>3, <1>4, <2>1
<1>7. q # NoLedger
  <2> SUFFICES ASSUME q = <<[id |-> "none"]>> PROVE FALSE
    BY DEF NoLedger
  <2>1. Len(q) = 1 /\ q[1] = [id |-> "none"]
    OBVIOUS
  <2>2. q[1] \in Row
    BY <1>6, <2>1
  <2>3. \A r \in Row : DOMAIN r = {"id", "stamp", "shows"}
    BY DEF Row
  <2>4. DOMAIN [id |-> "none"] = {"id"}
    OBVIOUS
  <2> QED
    BY <2>1, <2>2, <2>3, <2>4
<1>8. /\ Rows' = n
      /\ selected' = Least(selected, IF n = 0 THEN 0 ELSE n - 1)
      /\ screen' = IF screen > n THEN 0 ELSE screen
  BY <1>4, <1>6, <1>7 DEF ShowLedger, Rows, Update
<1>9. PlaceInv'
  <2> HIDE DEF n
  <2> QED
    BY <1>3, <1>8 DEF TerminalInv, PlaceInv, PlaceIsInTheList, Least
<1>10. ShownInv'
  <2>1. seen' = reading[k].since /\ seen' \in Nat /\ seen' <= clock
    BY <1>2 DEF ShowLedger, ReadingShape
  <2>2. \A r \in found : \E i \in DOMAIN q : q[i] = r
    BY <1>4 DEF Range
  <2>3. \A i \in DOMAIN q : RowIsTrue(q[i])'
    BY <1>1, <1>2, <1>6 DEF ReadingIsTrue, RowIsTrue, TimeIsRight, Shown
  <2>4. \A i, j \in DOMAIN q : q[i].id = q[j].id => i = j
    BY <1>2, <1>5, <1>6 DEF PartsAreApart
  <2>5. ~trouble' => \A id \in Ids : written[id] \in 1 .. seen' => \E i \in DOMAIN q : q[i].id = id
    <3>1. trouble' = reading[k].trouble
      BY DEF ShowLedger
    <3> QED
      BY <1>2, <2>1, <2>2, <3>1 DEF NoneIsMissing
  <2>7. \A i \in DOMAIN q : TimeIsRight(q[i], seen)'
    BY <1>1, <1>2, <1>6, <2>1 DEF NoneIsMissing, TimeIsRight
  <2>6. NewestFirst(q)'
    BY <1>4 DEF NewestFirst
  <2> QED
    BY <1>1, <1>4, <1>6, <2>1, <2>3, <2>4, <2>5, <2>6, <2>7 DEF ShownInv, NewestFirst
<1>11. ReadingInv'
  <2>1. reading' = [reading EXCEPT ![k] = [NotReading EXCEPT !.state = "shown"]]
    BY DEF ShowLedger
  <2>2. /\ \A j \in Looks : j # k => reading'[j] = reading[j]
        /\ reading'[k] = [state |-> "shown", left |-> {}, examined |-> {}, found |-> {},
                          trouble |-> FALSE, since |-> 0]
    BY <2>1 DEF TerminalInv, TogetherInv, NotReading
  <2>3. ASSUME NEW j \in Looks, j # k
        PROVE  ReadingShape(j)' /\ PartsAreApart(j)' /\ NoneIsMissing(j)' /\ ReadingIsTrue(j)'
    BY <1>1, <2>2, <2>3 DEF TerminalInv, ReadingInv, ReadingShape, PartsAreApart, NoneIsMissing, ReadingIsTrue,
      RowIsTrue, TimeIsRight, Shown
  <2>4. ReadingShape(k)' /\ PartsAreApart(k)' /\ NoneIsMissing(k)' /\ ReadingIsTrue(k)'
    BY <1>1, <2>2, FS_EmptySet DEF TerminalInv, FilesInv, ReadingShape, PartsAreApart, NoneIsMissing, ReadingIsTrue
  <2> QED
    BY <2>3, <2>4 DEF ReadingInv
<1>12. TogetherInv'
  BY <1>2 DEF TerminalInv, TogetherInv, ShowLedger
<1> QED
  BY <1>1, <1>9, <1>10, <1>11, <1>12 DEF TerminalInv, FilesInv

LEMMA KeysArePressed ==
  ASSUME TerminalInv, UNCHANGED receiptVars, Enter \/ Escape \/ Arrow \/ Page \/ Edit \/ Quit
  PROVE  TerminalInv'
<1>1. UNCHANGED <<receipts, written, clock, probe, reading, ledger, seen, trouble>>
  BY DEF receiptVars, Enter, Escape, Arrow, Page, Edit, Quit
<1>2. FilesInv' /\ ReadingInv' /\ ShownInv' /\ TogetherInv'
  BY <1>1 DEF TerminalInv, TogetherInv, FilesInv, ReadingInv, ReadingShape, PartsAreApart, NoneIsMissing, ReadingIsTrue,
    RowIsTrue, TimeIsRight, Shown, ShownInv, NewestFirst
<1>3. Rows \in Nat /\ Rows' = Rows
  BY <1>1 DEF TerminalInv, ShownInv, Rows
<1>4. PlaceInv'
  BY <1>3 DEF TerminalInv, PlaceInv, PlaceIsInTheList, Least, Enter, Escape, Arrow, Page, Edit, Quit
<1> QED
  BY <1>2, <1>4 DEF TerminalInv

LEMMA LookIsAsked ==
  ASSUME TerminalInv, UNCHANGED receiptVars, Refresh
  PROVE  TerminalInv'
<1>1. PICK k \in Looks : /\ probe[k] = "none" /\ probe' = [probe EXCEPT ![k] = "out"]
                         /\ reading' = [reading EXCEPT ![k].state = "asked"]
  BY DEF Refresh, Look
<1>2. UNCHANGED <<receipts, written, clock, ledger, screen, selected, seen, trouble>>
  BY DEF receiptVars, Refresh
<1>3. FilesInv' /\ ShownInv' /\ PlaceInv'
  BY <1>2 DEF TerminalInv, FilesInv, ShownInv, NewestFirst, RowIsTrue, TimeIsRight, Shown, PlaceInv, PlaceIsInTheList, Rows
<1>4. reading[k].state = "none" /\ ReadingShape(k) /\ ReadingIsTrue(k)
  BY <1>1 DEF TerminalInv, TogetherInv, ReadingInv
<1>5. /\ \A j \in Looks : j # k => reading'[j] = reading[j]
      /\ reading'[k] = [state |-> "asked", left |-> {}, examined |-> {}, found |-> {},
                        trouble |-> reading[k].trouble, since |-> reading[k].since]
  <2>1. reading'[k] = [reading[k] EXCEPT !.state = "asked"]
    BY <1>1 DEF TerminalInv, TogetherInv
  <2>2. \A j \in Looks : j # k => reading'[j] = reading[j]
    BY <1>1 DEF TerminalInv, TogetherInv
  <2> QED
    BY <1>4, <2>1, <2>2 DEF ReadingShape, ReadingIsTrue
<1>6. ASSUME NEW j \in Looks, j # k
      PROVE  ReadingShape(j)' /\ PartsAreApart(j)' /\ NoneIsMissing(j)' /\ ReadingIsTrue(j)'
  BY <1>2, <1>5, <1>6 DEF TerminalInv, ReadingInv, ReadingShape, PartsAreApart, NoneIsMissing, ReadingIsTrue,
    RowIsTrue, TimeIsRight, Shown
<1>7. ReadingShape(k)' /\ PartsAreApart(k)' /\ NoneIsMissing(k)' /\ ReadingIsTrue(k)'
  BY <1>2, <1>4, <1>5, FS_EmptySet DEF ReadingShape, PartsAreApart, NoneIsMissing, ReadingIsTrue
<1>8. TogetherInv'
  BY <1>1, <1>5 DEF TerminalInv, TogetherInv
<1> QED
  BY <1>3, <1>6, <1>7, <1>8 DEF TerminalInv, ReadingInv

LEMMA TerminalGoesOn == TerminalInv /\ TerminalNext => TerminalInv'
<1> SUFFICES ASSUME TerminalInv, TerminalNext PROVE TerminalInv'
  OBVIOUS
<1>1. CASE RunsWrite
  BY <1>1, FileIsWritten
<1>2. CASE TerminalStep
  <2>1. UNCHANGED receiptVars
    BY <1>2 DEF TerminalStep
  <2>2. ASSUME NEW k \in Looks, Answer(k) PROVE TerminalInv'
    <3>1. UNCHANGED <<receipts, written, clock, reading, ledger, screen, selected, seen, trouble>>
      BY <2>1, <2>2 DEF receiptVars, Answer
    <3>2. TogetherInv'
      BY <2>2 DEF TerminalInv, TogetherInv, Answer
    <3> QED
      BY <3>1, <3>2 DEF TerminalInv, FilesInv, ReadingInv, ReadingShape, PartsAreApart, NoneIsMissing,
        ReadingIsTrue, RowIsTrue, TimeIsRight, Shown, ShownInv, NewestFirst, PlaceInv, PlaceIsInTheList, Rows
  <2>3. ASSUME NEW k \in Looks, Reader(k) PROVE TerminalInv'
    BY <2>1, <2>3, DirectoryIsListed, FileIsExamined, FileIsRead, LedgerIsShown DEF Reader
  <2> QED
    BY <1>2, <2>1, <2>2, <2>3, LookIsAsked, KeysArePressed DEF TerminalStep
<1> QED
  BY <1>1, <1>2 DEF TerminalNext

LEMMA TerminalHolds == Spec => []TerminalInv
<1>1. Init => TerminalInv
  BY TerminalBegins DEF Init
<1>2. [Next]_vars => TerminalNext \/ UNCHANGED <<terminalVars, receiptVars>>
  BY DEF Next, WithPeople, WithTheMachine, InTheWindow, AtTheTerminal, AtTheEndpoint, AtTheDoor, OnThePage,
    vars, peopleVars
<1> QED
  BY <1>1, <1>2, TerminalGoesOn, TerminalRests, PTL DEF Spec

\* However many looks are out, the chosen row and the run on screen are rows of the list
\* (PlaceIsInTheList).
THEOREM TheChosenRowExists == Spec => []PlaceIsInTheList
<1>1. TerminalInv => PlaceIsInTheList
  BY DEF TerminalInv, PlaceInv
<1> QED
  BY <1>1, TerminalHolds, PTL

\* Any files, any runs that write them and any looks, whatever cannot be listed, examined
\* or read: a file not written since the list was made has its row unless the list says
\* that a part is missing; no file has two rows; and a row is true of its file or says
\* that the file could not be read (ListIsTrue).
THEOREM TheListIsTrue == Spec => []ListIsTrue
<1>1. ASSUME TerminalInv, ledger # NoLedger, NEW i \in DOMAIN ledger, written[ledger[i].id] \in 1 .. seen
      PROVE  \/ /\ ledger[i].stamp = written[ledger[i].id]
                /\ ledger[i].shows \in {receipts[ledger[i].id], "unreadable"}
             \/ ledger[i] = UnreadRow(ledger[i].id, NoTime)
  <2>1. RowIsTrue(ledger[i]) /\ TimeIsRight(ledger[i], seen)
    BY <1>1 DEF TerminalInv, ShownInv
  <2> QED
    BY <1>1, <2>1 DEF RowIsTrue, TimeIsRight, Shown
<1>2. ASSUME TerminalInv, ledger # NoLedger
      PROVE  /\ NewestFirst(ledger)
             /\ \A i, j \in DOMAIN ledger : ledger[i].id = ledger[j].id => i = j
             /\ ~trouble => \A id \in Ids : written[id] \in 1 .. seen =>
                              \E i \in DOMAIN ledger : ledger[i].id = id
  BY <1>2 DEF TerminalInv, ShownInv
<1>3. TerminalInv => ListIsTrue
  BY <1>1, <1>2 DEF ListIsTrue
<1> QED
  BY <1>3, TerminalHolds, PTL

--------------------------------------------------------------------------------
(* ClientSession.                                                             *)

WindowTypes ==
  /\ events \in Nat /\ effect \in Nat /\ mishaps \in Nat
  /\ streams \in Seq(Nat) /\ \A t \in DOMAIN streams : streams[t] <= events
  /\ wire \in Seq(Nat) /\ \A i \in DOMAIN wire : wire[i] \in 1 .. events
  /\ view \in [last : Nat, gap : [after : Nat, received : Nat]]
  /\ applied \in Seq(Nat)

\* The view is the fold of entries in order, up to the last.
FoldIsWhole ==
  /\ view.last = 0 <=> Len(applied) = 0
  /\ view.last # 0 => view.last = applied[1] + Len(applied) - 1
  /\ \A i \in DOMAIN applied : applied[i] = applied[1] + i - 1

\* A gap is after the last entry applied, and the effect has not seen it before it opens.
GapIsAhead ==
  /\ view.gap # NoGap => /\ view.last # 0 /\ view.gap.after = view.last
                         /\ view.gap.received > view.last + 1 /\ view.gap.received <= events
  /\ effect <= view.last
  /\ view.gap = NoGap /\ view.last # 0 => effect < view.last

\* Without a mishap the first stream is the only one, and on the wire is what follows.
NothingIsLost ==
  mishaps = 0 =>
    /\ view.gap = NoGap /\ effect = 0
    /\ Len(streams) = 1 /\ view.last + Len(wire) = streams[1]
    /\ \A i \in DOMAIN wire : wire[i] = view.last + i

\* With one, the gap that the effect saw is being filled: a stream is about to send the
\* entry that is missing, or it is on the wire.
GapIsFilled ==
  mishaps <= 1 /\ view.gap # NoGap /\ effect = view.gap.after =>
    \E t \in DOMAIN streams :
      /\ streams[t] >= view.last
      /\ streams[t] > view.last => \E i \in DOMAIN wire : wire[i] = view.last + 1

WindowInv == WindowTypes /\ FoldIsWhole /\ GapIsAhead /\ NothingIsLost /\ GapIsFilled

LEMMA WindowOpens == SessionInit => WindowInv
  BY DEF SessionInit, NoGap, WindowInv, WindowTypes, FoldIsWhole, GapIsAhead, NothingIsLost, GapIsFilled

LEMMA WindowRests == WindowInv /\ UNCHANGED sessionVars => WindowInv'
  BY DEF sessionVars, WindowInv, WindowTypes, FoldIsWhole, GapIsAhead, NothingIsLost, GapIsFilled

LEMMA LogIsRecorded == WindowInv /\ Record => WindowInv'
<1> SUFFICES ASSUME WindowInv, Record PROVE WindowInv'
  OBVIOUS
<1>1. events' = events + 1 /\ UNCHANGED <<streams, wire, view, applied, effect, mishaps>>
  BY DEF Record
<1>2. WindowTypes'
  <2>1. /\ events \in Nat
        /\ \A t \in DOMAIN streams : streams[t] \in Nat /\ streams[t] <= events
        /\ \A i \in DOMAIN wire : wire[i] \in 1 .. events
    BY DEF WindowInv, WindowTypes
  <2>2. \A t \in DOMAIN streams : streams[t] <= events + 1
    BY <2>1
  <2>3. \A i \in DOMAIN wire : wire[i] \in 1 .. events + 1
    BY <2>1
  <2> QED
    BY <1>1, <2>1, <2>2, <2>3 DEF WindowInv, WindowTypes
<1>3. GapIsAhead'
  BY <1>1 DEF WindowInv, WindowTypes, GapIsAhead
<1>4. FoldIsWhole' /\ NothingIsLost' /\ GapIsFilled'
  BY <1>1 DEF WindowInv, FoldIsWhole, NothingIsLost, GapIsFilled
<1> QED
  BY <1>2, <1>3, <1>4 DEF WindowInv

LEMMA EntryIsSent ==
  ASSUME WindowInv, NEW t \in DOMAIN streams, DeliverNext(t)
  PROVE  WindowInv'
<1>1. /\ streams \in Seq(Nat) /\ wire \in Seq(Nat) /\ events \in Nat /\ streams[t] \in Nat /\ streams[t] < events
      /\ streams' = [streams EXCEPT ![t] = streams[t] + 1] /\ wire' = Append(wire, streams[t] + 1)
      /\ UNCHANGED <<events, view, applied, effect, mishaps>>
  BY DEF DeliverNext, WindowInv, WindowTypes
<1>2. /\ streams' \in Seq(Nat) /\ Len(streams') = Len(streams) /\ DOMAIN streams' = DOMAIN streams
      /\ streams'[t] = streams[t] + 1 /\ \A u \in DOMAIN streams : u # t => streams'[u] = streams[u]
  BY <1>1
<1>3. /\ wire' \in Seq(Nat) /\ Len(wire') = Len(wire) + 1 /\ wire'[Len(wire) + 1] = streams[t] + 1
      /\ \A i \in DOMAIN wire : wire'[i] = wire[i] /\ i \in DOMAIN wire'
      /\ \A i \in DOMAIN wire' : i \in DOMAIN wire \/ i = Len(wire) + 1
      /\ Len(wire) + 1 \in DOMAIN wire'
  BY <1>1
<1>4. WindowTypes'
  <2>1. \A u \in DOMAIN streams' : streams'[u] <= events
    BY <1>1, <1>2 DEF WindowInv, WindowTypes
  <2>2. \A i \in DOMAIN wire' : wire'[i] \in 1 .. events
    BY <1>1, <1>3 DEF WindowInv, WindowTypes
  <2> QED
    BY <1>1, <1>2, <1>3, <2>1, <2>2 DEF WindowInv, WindowTypes
<1>5. FoldIsWhole' /\ GapIsAhead'
  BY <1>1 DEF WindowInv, FoldIsWhole, GapIsAhead
<1>6. NothingIsLost'
  <2> SUFFICES ASSUME mishaps' = 0 PROVE NothingIsLost!2'
    BY DEF NothingIsLost
  <2>1. /\ view.gap = NoGap /\ effect = 0 /\ Len(streams) = 1 /\ view.last + Len(wire) = streams[1]
        /\ (\A i \in DOMAIN wire : wire[i] = view.last + i) /\ view.last \in Nat
    BY <1>1 DEF WindowInv, NothingIsLost, WindowTypes
  <2>2. t = 1
    BY <1>1, <2>1
  <2>3. view.last + Len(wire') = streams'[1] /\ wire'[Len(wire) + 1] = view.last + (Len(wire) + 1)
    BY <1>1, <1>2, <1>3, <2>1, <2>2
  <2>4. \A i \in DOMAIN wire' : wire'[i] = view.last + i
    BY <1>3, <2>1, <2>3
  <2> QED
    BY <1>1, <1>2, <2>1, <2>3, <2>4
<1>7. GapIsFilled'
  <2> SUFFICES ASSUME mishaps' <= 1, view'.gap # NoGap, effect' = view'.gap.after PROVE GapIsFilled!2'
    BY DEF GapIsFilled
  <2>1. PICK u \in DOMAIN streams :
          /\ streams[u] >= view.last
          /\ streams[u] > view.last => \E i \in DOMAIN wire : wire[i] = view.last + 1
    BY <1>1 DEF WindowInv, GapIsFilled
  <2>2. streams[u] \in Nat /\ view.last \in Nat
    <3>1. streams[u] \in Nat
      BY <1>1
    <3> QED
      BY <3>1 DEF WindowInv, WindowTypes
  <2>5. (\E i \in DOMAIN wire : wire[i] = view.last + 1) => \E i \in DOMAIN wire' : wire'[i] = view.last + 1
    BY <1>3
  <2>3. CASE u # t \/ streams[u] > view.last
    <3>1. CASE u # t
      BY <1>1, <1>2, <2>1, <2>5, <3>1
    <3>2. CASE u = t /\ streams[u] > view.last
      <4>1. streams'[u] >= view.last
        BY <1>2, <2>2, <3>2
      <4> QED
        BY <1>1, <1>2, <2>1, <2>5, <3>2, <4>1
    <3> QED
      BY <2>3, <3>1, <3>2
  <2>4. CASE u = t /\ streams[u] = view.last
    <3>1. streams'[t] >= view.last
      BY <1>2, <2>2, <2>4
    <3>2. \E i \in DOMAIN wire' : wire'[i] = view.last + 1
      BY <1>3, <2>4
    <3> QED
      BY <1>1, <1>2, <3>1, <3>2
  <2> QED
    BY <2>1, <2>2, <2>3, <2>4
<1> QED
  BY <1>4, <1>5, <1>6, <1>7 DEF WindowInv

LEMMA EntryIsPassed ==
  ASSUME WindowInv, NEW t \in DOMAIN streams, PassOver(t)
  PROVE  WindowInv'
<1>1. /\ streams \in Seq(Nat) /\ events \in Nat /\ streams[t] \in Nat /\ streams[t] < events
      /\ streams' = [streams EXCEPT ![t] = streams[t] + 1] /\ mishaps' = mishaps + 1 /\ mishaps \in Nat
      /\ UNCHANGED <<events, wire, view, applied, effect>>
  BY DEF PassOver, Mishap, WindowInv, WindowTypes
<1>2. /\ streams' \in Seq(Nat) /\ Len(streams') = Len(streams) /\ DOMAIN streams' = DOMAIN streams
      /\ streams'[t] = streams[t] + 1 /\ \A u \in DOMAIN streams : u # t => streams'[u] = streams[u]
  BY <1>1
<1>3. WindowTypes' /\ FoldIsWhole' /\ GapIsAhead'
  <2>1. \A u \in DOMAIN streams' : streams'[u] <= events
    <3>1. \A u \in DOMAIN streams : streams[u] <= events
      BY DEF WindowInv, WindowTypes
    <3>2. streams[t] + 1 <= events
      BY <1>1
    <3> QED
      BY <1>2, <3>1, <3>2
  <2>2. WindowTypes'
    BY <1>1, <1>2, <2>1 DEF WindowInv, WindowTypes
  <2> QED
    BY <1>1, <2>2 DEF WindowInv, FoldIsWhole, GapIsAhead
<1>4. NothingIsLost'
  BY <1>1 DEF NothingIsLost
<1>5. GapIsFilled'
  <2>1. mishaps' <= 1 => view'.gap = NoGap
    BY <1>1 DEF WindowInv, NothingIsLost
  <2> QED
    BY <2>1 DEF GapIsFilled
<1> QED
  BY <1>3, <1>4, <1>5 DEF WindowInv

LEMMA EntryIsReceived == WindowInv /\ Receive => WindowInv'
<1> SUFFICES ASSUME WindowInv, Receive PROVE WindowInv'
  OBVIOUS
<1> DEFINE n == Head(wire)
<1>1. /\ wire \in Seq(Nat) /\ wire # <<>> /\ events \in Nat /\ Admit(n) /\ wire' = Tail(wire)
      /\ UNCHANGED <<events, streams, effect, mishaps>>
  BY DEF Receive, WindowInv, WindowTypes
<1>2. /\ wire' \in Seq(Nat) /\ Len(wire) \in Nat /\ Len(wire') \in Nat /\ Len(wire') = Len(wire) - 1
      /\ DOMAIN wire = 1 .. Len(wire) /\ DOMAIN wire' = 1 .. Len(wire')
      /\ \A i \in DOMAIN wire' : i + 1 \in DOMAIN wire /\ wire'[i] = wire[i + 1]
      /\ 1 \in DOMAIN wire /\ n = wire[1]
  BY <1>1
<1>3. n \in 1 .. events
  BY <1>2 DEF WindowInv, WindowTypes
<1>4. /\ view.last \in Nat /\ view.gap.after \in Nat /\ view.gap.received \in Nat /\ effect \in Nat
      /\ view.gap \in [after : Nat, received : Nat]
      /\ view = [last |-> view.last, gap |-> view.gap] /\ mishaps \in Nat
  BY DEF WindowInv, WindowTypes
<1> HIDE DEF n
<1>5. \A i \in DOMAIN wire : i = 1 \/ (i - 1 \in DOMAIN wire' /\ wire'[i - 1] = wire[i])
  <2> TAKE i \in DOMAIN wire
  <2> SUFFICES ASSUME i # 1 PROVE i - 1 \in DOMAIN wire' /\ wire'[i - 1] = wire[i]
    OBVIOUS
  <2>1. i - 1 \in DOMAIN wire' /\ (i - 1) + 1 = i
    BY <1>2
  <2> QED
    BY <1>2, <2>1
\* Without a mishap it is the next one.
<1>6. mishaps = 0 => n = view.last + 1
  BY <1>2, <1>4 DEF WindowInv, NothingIsLost
<1>7. CASE view.last # 0 /\ n <= view.last
  <2>1. UNCHANGED <<view, applied>>
    BY <1>1, <1>7 DEF Admit
  <2>2. WindowTypes' /\ FoldIsWhole' /\ GapIsAhead'
    BY <1>1, <1>2, <2>1 DEF WindowInv, WindowTypes, FoldIsWhole, GapIsAhead
  <2>3. NothingIsLost'
    BY <1>1, <1>3, <1>4, <1>6, <1>7 DEF NothingIsLost
  <2>4. GapIsFilled'
    <3> SUFFICES ASSUME mishaps <= 1, view.gap # NoGap, effect = view.gap.after PROVE GapIsFilled!2'
      BY <1>1, <2>1 DEF GapIsFilled
    <3>1. PICK t \in DOMAIN streams :
            /\ streams[t] >= view.last
            /\ streams[t] > view.last => \E i \in DOMAIN wire : wire[i] = view.last + 1
      BY DEF WindowInv, GapIsFilled
    <3>2. n # view.last + 1
      BY <1>3, <1>4, <1>7
    <3>3. (\E i \in DOMAIN wire : wire[i] = view.last + 1) => \E i \in DOMAIN wire' : wire'[i] = view.last + 1
      BY <1>2, <1>5, <3>2
    <3> QED
      BY <1>1, <2>1, <3>1, <3>3
  <2> QED
    BY <2>2, <2>3, <2>4 DEF WindowInv
<1>8. CASE view.last # 0 /\ n > view.last + 1
  <2>1. /\ UNCHANGED applied
        /\ view' = IF view.gap # NoGap /\ view.gap.received <= n THEN view
                   ELSE [view EXCEPT !.gap = [after |-> view.last, received |-> n]]
    BY <1>1, <1>3, <1>4, <1>8 DEF Admit
  <2>2. /\ view'.last = view.last /\ view'.gap # NoGap
        /\ view'.gap.after = view.last
        /\ view'.gap.received > view.last + 1 /\ view'.gap.received <= events
        /\ view' \in [last : Nat, gap : [after : Nat, received : Nat]]
    <3>1. CASE view.gap # NoGap /\ view.gap.received <= n
      BY <1>3, <1>4, <2>1, <3>1 DEF WindowInv, WindowTypes, GapIsAhead
    <3>2. CASE ~ (view.gap # NoGap /\ view.gap.received <= n)
      <4>1. view' = [last |-> view.last, gap |-> [after |-> view.last, received |-> n]]
        BY <1>4, <2>1, <3>2
      <4>2. [after |-> view.last, received |-> n] # NoGap
        BY <1>8 DEF NoGap
      <4> QED
        BY <1>1, <1>3, <1>4, <1>8, <4>1, <4>2
    <3> QED
      BY <3>1, <3>2
  <2>3. WindowTypes' /\ FoldIsWhole'
    BY <1>1, <1>2, <2>1, <2>2 DEF WindowInv, WindowTypes, FoldIsWhole
  <2>4. GapIsAhead'
    BY <1>1, <1>4, <1>8, <2>2 DEF WindowInv, GapIsAhead
  <2>5. NothingIsLost'
    BY <1>1, <1>3, <1>4, <1>6, <1>8 DEF NothingIsLost
  <2>6. GapIsFilled'
    <3> SUFFICES ASSUME mishaps <= 1, effect = view.last PROVE GapIsFilled!2'
      BY <1>1, <2>2 DEF GapIsFilled
    <3>1. view.gap # NoGap /\ view.gap.after = view.last
      BY <1>4, <1>8 DEF WindowInv, GapIsAhead
    <3>2. PICK t \in DOMAIN streams :
            /\ streams[t] >= view.last
            /\ streams[t] > view.last => \E i \in DOMAIN wire : wire[i] = view.last + 1
      BY <3>1 DEF WindowInv, GapIsFilled
    <3>4. n # view.last + 1
      BY <1>3, <1>4, <1>8
    <3>3. streams[t] > view.last => \E i \in DOMAIN wire' : wire'[i] = view.last + 1
      BY <1>2, <1>5, <3>2, <3>4
    <3> QED
      BY <1>1, <2>2, <3>2, <3>3
  <2> QED
    BY <2>3, <2>4, <2>5, <2>6 DEF WindowInv
<1>9. CASE view.last = 0 \/ n = view.last + 1
  <2>1. view' = [last |-> n, gap |-> NoGap] /\ applied' = Append(applied, n)
    BY <1>1, <1>3, <1>4, <1>9 DEF Admit
  <2>2. view'.last = n /\ view'.gap = NoGap /\ n \in Nat /\ n # 0
        /\ view' \in [last : Nat, gap : [after : Nat, received : Nat]]
    BY <1>1, <1>3, <2>1 DEF NoGap
  <2>3. applied \in Seq(Nat) /\ Len(applied) \in Nat
    BY DEF WindowInv, WindowTypes
  <2>4. /\ applied' \in Seq(Nat) /\ Len(applied') = Len(applied) + 1 /\ applied'[Len(applied) + 1] = n
        /\ DOMAIN applied = 1 .. Len(applied) /\ DOMAIN applied' = 1 .. Len(applied) + 1
        /\ \A i \in 1 .. Len(applied) : applied'[i] = applied[i] /\ applied[i] \in Nat
    BY <2>1, <2>2, <2>3
  <2>5. WindowTypes'
    BY <1>1, <1>2, <2>2, <2>4 DEF WindowInv, WindowTypes
  <2>6. FoldIsWhole'
    <3>1. CASE view.last = 0
      <4>1. Len(applied) = 0
        BY <3>1 DEF WindowInv, FoldIsWhole
      <4> QED
        BY <2>2, <2>4, <4>1 DEF FoldIsWhole
    <3>2. CASE view.last # 0
      <4>1. /\ Len(applied) # 0 /\ view.last = applied[1] + Len(applied) - 1
            /\ \A i \in DOMAIN applied : applied[i] = applied[1] + i - 1
        BY <3>2 DEF WindowInv, FoldIsWhole
      <4>2. applied'[1] = applied[1] /\ applied[1] \in Nat
        BY <2>3, <2>4, <4>1
      <4>3. n = applied[1] + Len(applied)
        BY <1>4, <1>9, <2>3, <3>2, <4>1, <4>2
      <4>4. \A i \in DOMAIN applied' : applied'[i] = applied'[1] + i - 1
        <5> TAKE i \in DOMAIN applied'
        <5>1. CASE i = Len(applied) + 1
          BY <2>3, <2>4, <4>2, <4>3, <5>1
        <5>2. CASE i \in DOMAIN applied
          BY <2>4, <4>1, <4>2, <5>2
        <5> QED
          BY <2>3, <2>4, <5>1, <5>2
      <4>5. Len(applied') # 0 /\ view'.last # 0 /\ view'.last = applied'[1] + Len(applied') - 1
        BY <2>2, <2>3, <2>4, <4>2, <4>3
      <4> QED
        BY <4>4, <4>5 DEF FoldIsWhole
    <3> QED
      BY <3>1, <3>2
  <2>7. GapIsAhead'
    BY <1>1, <1>3, <1>4, <1>9, <2>2 DEF WindowInv, GapIsAhead
  <2>8. NothingIsLost'
    <3> SUFFICES ASSUME mishaps = 0 PROVE NothingIsLost!2'
      BY <1>1 DEF NothingIsLost
    <3>1. /\ effect = 0 /\ Len(streams) = 1 /\ view.last + Len(wire) = streams[1]
          /\ \A i \in DOMAIN wire : wire[i] = view.last + i
      BY DEF WindowInv, NothingIsLost
    <3>2. n = view.last + 1
      BY <1>6
    <3>3. \A i \in DOMAIN wire' : wire'[i] = n + i
      BY <1>2, <1>4, <3>1, <3>2
    <3> QED
      BY <1>1, <1>2, <1>4, <2>2, <3>1, <3>2, <3>3
  <2>9. GapIsFilled'
    BY <2>2 DEF GapIsFilled
  <2> QED
    BY <2>5, <2>6, <2>7, <2>8, <2>9 DEF WindowInv
<1> QED
  BY <1>3, <1>4, <1>7, <1>8, <1>9

LEMMA EffectIsRun == WindowInv /\ Rendered => WindowInv'
<1> SUFFICES ASSUME WindowInv, Rendered PROVE WindowInv'
  OBVIOUS
<1>1. /\ effect' = view.gap.after /\ effect # view.gap.after
      /\ UNCHANGED <<events, wire, view, applied>>
      /\ events \in Nat /\ streams \in Seq(Nat) /\ mishaps \in Nat
      /\ view.gap.after \in Nat /\ view.last \in Nat
  BY DEF Rendered, WindowInv, WindowTypes
<1>2. NoGap.after = 0
  BY DEF NoGap
<1>3. mishaps # 0
  BY <1>1, <1>2 DEF WindowInv, NothingIsLost
<1>4. GapIsAhead'
  BY <1>1, <1>2 DEF WindowInv, GapIsAhead
<1>5. CASE view.gap.after = 0 /\ UNCHANGED <<streams, mishaps>>
  <2>1. WindowTypes' /\ FoldIsWhole' /\ NothingIsLost'
    BY <1>1, <1>3, <1>5 DEF WindowInv, WindowTypes, FoldIsWhole, NothingIsLost
  <2>2. GapIsFilled'
    BY <1>1, <1>5 DEF WindowInv, GapIsAhead, GapIsFilled
  <2> QED
    BY <1>4, <2>1, <2>2 DEF WindowInv
<1>6. CASE view.gap.after # 0 /\ streams' = Append(streams, view.gap.after) /\ UNCHANGED mishaps
  <2>1. view.gap # NoGap /\ view.gap.after = view.last /\ view.last < events
    BY <1>1, <1>2, <1>6 DEF WindowInv, WindowTypes, GapIsAhead
  <2>2. /\ streams' \in Seq(Nat) /\ DOMAIN streams' = 1 .. Len(streams) + 1 /\ DOMAIN streams = 1 .. Len(streams)
        /\ Len(streams) \in Nat /\ Len(streams) + 1 \in DOMAIN streams'
        /\ streams'[Len(streams) + 1] = view.last
        /\ \A t \in 1 .. Len(streams) : streams'[t] = streams[t]
    BY <1>1, <1>6, <2>1
  <2>5. \A t \in DOMAIN streams' : streams'[t] <= events
    <3>1. \A t \in DOMAIN streams : streams[t] <= events
      BY DEF WindowInv, WindowTypes
    <3>2. view.last <= events
      BY <1>1, <2>1
    <3>3. \A t \in DOMAIN streams' : t \in DOMAIN streams \/ t = Len(streams) + 1
      BY <2>2
    <3> QED
      BY <2>2, <3>1, <3>2, <3>3
  <2>6. WindowTypes'
    BY <1>1, <1>6, <2>2, <2>5 DEF WindowInv, WindowTypes
  <2>3. WindowTypes' /\ FoldIsWhole' /\ NothingIsLost'
    BY <1>1, <1>3, <1>6, <2>6 DEF WindowInv, FoldIsWhole, NothingIsLost
  <2>4. GapIsFilled'
    BY <1>1, <2>2 DEF GapIsFilled
  <2> QED
    BY <1>4, <2>3, <2>4 DEF WindowInv
<1>7. CASE mishaps' = mishaps + 1 /\ UNCHANGED streams
  <2>1. WindowTypes' /\ FoldIsWhole' /\ NothingIsLost' /\ GapIsFilled'
    BY <1>1, <1>3, <1>7 DEF WindowInv, WindowTypes, FoldIsWhole, NothingIsLost, GapIsFilled
  <2> QED
    BY <1>4, <2>1 DEF WindowInv
<1> QED
  BY <1>5, <1>6, <1>7 DEF Rendered, Mishap

LEMMA WindowCatchesUp == WindowInv => ViewCatchesUp
<1> SUFFICES ASSUME WindowInv PROVE ViewCatchesUp
  OBVIOUS
<1>1. \A i \in DOMAIN applied : applied[i] = applied[1] + i - 1
  BY DEF WindowInv, FoldIsWhole
<1>2. ASSUME wire = <<>>, effect = view.gap.after, \A t \in DOMAIN streams : streams[t] = events,
             view.gap # NoGap, ~ (mishaps > 1)
      PROVE  FALSE
  <2>1. mishaps \in Nat /\ events \in Nat /\ view.last \in Nat /\ view.gap.received \in Nat
    BY DEF WindowInv, WindowTypes
  <2>2. PICK t \in DOMAIN streams :
          streams[t] > view.last => \E i \in DOMAIN wire : wire[i] = view.last + 1
    BY <1>2, <2>1 DEF WindowInv, GapIsFilled
  <2>3. DOMAIN wire = {}
    BY <1>2
  <2>4. view.gap.received > view.last + 1 /\ view.gap.received <= events
    BY <1>2 DEF WindowInv, GapIsAhead
  <2> QED
    BY <1>2, <2>1, <2>2, <2>3, <2>4
<1> QED
  BY <1>1, <1>2 DEF ViewCatchesUp

\* Any log, streams, mishaps and interleaving of them: the view is the fold of entries in
\* order with none missing, and after one mishap no gap stays open (ViewCatchesUp).
THEOREM TheViewCatchesUp == Spec => []ViewCatchesUp
<1>1. Init => WindowInv
  BY WindowOpens DEF Init
<1>2. WindowInv /\ SessionNext => WindowInv'
  BY LogIsRecorded, EntryIsSent, EntryIsPassed, EntryIsReceived, EffectIsRun DEF SessionNext
<1>3. [Next]_vars => SessionNext \/ UNCHANGED sessionVars
  BY DEF Next, WithPeople, WithTheMachine, InTheWindow, AtTheTerminal, AtTheEndpoint, AtTheDoor, OnThePage,
    vars, peopleVars
<1> QED
  BY <1>1, <1>2, <1>3, WindowRests, WindowCatchesUp, PTL DEF Spec

--------------------------------------------------------------------------------
(* Sandbox.                                                                   *)

\* The pieces a path stands for, and the mount that is on it.
Parts(p) == IF Len(p) = 2 THEN {p[2]} ELSE Pieces
Mount(p) == IF p[1] = ".vitna" THEN <<at[".vitna"]>> ELSE <<at[".git"], p[2]>>

\* At one name is one thing, and no thing is at two.
TreeInv ==
  /\ at \in [Names -> FolderIds \cup {"file", "none"}]
  /\ piece \in [FolderIds -> [Pieces -> {"none", "first", "outside", "command"}]]
  /\ \A n, m \in Names : n # m /\ at[n] = at[m] => at[n] = "none"

CommandShape ==
  /\ command = [step |-> command.step, guarantee |-> command.guarantee, protected |-> command.protected,
                pinned |-> command.pinned, gap |-> command.gap, ro |-> command.ro, rw |-> command.rw,
                before |-> command.before]
  /\ command.protected \subseteq Protectable

\* What the plan found is there, and holds what it held.
FoundStays == \A b \in command.before :
  b[1] \in Protectable /\ Exists(b[1]) /\ b[2] = Holding(b[1])

\* The order of the two steps is the platform's.
HasProtected == command.step \in {"gaps", "planned", "running"} \/ (command.step = "git" /\ platform # "linux")
HasPinned == command.step \in {"gaps", "planned", "running"} \/ (command.step = "protected" /\ platform = "linux")

\* It is in the plan by then, and under a mount once the command runs.
FoundIsPlanned == \A b \in command.before :
  /\ HasProtected => b[1] \in command.protected
  /\ HasPinned /\ b[1][1] = ".git" => command.pinned
  /\ command.step = "running" /\ platform = "linux" =>
       /\ Mount(b[1]) \in command.ro
       /\ b[1][1] = ".git" => <<at[".git"]>> \in command.rw

SandboxInv == TreeInv /\ CommandShape /\ FoundStays /\ FoundIsPlanned

LEMMA PathsHaveParts ==
  ASSUME NEW p \in Protectable
  PROVE  /\ p[1] \in {".git", ".vitna"}
         /\ p[1] = ".git" => p = <<".git", p[2]>> /\ p[2] \in Pieces /\ Len(p) = 2
         /\ p[1] = ".vitna" => p = <<".vitna">> /\ Len(p) = 1
  BY DEF Protectable, Pieces

LEMMA Joined ==
  ASSUME NEW a, NEW b
  PROVE  <<a>> \o <<b>> = <<a, b>>
<1>1. <<a>> \in Seq({a, b}) /\ <<b>> \in Seq({a, b}) /\ <<a, b>> \in Seq({a, b})
  OBVIOUS
<1>2. /\ <<a>> \o <<b>> \in Seq({a, b}) /\ Len(<<a>> \o <<b>>) = 2
      /\ (<<a>> \o <<b>>)[1] = a /\ (<<a>> \o <<b>>)[2] = b
  BY <1>1, ConcatProperties
<1>3. \A i \in 1 .. 2 : (<<a>> \o <<b>>)[i] = <<a, b>>[i]
  BY <1>2
<1> QED
  BY <1>1, <1>2, <1>3, SeqEqual

LEMMA Mounting ==
  ASSUME NEW p \in Protectable
  PROVE  MountOn(p) = Mount(p)
<1>1. CASE p = <<".vitna">>
  BY <1>1 DEF MountOn, Mount
<1>2. CASE p = <<".git", "config">>
  <2>1. Tail(p) = <<"config">>
    BY <1>2
  <2>2. <<at[".git"]>> \o <<"config">> = <<at[".git"], "config">>
    BY Joined
  <2> QED
    BY <1>2, <2>1, <2>2 DEF MountOn, Mount
<1>3. CASE p = <<".git", "hooks">>
  <2>1. Tail(p) = <<"hooks">>
    BY <1>3
  <2>2. <<at[".git"]>> \o <<"hooks">> = <<at[".git"], "hooks">>
    BY Joined
  <2> QED
    BY <1>3, <2>1, <2>2 DEF MountOn, Mount
<1> QED
  BY <1>1, <1>2, <1>3 DEF Protectable

\* What a path holds is in the folder that is there.
LEMMA HoldsTheSame ==
  ASSUME NEW p \in Protectable, at'[p[1]] = at[p[1]], Exists(p),
         IsFolder(p[1]) => \A x \in Parts(p) : piece'[at[p[1]]][x] = piece[at[p[1]]][x]
  PROVE  Holding(p)' = Holding(p) /\ Exists(p)' /\ Mount(p)' = Mount(p)
<1>1. IsFolder(p[1])' = IsFolder(p[1])
  BY DEF IsFolder
<1>2. Holding(p)' = Holding(p)
  <2>1. CASE ~ IsFolder(p[1])
    BY <1>1, <2>1 DEF Holding
  <2>2. CASE IsFolder(p[1])
    <3>1. Holding(p) = {<<at[p[1]], x, piece[at[p[1]]][x]>> : x \in Parts(p)}
      BY <2>2 DEF Holding, Parts
    <3>2. Holding(p)' = {<<at[p[1]], x, piece'[at[p[1]]][x]>> : x \in Parts(p)}
      BY <1>1, <2>2 DEF Holding, Parts
    <3> QED
      BY <2>2, <3>1, <3>2
  <2> QED
    BY <2>1, <2>2
<1>3. Exists(p)'
  <2>1. CASE p[1] = ".vitna"
    BY <2>1, PathsHaveParts DEF Exists
  <2>2. CASE p[1] = ".git"
    <3>1. IsFolder(p[1]) /\ Len(p) = 2 /\ p[2] \in Parts(p)
      BY <2>2, PathsHaveParts DEF Exists, Parts
    <3> QED
      BY <1>1, <3>1 DEF Exists
  <2> QED
    BY <2>1, <2>2, PathsHaveParts
<1>4. Mount(p)' = Mount(p)
  BY PathsHaveParts DEF Mount
<1> QED
  BY <1>2, <1>3, <1>4

LEMMA SandboxBegins ==
  ASSUME NEW on, NEW there \in SUBSET {".git", ".vitna"}, NEW git \in {"repository", "file"}, NEW has, NEW found,
         SandboxStart(on, there, git, has, found)
  PROVE  SandboxInv
<1>1. TreeInv
  <2>1. First[".git"] = "repository" /\ First[".vitna"] = "records"
    BY DEF First
  <2>2. /\ at = [n \in Names |-> IF n \notin there THEN "none" ELSE IF n = ".git" THEN git ELSE First[n]]
        /\ "aside" \notin there
    BY DEF SandboxStart
  <2>3. at[".git"] \in {git, "none"} /\ at[".vitna"] \in {"records", "none"} /\ at["aside"] = "none"
    BY <2>1, <2>2 DEF Names
  <2>4. piece \in [FolderIds -> [Pieces -> {"none", "first", "outside", "command"}]]
    BY DEF SandboxStart
  <2> QED
    BY <2>2, <2>3, <2>4 DEF TreeInv, Names, FolderIds
<1> QED
  BY <1>1 DEF SandboxStart, Idle, SandboxInv, CommandShape, FoundStays, FoundIsPlanned

LEMMA SandboxRests == SandboxInv /\ UNCHANGED sandboxVars => SandboxInv'
<1> SUFFICES ASSUME SandboxInv, UNCHANGED sandboxVars PROVE SandboxInv'
  OBVIOUS
<1>1. UNCHANGED <<platform, at, piece, command>>
  BY DEF sandboxVars, workspaceVars
<1>2. \A p : Holding(p)' = Holding(p) /\ Exists(p)' = Exists(p) /\ Mount(p)' = Mount(p)
  BY <1>1 DEF Holding, Exists, Mount, IsFolder
<1> QED
  BY <1>1, <1>2 DEF SandboxInv, TreeInv, CommandShape, FoundStays, FoundIsPlanned, HasProtected, HasPinned

\* The tree stays while a plan is made.
LEMMA TreeRests ==
  ASSUME SandboxInv, UNCHANGED <<at, piece>>, command'.before = command.before
  PROVE  TreeInv' /\ FoundStays' /\ \A p : Mount(p)' = Mount(p)
<1>1. \A p : Holding(p)' = Holding(p) /\ Exists(p)' = Exists(p) /\ Mount(p)' = Mount(p)
  BY DEF Holding, Exists, IsFolder, Mount
<1> QED
  BY <1>1 DEF SandboxInv, TreeInv, FoundStays

LEMMA PlanGoesOn ==
  ASSUME SandboxInv, UNCHANGED platform, Ask \/ Probe \/ PinGit \/ Protect \/ NameGaps
  PROVE  SandboxInv'
<1>1. CommandShape /\ UNCHANGED <<at, piece>>
  BY DEF SandboxInv, workspaceVars, Ask, Probe, PinGit, Protect, NameGaps
<1>2. CASE Ask
  <2> DEFINE found == {<<p, Holding(p)>> : p \in {c \in Protectable : Exists(c)}}
  <2>1. PICK g : command' = [Idle EXCEPT !.step = IF g \in {"read_only", "guarded"} THEN "probe" ELSE "refused",
                                         !.guarantee = g, !.before = found]
    BY <1>2 DEF Ask
  <2>2. command'.step \in {"probe", "refused"} /\ command'.before = found /\ CommandShape'
    <3> HIDE DEF found
    <3> QED
      BY <2>1 DEF Idle, CommandShape
  <2>3. \A b \in found : b[1] \in Protectable /\ Exists(b[1]) /\ b[2] = Holding(b[1])
    OBVIOUS
  <2>4. \A p : Holding(p)' = Holding(p) /\ Exists(p)' = Exists(p)
    BY <1>1 DEF Holding, Exists, IsFolder
  <2>5. FoundStays'
    BY <2>2, <2>3, <2>4 DEF FoundStays
  <2>6. FoundIsPlanned'
    BY <2>2 DEF FoundIsPlanned, HasProtected, HasPinned
  <2> QED
    BY <1>1, <2>2, <2>5, <2>6 DEF SandboxInv, TreeInv
<1>3. CASE Probe
  <2>1. PICK s \in {"refused", "git", "protected"} :
          command' = [command EXCEPT !.step = s] /\ (s = "git" => platform = "linux")
            /\ (s = "protected" => platform # "linux")
    BY <1>3 DEF Probe, Step
  <2>2. command'.step = s /\ command'.before = command.before /\ CommandShape'
    BY <1>1, <2>1 DEF CommandShape
  <2>3. FoundIsPlanned'
    BY <2>1, <2>2 DEF FoundIsPlanned, HasProtected, HasPinned
  <2> QED
    BY <1>1, <2>2, <2>3, TreeRests DEF SandboxInv
<1>4. CASE PinGit
  <2> DEFINE s == IF platform = "linux" THEN "protected" ELSE "gaps"
             pin == IF platform = "linux" THEN IsFolder(".git") ELSE at[".git"] # "none"
  <2>1. command.step = "git" /\ command' = [command EXCEPT !.step = s, !.pinned = pin]
    BY <1>4 DEF PinGit
  <2>2. /\ command'.step = s /\ command'.before = command.before /\ command'.pinned = pin
        /\ command'.protected = command.protected /\ CommandShape'
    <3> HIDE DEF s, pin
    <3> QED
      BY <1>1, <2>1 DEF CommandShape
  <2>3. ASSUME NEW b \in command.before
        PROVE  /\ HasProtected' => b[1] \in command'.protected
               /\ b[1][1] = ".git" => command'.pinned
    <3>1. b[1] \in Protectable /\ Exists(b[1])
      BY DEF SandboxInv, FoundStays
    <3>2. b[1][1] = ".git" => IsFolder(".git") /\ at[".git"] # "none"
      BY <3>1, PathsHaveParts DEF Exists, IsFolder, FolderIds
    <3>3. HasProtected' => HasProtected
      BY <2>1, <2>2 DEF HasProtected
    <3> QED
      BY <2>2, <3>2, <3>3 DEF SandboxInv, FoundIsPlanned
  <2>4. FoundIsPlanned'
    BY <2>2, <2>3 DEF FoundIsPlanned
  <2> QED
    BY <1>1, <2>2, <2>4, TreeRests DEF SandboxInv
<1>5. CASE Protect
  <2> DEFINE s == IF platform = "linux" THEN "gaps" ELSE "git"
             all == {c \in Protectable : Exists(c)}
  <2>1. command.step = "protected" /\ command' = [command EXCEPT !.step = s, !.protected = all]
    BY <1>5 DEF Protect
  <2>2. /\ command'.step = s /\ command'.before = command.before /\ command'.pinned = command.pinned
        /\ command'.protected = all /\ CommandShape'
    <3>1. all \subseteq Protectable
      OBVIOUS
    <3> HIDE DEF s, all
    <3> QED
      BY <1>1, <2>1, <3>1 DEF CommandShape
  <2>3. ASSUME NEW b \in command.before
        PROVE  /\ b[1] \in command'.protected
               /\ HasPinned' /\ b[1][1] = ".git" => command'.pinned
    <3>1. b[1] \in all
      BY DEF SandboxInv, FoundStays
    <3>2. HasPinned' => HasPinned
      BY <2>1, <2>2 DEF HasPinned
    <3> QED
      BY <2>2, <3>1, <3>2 DEF SandboxInv, FoundIsPlanned
  <2>4. FoundIsPlanned'
    BY <2>2, <2>3 DEF FoundIsPlanned
  <2> QED
    BY <1>1, <2>2, <2>4, TreeRests DEF SandboxInv
<1>6. CASE NameGaps
  <2>1. command.step = "gaps" /\ command' = [command EXCEPT !.step = "planned", !.gap = at[".git"] = "none"]
    BY <1>6 DEF NameGaps
  <2>2. /\ command'.step = "planned" /\ command'.before = command.before /\ command'.pinned = command.pinned
        /\ command'.protected = command.protected /\ CommandShape'
    BY <1>1, <2>1 DEF CommandShape
  <2>3. FoundIsPlanned'
    BY <2>1, <2>2 DEF SandboxInv, FoundIsPlanned, HasProtected, HasPinned
  <2> QED
    BY <1>1, <2>2, <2>3, TreeRests DEF SandboxInv
<1> QED
  BY <1>2, <1>3, <1>4, <1>5, <1>6

LEMMA CommandStarts ==
  ASSUME SandboxInv, UNCHANGED platform, StartSandboxed
  PROVE  SandboxInv'
<1> DEFINE mounted == command.protected \cup (IF command.pinned THEN {<<".git">>} ELSE {})
           ro == {MountOn(p) : p \in command.protected}
           rw == {MountOn(p) : p \in mounted \ command.protected}
<1>1. CommandShape /\ UNCHANGED <<at, piece>> /\ command.step = "planned"
  BY DEF SandboxInv, workspaceVars, StartSandboxed
<1>2. ASSUME NEW s \in {"failed", "running"}, command' = [command EXCEPT !.step = s],
             s = "running" => platform # "linux"
      PROVE  SandboxInv'
  <2>1. /\ command'.step = s /\ command'.before = command.before /\ command'.pinned = command.pinned
        /\ command'.protected = command.protected /\ CommandShape'
    BY <1>1, <1>2 DEF CommandShape
  <2>2. FoundIsPlanned'
    BY <1>1, <1>2, <2>1 DEF SandboxInv, FoundIsPlanned, HasProtected, HasPinned
  <2> QED
    BY <1>1, <2>1, <2>2, TreeRests DEF SandboxInv
<1>3. ASSUME command' = [command EXCEPT !.step = "running", !.ro = ro, !.rw = rw]
      PROVE  SandboxInv'
  <2>1. /\ command'.step = "running" /\ command'.before = command.before /\ command'.pinned = command.pinned
        /\ command'.protected = command.protected /\ command'.ro = ro /\ command'.rw = rw /\ CommandShape'
    <3> HIDE DEF ro, rw
    <3> QED
      BY <1>1, <1>3 DEF CommandShape
  <2>2. ASSUME NEW b \in command.before
        PROVE  /\ b[1] \in command.protected
               /\ b[1][1] = ".git" => command.pinned
               /\ Mount(b[1]) \in ro
               /\ b[1][1] = ".git" => <<at[".git"]>> \in rw
    <3>1. b[1] \in Protectable /\ b[1] \in command.protected /\ (b[1][1] = ".git" => command.pinned)
      BY <1>1 DEF SandboxInv, FoundStays, FoundIsPlanned, HasProtected, HasPinned
    <3>2. Mount(b[1]) = MountOn(b[1])
      BY <3>1, Mounting
    <3>3. MountOn(<<".git">>) = <<at[".git"]>>
      BY DEF MountOn
    <3>4. command.pinned => <<".git">> \in mounted \ command.protected
      BY <1>1 DEF CommandShape, Protectable
    <3> QED
      BY <3>1, <3>2, <3>3, <3>4
  <2>3. FoundIsPlanned'
    <3> HIDE DEF ro, rw
    <3> QED
      BY <1>1, <2>1, <2>2, TreeRests DEF FoundIsPlanned
  <2> QED
    BY <1>1, <2>1, <2>3, TreeRests DEF SandboxInv
<1> QED
  BY <1>1, <1>2, <1>3 DEF StartSandboxed, Step

\* What was found stays if each folder it is in, and what it holds there, stays.
LEMMA FoundIsKept ==
  ASSUME SandboxInv, UNCHANGED <<platform, command>>, TreeInv',
         \A b \in command.before :
           /\ at'[b[1][1]] = at[b[1][1]]
           /\ IsFolder(b[1][1]) => \A x \in Parts(b[1]) : piece'[at[b[1][1]]][x] = piece[at[b[1][1]]][x]
  PROVE  SandboxInv'
<1>1. ASSUME NEW b \in command.before
      PROVE  /\ b[1] \in Protectable /\ Holding(b[1])' = Holding(b[1]) /\ Exists(b[1])'
             /\ Mount(b[1])' = Mount(b[1]) /\ b[2] = Holding(b[1])
             /\ b[1][1] = ".git" => at'[".git"] = at[".git"]
  <2>1. b[1] \in Protectable /\ Exists(b[1]) /\ b[2] = Holding(b[1])
    BY DEF SandboxInv, FoundStays
  <2>2. Holding(b[1])' = Holding(b[1]) /\ Exists(b[1])' /\ Mount(b[1])' = Mount(b[1])
    BY <2>1, HoldsTheSame
  <2> QED
    BY <2>1, <2>2
<1>2. FoundStays'
  BY <1>1 DEF FoundStays
<1>3. FoundIsPlanned'
  BY <1>1 DEF SandboxInv, FoundIsPlanned, HasProtected, HasPinned
<1> QED
  BY <1>2, <1>3 DEF SandboxInv, CommandShape

\* What holds of a name at which something was found, while the command runs.
LEMMA FoundIsBound ==
  ASSUME SandboxInv, command.step = "running", NEW b \in command.before
  PROVE  /\ b[1] \in Protectable /\ b[1][1] \in Names /\ at[b[1][1]] # "none"
         /\ ~ MayRename(b[1][1])
         /\ \A x \in Parts(b[1]) : ~ MayWrite(b[1][1], x)
         /\ Parts(b[1]) \subseteq Pieces
<1> DEFINE p == b[1]
<1>1. p \in Protectable /\ Exists(p) /\ p \in command.protected
      /\ (p[1] = ".git" => command.pinned)
      /\ (platform = "linux" => Mount(p) \in command.ro /\ (p[1] = ".git" => <<at[".git"]>> \in command.rw))
  BY DEF SandboxInv, FoundStays, FoundIsPlanned, HasProtected, HasPinned
<1> HIDE DEF p
<1>2. CASE p[1] = ".vitna"
  <2>1. p = <<".vitna">> /\ Len(p) = 1 /\ Mount(p) = <<at[".vitna"]>> /\ at[".vitna"] # "none"
    BY <1>1, <1>2, PathsHaveParts DEF Mount, Exists
  <2>2. ~ MayRename(".vitna")
    BY <1>1, <2>1 DEF MayRename
  <2>3. \A x : ~ MayWrite(".vitna", x)
    BY <1>1, <2>1 DEF MayWrite
  <2> QED
    BY <1>1, <1>2, <2>1, <2>2, <2>3 DEF p, Parts, Names
<1>3. CASE p[1] = ".git"
  <2>1. /\ p = <<".git", p[2]>> /\ Len(p) = 2 /\ p[2] \in Pieces /\ Mount(p) = <<at[".git"], p[2]>>
        /\ at[".git"] # "none"
    BY <1>1, <1>3, PathsHaveParts DEF Mount, Exists, IsFolder, FolderIds
  <2>2. ~ MayRename(".git")
    BY <1>1, <1>3 DEF MayRename
  <2>3. ~ MayWrite(".git", p[2])
    BY <1>1, <2>1 DEF MayWrite
  <2> QED
    BY <1>1, <1>3, <2>1, <2>2, <2>3 DEF p, Parts, Names
<1> QED
  BY <1>1, <1>2, <1>3, PathsHaveParts

LEMMA CommandWrites ==
  ASSUME SandboxInv, UNCHANGED platform, WritePiece
  PROVE  SandboxInv'
<1>1. PICK n \in Names, x \in Pieces, v \in {"none", "command"} :
        /\ IsFolder(n) /\ MayWrite(n, x)
        /\ piece' = [piece EXCEPT ![at[n]][x] = v]
  BY DEF WritePiece
<1>2. command.step = "running" /\ UNCHANGED <<at, command>> /\ at[n] \in FolderIds /\ at[n] # "none"
  BY <1>1 DEF WritePiece, IsFolder, FolderIds
<1>3. TreeInv'
  BY <1>1, <1>2 DEF SandboxInv, TreeInv
<1>4. ASSUME NEW d \in FolderIds, NEW y \in Pieces, d # at[n] \/ y # x
      PROVE  piece'[d][y] = piece[d][y]
  BY <1>1, <1>2, <1>4 DEF SandboxInv, TreeInv
<1>5. ASSUME NEW b \in command.before, IsFolder(b[1][1]), NEW y \in Parts(b[1])
      PROVE  piece'[at[b[1][1]]][y] = piece[at[b[1][1]]][y]
  <2>1. b[1][1] \in Names /\ y \in Pieces /\ ~ MayWrite(b[1][1], y)
    BY <1>2, FoundIsBound
  <2>2. b[1][1] # n \/ y # x
    BY <1>1, <2>1
  <2>3. at[b[1][1]] # at[n] \/ y # x
    BY <1>2, <2>1, <2>2 DEF SandboxInv, TreeInv
  <2> QED
    BY <1>4, <1>5, <2>1, <2>3 DEF IsFolder
<1> QED
  BY <1>2, <1>3, <1>5, FoundIsKept

LEMMA CommandRenames ==
  ASSUME SandboxInv, UNCHANGED platform, RenameFolder
  PROVE  SandboxInv'
<1>1. PICK n \in Names, m \in Names :
        /\ at[n] # "none" /\ at[m] = "none" /\ MayRename(n) /\ MayRename(m)
        /\ at' = [at EXCEPT ![m] = at[n], ![n] = "none"]
  BY DEF RenameFolder
<1>2. command.step = "running" /\ UNCHANGED <<piece, command>>
  BY DEF RenameFolder
<1>3. TreeInv'
  <2>1. /\ at' \in [Names -> FolderIds \cup {"file", "none"}]
        /\ at'[m] = at[n] /\ at'[n] = "none" /\ \A k \in Names : k \notin {n, m} => at'[k] = at[k]
    BY <1>1 DEF SandboxInv, TreeInv
  <2> QED
    BY <1>1, <1>2, <2>1 DEF SandboxInv, TreeInv
<1>4. ASSUME NEW b \in command.before PROVE at'[b[1][1]] = at[b[1][1]]
  <2>1. b[1][1] \in Names /\ b[1][1] # n /\ b[1][1] # m
    BY <1>1, <1>2, FoundIsBound
  <2> QED
    BY <1>1, <2>1 DEF SandboxInv, TreeInv
<1> QED
  BY <1>2, <1>3, <1>4, FoundIsKept

LEMMA CommandMakes ==
  ASSUME SandboxInv, UNCHANGED platform, MakeFolderInside
  PROVE  SandboxInv'
<1>1. PICK n \in Names, d \in FolderIds :
        /\ at[n] = "none" /\ Free(d)
        /\ at' = [at EXCEPT ![n] = d]
        /\ piece' = [piece EXCEPT ![d] = [x \in Pieces |-> "none"]]
  BY DEF MakeFolderInside
<1>2. command.step = "running" /\ UNCHANGED command
  BY DEF MakeFolderInside
<1>3. TreeInv'
  BY <1>1 DEF SandboxInv, TreeInv, Free
<1>4. ASSUME NEW b \in command.before
      PROVE  /\ at'[b[1][1]] = at[b[1][1]]
             /\ IsFolder(b[1][1]) => \A x \in Parts(b[1]) : piece'[at[b[1][1]]][x] = piece[at[b[1][1]]][x]
  <2>1. b[1][1] \in Names /\ b[1][1] # n
    BY <1>1, <1>2, FoundIsBound
  <2>2. at[b[1][1]] # d
    BY <1>1, <2>1 DEF Free
  <2> QED
    BY <1>1, <2>1, <2>2 DEF SandboxInv, TreeInv, IsFolder
<1> QED
  BY <1>2, <1>3, <1>4, FoundIsKept

\* What other programs change is no longer among what was found, nor under a mount.
LEMMA OutsideDisturbs ==
  ASSUME SandboxInv, UNCHANGED platform, TreeInv', NEW n \in Names, NEW gone, gone \subseteq {at[n]}, Disturb(n, gone),
         \A m \in Names : m # n /\ at[m] # "none" =>
           /\ at'[m] = at[m]
           /\ IsFolder(m) => piece'[at[m]] = piece[at[m]]
  PROVE  SandboxInv'
<1>1. /\ command'.before = {b \in command.before : b[1][1] # n}
      /\ command'.ro = {m \in command.ro : m[1] \notin gone} /\ command'.rw = {m \in command.rw : m[1] \notin gone}
      /\ command'.step = command.step /\ command'.protected = command.protected /\ command'.pinned = command.pinned
      /\ CommandShape'
  <2> DEFINE before == {b \in command.before : b[1][1] # n}
             ro == {m \in command.ro : m[1] \notin gone}
             rw == {m \in command.rw : m[1] \notin gone}
  <2>1. command' = [command EXCEPT !.before = before, !.ro = ro, !.rw = rw] /\ CommandShape
    BY DEF Disturb, SandboxInv
  <2>2. /\ command'.before = before /\ command'.ro = ro /\ command'.rw = rw
        /\ command'.step = command.step /\ command'.protected = command.protected /\ command'.pinned = command.pinned
        /\ CommandShape'
    <3> HIDE DEF before, ro, rw
    <3> QED
      BY <2>1 DEF CommandShape
  <2> QED
    BY <2>2
<1>2. ASSUME NEW b \in command'.before
      PROVE  /\ b \in command.before /\ b[1] \in Protectable /\ Exists(b[1])' /\ b[2] = Holding(b[1])'
             /\ Mount(b[1])' = Mount(b[1]) /\ at'[b[1][1]] = at[b[1][1]]
             /\ Mount(b[1])[1] = at[b[1][1]] /\ at[b[1][1]] \notin gone
  <2>1. b \in command.before /\ b[1][1] # n
    BY <1>1
  <2>2. b[1] \in Protectable /\ Exists(b[1]) /\ b[2] = Holding(b[1])
    BY <2>1 DEF SandboxInv, FoundStays
  <2>3. b[1][1] \in Names /\ at[b[1][1]] # "none" /\ Mount(b[1])[1] = at[b[1][1]]
    <3>1. CASE b[1][1] = ".vitna"
      BY <2>2, <3>1, PathsHaveParts DEF Exists, Mount, Names
    <3>2. CASE b[1][1] = ".git"
      BY <2>2, <3>2, PathsHaveParts DEF Exists, Mount, Names, IsFolder, FolderIds
    <3> QED
      BY <2>2, <3>1, <3>2, PathsHaveParts
  <2>4. at'[b[1][1]] = at[b[1][1]] /\ (IsFolder(b[1][1]) => piece'[at[b[1][1]]] = piece[at[b[1][1]]])
    BY <2>1, <2>3
  <2>5. Holding(b[1])' = Holding(b[1]) /\ Exists(b[1])' /\ Mount(b[1])' = Mount(b[1])
    BY <2>2, <2>4, HoldsTheSame
  <2>6. at[b[1][1]] \notin gone
    BY <2>1, <2>3 DEF SandboxInv, TreeInv
  <2> QED
    BY <2>1, <2>2, <2>3, <2>4, <2>5, <2>6
<1>3. FoundStays'
  BY <1>2 DEF FoundStays
<1>4. FoundIsPlanned'
  <2> SUFFICES ASSUME NEW b \in command'.before
               PROVE  /\ HasProtected' => b[1] \in command'.protected
                      /\ HasPinned' /\ b[1][1] = ".git" => command'.pinned
                      /\ command'.step = "running" /\ platform' = "linux" =>
                           /\ Mount(b[1])' \in command'.ro
                           /\ b[1][1] = ".git" => <<at'[".git"]>> \in command'.rw
    BY DEF FoundIsPlanned
  <2>1. b \in command.before
    BY <1>2
  <2>2. /\ HasProtected' => b[1] \in command'.protected
        /\ HasPinned' /\ b[1][1] = ".git" => command'.pinned
    BY <1>1, <2>1 DEF SandboxInv, FoundIsPlanned, HasProtected, HasPinned
  <2>3. command'.step = "running" /\ platform' = "linux" =>
          /\ Mount(b[1]) \in command.ro
          /\ b[1][1] = ".git" => <<at[".git"]>> \in command.rw
    BY <1>1, <2>1 DEF SandboxInv, FoundIsPlanned
  <2> QED
    BY <1>1, <1>2, <2>2, <2>3
<1> QED
  BY <1>1, <1>3, <1>4 DEF SandboxInv

LEMMA OutsideChanges ==
  ASSUME SandboxInv, UNCHANGED platform, ChangeOutside
  PROVE  SandboxInv'
<1>1. ASSUME NEW n \in Names, NEW x \in Pieces, NEW v \in {"none", "outside"}, IsFolder(n),
             piece' = [piece EXCEPT ![at[n]][x] = v], Disturb(n, {}), UNCHANGED at
      PROVE  SandboxInv'
  <2>1. TreeInv'
    BY <1>1 DEF SandboxInv, TreeInv
  <2>2. ASSUME NEW m \in Names, m # n, at[m] # "none"
        PROVE  at'[m] = at[m] /\ (IsFolder(m) => piece'[at[m]] = piece[at[m]])
    <3>1. at[m] # at[n]
      BY <2>2 DEF SandboxInv, TreeInv
    <3> QED
      BY <1>1, <3>1 DEF SandboxInv, TreeInv, IsFolder
  <2> QED
    BY <1>1, <2>1, <2>2, OutsideDisturbs
<1>2. ASSUME NEW n \in Names, NEW d \in FolderIds \cup {"file", "none"},
             IF at[n] = "none" THEN d # "none" /\ Free(d) ELSE d = "none",
             at' = [at EXCEPT ![n] = d],
             piece' = IF d \in FolderIds THEN [piece EXCEPT ![d] = [x \in Pieces |-> "none"]] ELSE piece,
             Disturb(n, {at[n]})
      PROVE  SandboxInv'
  <2>1. at' \in [Names -> FolderIds \cup {"file", "none"}]
    BY <1>2 DEF SandboxInv, TreeInv
  <2>2. piece' \in [FolderIds -> [Pieces -> {"none", "first", "outside", "command"}]]
    BY <1>2 DEF SandboxInv, TreeInv
  <2>3. TreeInv'
    BY <1>2, <2>1, <2>2 DEF SandboxInv, TreeInv, Free
  <2>4. ASSUME NEW m \in Names, m # n, at[m] # "none"
        PROVE  at'[m] = at[m] /\ (IsFolder(m) => piece'[at[m]] = piece[at[m]])
    <3>1. at'[m] = at[m]
      BY <1>2, <2>4 DEF SandboxInv, TreeInv
    <3>2. d \in FolderIds => at[m] # d
      BY <1>2, <2>4 DEF Free, FolderIds
    <3> QED
      BY <1>2, <3>1, <3>2 DEF SandboxInv, TreeInv, IsFolder
  <2> QED
    BY <1>2, <2>3, <2>4, OutsideDisturbs
<1>3. ASSUME UNCHANGED <<workspaceVars, command>> PROVE SandboxInv'
  BY <1>3, TreeRests DEF workspaceVars, SandboxInv, CommandShape, FoundIsPlanned, HasProtected, HasPinned
<1> QED
  BY <1>1, <1>2, <1>3 DEF ChangeOutside

LEMMA SandboxGoesOn == SandboxInv /\ SandboxNext => SandboxInv'
<1> SUFFICES ASSUME SandboxInv, SandboxNext PROVE SandboxInv'
  OBVIOUS
<1>1. UNCHANGED platform
  BY DEF SandboxNext
<1>2. CASE End
  <2>1. command' = Idle /\ UNCHANGED <<at, piece>>
    BY <1>2 DEF End, workspaceVars
  <2> QED
    BY <2>1 DEF SandboxInv, TreeInv, CommandShape, FoundStays, FoundIsPlanned, Idle
<1> QED
  BY <1>1, <1>2, PlanGoesOn, CommandStarts, CommandWrites, CommandRenames, CommandMakes, OutsideChanges
    DEF SandboxNext

\* Any commands, and changes by other programs between any two steps: each protected path
\* that was there when the plan was begun, and that nobody else touched, leads to the same
\* thing holding the same (ProtectedStay).
THEOREM TheProtectedStay == Spec => []ProtectedStay
<1>1. Init => SandboxInv
  <2>1. SandboxInit => SandboxInv
    BY SandboxBegins DEF SandboxInit
  <2>2. SandboxStart("other", {}, "file", {}, "no") => SandboxInv
    BY SandboxBegins
  <2> QED
    BY <2>1, <2>2 DEF Init
<1>2. [Next]_vars => SandboxNext \/ UNCHANGED sandboxVars
  BY DEF Next, WithPeople, WithTheMachine, InTheWorkspace, InTheSystem, vars, machineVars
<1>3. SandboxInv => ProtectedStay
  BY DEF SandboxInv, FoundStays, ProtectedStay
<1> QED
  BY <1>1, <1>2, <1>3, SandboxGoesOn, SandboxRests, PTL DEF Spec
--------------------------------------------------------------------------------
(* PageReads: the routines.                                                   *)

LEMMA WhatIsTakenIsCharged ==
  \A size, whole, left, rest \in Nat :
     rest + size = left =>
       /\ (whole + size) + rest <= whole + left
       /\ size + rest <= 0 + left
       /\ rest + size <= left
OBVIOUS

Problems == {"too_large", "reply_full", "receipts_too_large", "not_json", "no_state", "unreadable",
             "none", "lock_unreadable"}

ReplyRows == [routine : Nat, problem : Problems, definition : Nat, receipts : Nat, locked : BOOLEAN]

\* Sums of the rows, one for each length of the reply.
SumsOf(sums) ==
  /\ sums \in [0 .. Len(rows) -> Nat] /\ sums[0] = 0
  /\ \A n \in 1 .. Len(rows) : sums[n] = sums[n - 1] + rows[n].definition + rows[n].receipts

\* What of the routine being read is charged to the reply and in no row yet.
Charged ==
  IF place.at = "definition" THEN 0
  ELSE OfDefinition + IF place.at = "lock" THEN place.size ELSE 0

ReplyTypes ==
  /\ history \in [Routines -> Nat]
  /\ place \in [routine : Nat, at : {"definition", "receipts", "lock"}, examined : BOOLEAN, size : Nat]
  /\ budget \in Nat
  /\ rows \in Seq(ReplyRows)

PlaceIsNext ==
  /\ place.routine = Len(rows) + 1
  /\ place.at # "definition" => place.routine \in Routines
  /\ place.at = "lock" => place.size <= MaxReceipts /\ ~place.examined
  /\ \A i \in DOMAIN rows : rows[i].routine = i /\ rows[i].receipts <= MaxReceipts

ReplyIsPaid == \E sums : SumsOf(sums) /\ sums[Len(rows)] + Charged + budget <= MaxReply

ReplyInv == ReplyTypes /\ PlaceIsNext /\ ReplyIsPaid

\* The sums are what the recursion gives.
LEMMA SumsAreSent ==
  ASSUME rows \in Seq(ReplyRows), NEW sums, SumsOf(sums)
  PROVE  SentIn = sums
<1> DEFINE Is(f) == f = [n \in 0 .. Len(rows) |->
                          IF n = 0 THEN 0 ELSE f[n - 1] + rows[n].definition + rows[n].receipts]
<1>1. Len(rows) \in Nat
  OBVIOUS
<1>2. Is(sums)
  BY <1>1 DEF SumsOf
<1>3. SentIn = CHOOSE f : Is(f)
  BY DEF SentIn
<1>4. Is(SentIn)
  <2> HIDE DEF Is
  <2> QED
    BY <1>2, <1>3
<1>5. /\ SentIn = [n \in 0 .. Len(rows) |-> SentIn[n]]
      /\ \A n \in 0 .. Len(rows) : SentIn[n] =
           IF n = 0 THEN 0 ELSE SentIn[n - 1] + rows[n].definition + rows[n].receipts
  BY <1>4
<1> DEFINE T == {n \in 0 .. Len(rows) : SentIn[n] # sums[n]}
<1>6. T = {}
  <2> SUFFICES ASSUME T # {} PROVE FALSE
    OBVIOUS
  <2>1. PICK n \in T : \A m \in T : n <= m
    <3>1. T \subseteq Nat
      BY <1>1
    <3> HIDE DEF T
    <3> QED
      BY <3>1, LeastNumber
  <2>2. CASE n = 0
    BY <1>1, <1>5, <2>1, <2>2 DEF SumsOf
  <2>3. CASE n # 0
    <3>1. n \in 1 .. Len(rows) /\ n - 1 \in 0 .. Len(rows) /\ n - 1 \notin T
      BY <1>1, <2>1, <2>3
    <3>2. SentIn[n - 1] = sums[n - 1]
      BY <3>1
    <3>3. sums[n] = sums[n - 1] + rows[n].definition + rows[n].receipts
      BY <3>1 DEF SumsOf
    <3>4. SentIn[n] = SentIn[n - 1] + rows[n].definition + rows[n].receipts
      BY <1>5, <2>1, <2>3
    <3> QED
      BY <2>1, <3>2, <3>3, <3>4
  <2> QED
    BY <2>2, <2>3
<1>7. sums = [n \in 0 .. Len(rows) |-> sums[n]]
  BY DEF SumsOf
<1>8. \A n \in 0 .. Len(rows) : SentIn[n] = sums[n]
  BY <1>6
<1> HIDE DEF T, Is
<1> QED
  BY <1>5, <1>7, <1>8

LEMMA ReplyBegins == PageInit => ReplyInv
<1> SUFFICES ASSUME PageInit PROVE ReplyInv
  OBVIOUS
<1>1. /\ rows = <<>> /\ budget = MaxReply /\ MaxReply \in Nat
      /\ place = [routine |-> 1, at |-> "definition", examined |-> FALSE, size |-> 0]
      /\ history = [i \in Routines |-> 0]
  BY PageReadsAssumption DEF PageInit
<1>2. ReplyTypes /\ PlaceIsNext
  BY <1>1 DEF ReplyTypes, PlaceIsNext
<1>3. SumsOf([n \in 0 .. 0 |-> 0])
  BY <1>1 DEF SumsOf
<1>4. [n \in 0 .. 0 |-> 0][Len(rows)] + Charged + budget <= MaxReply
  BY <1>1 DEF Charged
<1> QED
  BY <1>2, <1>3, <1>4 DEF ReplyInv, ReplyIsPaid

LEMMA ReplyRests ==
  ASSUME ReplyInv, UNCHANGED <<place, budget, rows>>, history' \in [Routines -> Nat]
  PROVE  ReplyInv'
<1>1. ReplyTypes' /\ PlaceIsNext'
  BY DEF ReplyInv, ReplyTypes, PlaceIsNext
<1>2. ReplyIsPaid'
  BY DEF ReplyInv, ReplyIsPaid, SumsOf, Charged, OfDefinition
<1> QED
  BY <1>1, <1>2 DEF ReplyInv

LEMMA KindsAreKnown ==
  \A i \in Routines : Definitions[i].size \in Nat /\ Definitions[i].kind \in {"good", "not_json", "no_state"}
<1> DEFINE OfRoutine == [kind : {"good", "not_json", "no_state"}, size : Nat]
<1>1. Definitions \in Seq(OfRoutine)
  BY PageReadsAssumption
<1>2. \A i \in DOMAIN Definitions : Definitions[i] \in OfRoutine
  <2> HIDE DEF OfRoutine
  <2> QED
    BY <1>1
<1> QED
  BY <1>2 DEF Routines

LEMMA ChargedIsKnown ==
  ASSUME ReplyTypes, PlaceIsNext
  PROVE  Charged \in Nat /\ (place.routine \in Routines => OfDefinition \in Nat)
<1>1. \A i \in Routines : Definitions[i].size \in Nat
  BY KindsAreKnown
<1>2. place.routine \in Routines => OfDefinition \in Nat
  BY <1>1 DEF OfDefinition
<1>3. place.size \in Nat
  BY DEF ReplyTypes
<1> QED
  BY <1>2, <1>3 DEF Charged, PlaceIsNext

\* A row is put that holds no more than what it paid.
LEMMA RowIsPut ==
  ASSUME ReplyInv, NEW row \in ReplyRows, Put(row), UNCHANGED history,
         row.routine = place.routine, row.receipts <= MaxReceipts, NEW paid \in Nat,
         row.definition + row.receipts <= Charged + paid, budget' \in Nat, budget' + paid <= budget
  PROVE  ReplyInv'
<1>1. PICK sums : SumsOf(sums) /\ sums[Len(rows)] + Charged + budget <= MaxReply
  BY DEF ReplyInv, ReplyIsPaid
<1>2. /\ rows \in Seq(ReplyRows) /\ Len(rows) \in Nat /\ place.routine = Len(rows) + 1 /\ budget \in Nat
      /\ \A i \in DOMAIN rows : rows[i].routine = i /\ rows[i].receipts <= MaxReceipts
      /\ row.definition \in Nat /\ row.receipts \in Nat
  BY DEF ReplyInv, ReplyTypes, PlaceIsNext, ReplyRows
<1>3. /\ rows' = Append(rows, row)
      /\ place' = [routine |-> place.routine + 1, at |-> "definition", examined |-> FALSE, size |-> 0]
  BY DEF Put
<1>4. /\ rows' \in Seq(ReplyRows) /\ Len(rows') = Len(rows) + 1 /\ rows'[Len(rows) + 1] = row
      /\ \A i \in 1 .. Len(rows) : rows'[i] = rows[i] /\ i \in DOMAIN rows
      /\ DOMAIN rows' = 1 .. Len(rows) + 1
  BY <1>2, <1>3
<1>5. ReplyTypes'
  BY <1>2, <1>3, <1>4 DEF ReplyInv, ReplyTypes
<1>6. PlaceIsNext'
  <2>1. \A i \in DOMAIN rows' : rows'[i].routine = i /\ rows'[i].receipts <= MaxReceipts
    <3> TAKE i \in DOMAIN rows'
    <3>1. CASE i = Len(rows) + 1
      BY <1>2, <1>4, <3>1
    <3>2. CASE i \in 1 .. Len(rows)
      BY <1>2, <1>4, <3>2
    <3> QED
      BY <1>2, <1>4, <3>1, <3>2
  <2> QED
    BY <1>2, <1>3, <1>4, <2>1 DEF PlaceIsNext
<1>7. ReplyIsPaid'
  <2>1. /\ sums \in [0 .. Len(rows) -> Nat] /\ sums[0] = 0
        /\ \A n \in 1 .. Len(rows) : sums[n] = sums[n - 1] + rows[n].definition + rows[n].receipts
    BY <1>1 DEF SumsOf
  <2>2. sums[Len(rows)] \in Nat /\ sums[Len(rows)] + row.definition + row.receipts \in Nat
    BY <1>2, <2>1
  <2>3. PICK last \in Nat : last = sums[Len(rows)] + row.definition + row.receipts
    BY <2>2
  <2>4. PICK more : more = [n \in 0 .. Len(rows) + 1 |-> IF n = Len(rows) + 1 THEN last ELSE sums[n]]
    OBVIOUS
  <2>5. /\ more \in [0 .. Len(rows) + 1 -> Nat] /\ more[Len(rows) + 1] = last
        /\ \A n \in 0 .. Len(rows) : more[n] = sums[n]
    BY <1>2, <2>1, <2>4
  <2>6. \A n \in 1 .. Len(rows) + 1 : more[n] = more[n - 1] + rows'[n].definition + rows'[n].receipts
    <3> TAKE n \in 1 .. Len(rows) + 1
    <3>1. CASE n = Len(rows) + 1
      <4>1. more[n - 1] = sums[Len(rows)] /\ more[n] = last /\ rows'[n] = row
        BY <1>2, <1>4, <2>5, <3>1
      <4> QED
        BY <2>3, <4>1
    <3>2. CASE n \in 1 .. Len(rows)
      <4>1. more[n - 1] = sums[n - 1] /\ more[n] = sums[n] /\ rows'[n] = rows[n]
        <5>1. n \in 0 .. Len(rows) /\ n - 1 \in 0 .. Len(rows)
          BY <1>2, <3>2
        <5> QED
          BY <1>4, <2>5, <3>2, <5>1
      <4> QED
        BY <2>1, <3>2, <4>1
    <3> QED
      BY <1>2, <3>1, <3>2
  <2>7. more[0] = 0
    BY <1>2, <2>1, <2>5
  <2>8. SumsOf(more)'
    BY <1>4, <2>5, <2>6, <2>7 DEF SumsOf
  <2>9. more[Len(rows')] = sums[Len(rows)] + row.definition + row.receipts
    BY <1>4, <2>3, <2>5
  <2>10. Charged' = 0
    BY <1>3 DEF Charged
  <2>11. Charged \in Nat /\ MaxReply \in Nat
    BY ChargedIsKnown, PageReadsAssumption DEF ReplyInv
  <2>12. more[Len(rows')] + Charged' + budget' <= MaxReply
    <3>1. row.definition + row.receipts \in Nat
      BY <1>2
    <3>2. sums[Len(rows)] + (row.definition + row.receipts) + budget' <= MaxReply
      <4>1. /\ sums[Len(rows)] \in Nat /\ MaxReply \in Nat /\ Charged \in Nat /\ paid \in Nat
            /\ budget \in Nat /\ budget' \in Nat
        BY <1>2, <2>2, <2>11
      <4>2. sums[Len(rows)] + Charged + budget <= MaxReply
        BY <1>1
      <4>3. row.definition + row.receipts <= Charged + paid /\ budget' + paid <= budget
        OBVIOUS
      <4>4. PICK held \in Nat : held = row.definition + row.receipts
        BY <3>1
      <4>5. PICK before \in Nat : before = Charged
        BY <4>1
      <4>6. sums[Len(rows)] + held + budget' <= MaxReply
        <5>1. held <= before + paid
          BY <4>3, <4>4, <4>5
        <5>2. PICK total \in Nat : total = sums[Len(rows)]
          BY <4>1
        <5>3. total + before + budget <= MaxReply
          BY <4>2, <4>5, <5>2
        <5>4. budget' + paid <= budget
          OBVIOUS
        <5>5. total + held + budget' <= MaxReply
          <6>1. PICK left \in Nat : left = budget
            BY <4>1
          <6>2. PICK leaves \in Nat : leaves = budget'
            BY <4>1
          <6>3. total + before + left <= MaxReply /\ leaves + paid <= left
            BY <5>3, <5>4, <6>1, <6>2
          <6>4. MaxReply \in Nat /\ paid \in Nat
            BY <4>1
          <6>5. total + held + leaves <= MaxReply
            BY <5>1, <6>3, <6>4
          <6> QED
            BY <6>2, <6>5
        <5> QED
          BY <5>2, <5>5
      <4> QED
        BY <4>4, <4>6
    <3>3. more[Len(rows')] = sums[Len(rows)] + (row.definition + row.receipts)
      BY <1>2, <2>2, <2>9
    <3> QED
      BY <1>2, <2>2, <2>10, <3>1, <3>2, <3>3
  <2> QED
    BY <2>8, <2>12 DEF ReplyIsPaid
<1> QED
  BY <1>5, <1>6, <1>7 DEF ReplyInv

\* The reading of a routine goes on, and what is taken is charged.
LEMMA ReadingGoesOn ==
  ASSUME ReplyInv, UNCHANGED <<history, rows>>, ReplyTypes', PlaceIsNext',
         Charged' + budget' <= Charged + budget
  PROVE  ReplyInv'
<1>1. PICK sums : SumsOf(sums) /\ sums[Len(rows)] + Charged + budget <= MaxReply
  BY DEF ReplyInv, ReplyIsPaid
<1>2. SumsOf(sums)'
  BY <1>1 DEF SumsOf
<1>3. /\ sums[Len(rows)] \in Nat /\ Charged \in Nat /\ Charged' \in Nat
      /\ budget \in Nat /\ budget' \in Nat /\ MaxReply \in Nat
  <2>1. Charged \in Nat
    BY ChargedIsKnown DEF ReplyInv
  <2>2. (ReplyTypes /\ PlaceIsNext => Charged \in Nat)'
    BY ChargedIsKnown, PTL
  <2>3. Len(rows) \in Nat
    BY DEF ReplyInv, ReplyTypes
  <2>4. sums[Len(rows)] \in Nat
    BY <1>1, <2>3 DEF SumsOf
  <2>5. budget \in Nat /\ budget' \in Nat
    BY DEF ReplyInv, ReplyTypes
  <2>6. MaxReply \in Nat
    BY PageReadsAssumption
  <2> QED
    BY <2>1, <2>2, <2>4, <2>5, <2>6 DEF ReplyInv
<1>4. sums[Len(rows')] + Charged' + budget' <= MaxReply
  <2>1. ASSUME NEW total \in Nat, NEW a \in Nat, NEW b \in Nat, NEW most \in Nat, NEW c \in Nat, NEW d \in Nat,
               total + a + b <= most, c + d <= a + b
        PROVE  total + c + d <= most
    BY <2>1
  <2>2. rows' = rows
    OBVIOUS
  <2>3. sums[Len(rows)] + Charged' + budget' <= MaxReply
    BY <1>1, <1>3, <2>1
  <2> QED
    BY <2>2, <2>3
<1> QED
  BY <1>2, <1>4 DEF ReplyInv, ReplyIsPaid

LEMMA RowIsRefused ==
  ASSUME ReplyInv, Reading, Refused, UNCHANGED <<history, budget>>, place.at \in {"definition", "receipts"}
  PROVE  ReplyInv'
<1>1. /\ place.routine \in Nat /\ place.routine \in Routines /\ OfDefinition \in Nat /\ budget \in Nat
      /\ MaxReceipts \in Nat /\ Charged = (IF place.at = "definition" THEN 0 ELSE OfDefinition)
  BY ChargedIsKnown, PageReadsAssumption DEF ReplyInv, ReplyTypes, Reading, Charged
<1>2. ASSUME NEW problem \in Problems, NEW definition \in Nat, definition <= Charged,
             Put(ReplyRow(problem, definition, 0, FALSE))
      PROVE  ReplyInv'
  <2> DEFINE row == ReplyRow(problem, definition, 0, FALSE)
  <2>1. row \in ReplyRows /\ row.routine = place.routine /\ row.receipts = 0 /\ row.definition = definition
    BY <1>1 DEF ReplyRow, ReplyRows
  <2>2. Charged \in Nat
    BY <1>1
  <2>3. Put(row)
    BY <1>2
  <2> HIDE DEF row
  <2>4. row.definition + row.receipts <= Charged + 0 /\ row.receipts <= MaxReceipts
    BY <1>1, <1>2, <2>1, <2>2
  <2>5. budget' \in Nat /\ budget' + 0 <= budget
    BY <1>1
  <2> QED
    BY <2>1, <2>3, <2>4, <2>5, RowIsPut
<1>3. {"too_large", "reply_full", "receipts_too_large"} \subseteq Problems
  BY DEF Problems
<1>4. CASE place.at = "definition"
  <2>1. Size \in Nat /\ MaxSize \in Nat
    BY <1>1, <1>4, PageReadsAssumption DEF Size, MaxSize
  <2>2. \/ Put(ReplyRow("too_large", 0, 0, FALSE))
        \/ Put(ReplyRow("reply_full", 0, 0, FALSE))
    <3>1. Size > MaxSize \/ Size <= MaxSize
      BY <2>1
    <3>2. CASE Size > MaxSize
      BY <1>4, <3>2 DEF Refused
    <3>3. CASE Size <= MaxSize
      <4>1. ~ (Size > MaxSize)
        BY <2>1, <3>3
      <4> QED
        BY <1>4, <3>3, <4>1 DEF Refused
    <3> QED
      BY <3>1, <3>2, <3>3
  <2>3. 0 \in Nat /\ 0 <= Charged
    BY <1>1
  <2> QED
    BY <1>2, <1>3, <2>2, <2>3
<1>5. CASE place.at = "receipts"
  <2>1. \/ Put(ReplyRow("receipts_too_large", OfDefinition, 0, FALSE))
        \/ Put(ReplyRow("reply_full", OfDefinition, 0, FALSE))
    BY <1>5 DEF Refused
  <2>2. OfDefinition \in Nat /\ OfDefinition <= Charged
    BY <1>1, <1>5
  <2> QED
    BY <1>2, <1>3, <2>1, <2>2
<1> QED
  BY <1>4, <1>5

LEMMA FileIsSized ==
  ASSUME ReplyInv, ExamineFile
  PROVE  ReplyInv'
<1>1. Reading /\ place.at \in {"definition", "receipts"} /\ UNCHANGED <<history, budget>>
  BY DEF ExamineFile
<1>2. CASE Fits
  <2>1. place' = [place EXCEPT !.examined = TRUE, !.size = Size] /\ UNCHANGED rows
    BY <1>2 DEF ExamineFile
  <2>2. Size \in Nat
    <3>1. OfDefinition \in Nat /\ history[place.routine] \in Nat
      BY <1>1, ChargedIsKnown DEF ReplyInv, ReplyTypes, Reading
    <3> QED
      BY <3>1 DEF Size
  <2>3. /\ place'.at = place.at /\ place'.routine = place.routine
        /\ place' \in [routine : Nat, at : {"definition", "receipts", "lock"}, examined : BOOLEAN, size : Nat]
    BY <2>1, <2>2 DEF ReplyInv, ReplyTypes
  <2>4. ReplyTypes' /\ PlaceIsNext'
    BY <1>1, <2>1, <2>3 DEF ReplyInv, ReplyTypes, PlaceIsNext
  <2>5. Charged' = Charged
    BY <1>1, <2>3 DEF Charged, OfDefinition
  <2>6. Charged \in Nat /\ budget \in Nat
    BY ChargedIsKnown DEF ReplyInv, ReplyTypes
  <2> QED
    BY <1>1, <2>1, <2>4, <2>5, <2>6, ReadingGoesOn
<1>3. CASE ~Fits
  BY <1>1, <1>3, RowIsRefused DEF ExamineFile
<1> QED
  BY <1>2, <1>3

LEMMA FileIsTaken ==
  ASSUME ReplyInv, Take
  PROVE  ReplyInv'
<1>1. /\ Reading /\ place.examined /\ UNCHANGED history
      /\ place.routine \in Routines /\ place.routine \in Nat
      /\ place \in [routine : Nat, at : {"definition", "receipts", "lock"}, examined : BOOLEAN, size : Nat]
      /\ budget \in Nat /\ place.at \in {"definition", "receipts"}
      /\ MaxReceipts \in Nat
  BY PageReadsAssumption DEF Take, Reading, ReplyInv, ReplyTypes, PlaceIsNext
<1>2. OfDefinition \in Nat /\ history[place.routine] \in Nat /\ Charged \in Nat
  BY <1>1, ChargedIsKnown DEF ReplyInv, ReplyTypes
<1>3. CASE ~Fits
  BY <1>1, <1>3, RowIsRefused DEF Take
<1>4. CASE Fits
  <2>1. Taken /\ budget' = budget - Size /\ Size <= MaxSize /\ Size <= budget
    BY <1>4 DEF Take, Fits
  <2>2. Size \in Nat /\ budget' \in Nat /\ budget' + Size = budget
    <3>1. Size \in Nat
      BY <1>2 DEF Size
    <3> QED
      BY <1>1, <2>1, <3>1
  <2>. PICK size \in Nat : size = Size
    BY <2>2
  <2>. PICK whole \in Nat : whole = OfDefinition
    BY <1>2
  <2>. PICK left \in Nat : left = budget
    BY <1>1
  <2>6. PICK rest \in Nat : rest = budget' /\ rest + size = left
    BY <2>2
  <2>3. CASE place.at = "receipts"
    <3>1. place' = [At("lock") EXCEPT !.size = Size] /\ UNCHANGED rows
      BY <2>1, <2>3 DEF Taken
    <3>2. /\ place'.at = "lock" /\ place'.routine = place.routine /\ place'.size = Size /\ ~place'.examined
          /\ place' \in [routine : Nat, at : {"definition", "receipts", "lock"}, examined : BOOLEAN, size : Nat]
      BY <1>1, <2>2, <3>1 DEF At
    <3>3. Size <= MaxReceipts
      BY <2>1, <2>3 DEF MaxSize
    <3>4. ReplyTypes' /\ PlaceIsNext'
      BY <1>1, <2>2, <3>1, <3>2, <3>3 DEF ReplyInv, ReplyTypes, PlaceIsNext
    <3>5. Charged' = OfDefinition + Size /\ Charged = OfDefinition
      BY <1>2, <2>3, <3>2 DEF Charged, OfDefinition
    <3>6. Charged' + budget' <= Charged + budget
      <4>1. Charged' = whole + size /\ Charged = whole
        BY <3>5
      <4>2. (whole + size) + rest <= whole + left
        BY <2>6, WhatIsTakenIsCharged
      <4> QED
        BY <2>6, <4>1, <4>2
    <3> QED
      BY <1>1, <3>1, <3>4, <3>6, ReadingGoesOn
  <2>4. CASE place.at # "receipts" /\ Definitions[place.routine].kind = "good"
    <3>1. place' = At("receipts") /\ UNCHANGED rows
      BY <2>1, <2>4 DEF Taken
    <3>2. /\ place'.at = "receipts" /\ place'.routine = place.routine
          /\ place' \in [routine : Nat, at : {"definition", "receipts", "lock"}, examined : BOOLEAN, size : Nat]
      BY <1>1, <3>1 DEF At
    <3>3. ReplyTypes' /\ PlaceIsNext'
      BY <1>1, <2>2, <3>1, <3>2 DEF ReplyInv, ReplyTypes, PlaceIsNext
    <3>4. Charged' = OfDefinition /\ Charged = 0 /\ Size = OfDefinition
      BY <1>1, <1>2, <2>4, <3>2 DEF Charged, OfDefinition, Size
    <3>5. Charged' + budget' <= Charged + budget
      <4>1. Charged' = size /\ Charged = 0
        BY <3>4
      <4>2. size + rest <= 0 + left
        BY <2>6, WhatIsTakenIsCharged
      <4> QED
        BY <2>6, <4>1, <4>2
    <3> QED
      BY <1>1, <3>1, <3>3, <3>5, ReadingGoesOn
  <2>5. CASE place.at # "receipts" /\ Definitions[place.routine].kind # "good"
    <3> DEFINE kind == Definitions[place.routine].kind
               row == ReplyRow(kind, OfDefinition, 0, FALSE)
    <3>1. Put(row)
      BY <2>1, <2>5 DEF Taken
    <3>2. kind \in Problems
      BY <1>1, <2>5, KindsAreKnown DEF Problems
    <3>3. row \in ReplyRows /\ row.routine = place.routine /\ row.receipts = 0 /\ row.definition = OfDefinition
      <4> HIDE DEF kind
      <4> QED
        BY <1>1, <1>2, <3>2 DEF ReplyRow, ReplyRows
    <3>4. Size = OfDefinition
      BY <1>1, <2>5 DEF Size
    <3> HIDE DEF row
    <3>5. row.definition + row.receipts <= Charged + Size /\ row.receipts <= MaxReceipts
      BY <1>1, <1>2, <3>3, <3>4
    <3>6. budget' + Size <= budget
      <4>1. rest + size <= left
        BY <2>6, WhatIsTakenIsCharged
      <4> QED
        BY <2>6, <4>1
    <3> QED
      BY <1>1, <2>2, <3>1, <3>3, <3>5, <3>6, RowIsPut
  <2> QED
    BY <2>3, <2>4, <2>5
<1> QED
  BY <1>3, <1>4

\* A row that holds no more than what was charged.
LEMMA RowIsDone ==
  ASSUME ReplyInv, Reading, NEW problem \in Problems, NEW definition \in Nat, NEW receipt \in Nat,
         NEW locked \in BOOLEAN, receipt <= MaxReceipts, definition + receipt <= Charged,
         Put(ReplyRow(problem, definition, receipt, locked)), UNCHANGED <<history, budget>>
  PROVE  ReplyInv'
<1> DEFINE row == ReplyRow(problem, definition, receipt, locked)
<1>1. place.routine \in Nat /\ budget \in Nat /\ Charged \in Nat
  BY ChargedIsKnown DEF ReplyInv, ReplyTypes
<1>2. /\ row \in ReplyRows /\ row.routine = place.routine /\ row.receipts = receipt /\ row.definition = definition
  BY <1>1 DEF ReplyRow, ReplyRows
<1>3. Put(row)
  OBVIOUS
<1> HIDE DEF row
<1>4. row.definition + row.receipts <= Charged + 0 /\ row.receipts <= MaxReceipts
  BY <1>1, <1>2
<1>5. budget' \in Nat /\ budget' + 0 <= budget
  BY <1>1
<1> QED
  BY <1>2, <1>3, <1>4, <1>5, RowIsPut

LEMMA RoutineGoesOn == ReplyInv /\ RoutineStep => ReplyInv'
<1> SUFFICES ASSUME ReplyInv, RoutineStep PROVE ReplyInv'
  OBVIOUS
<1>1. ASSUME NEW i \in Routines, RunRoutine(i) \/ EndRun(i) PROVE ReplyInv'
  <2>1. UNCHANGED <<history, place, budget, rows>>
    BY <1>1 DEF RunRoutine, EndRun
  <2>2. history' \in [Routines -> Nat]
    BY <2>1 DEF ReplyInv, ReplyTypes
  <2> QED
    BY <2>1, <2>2, ReplyRests
<1>2. ASSUME NEW i \in Routines, AppendRow(i) PROVE ReplyInv'
  <2>1. UNCHANGED <<place, budget, rows>> /\ history' = [history EXCEPT ![i] = @ + 1]
    BY <1>2 DEF AppendRow
  <2>2. history' \in [Routines -> Nat]
    BY <2>1 DEF ReplyInv, ReplyTypes
  <2> QED
    BY <2>1, <2>2, ReplyRests
<1>3. CASE Unreadable
  <2>1. /\ Reading /\ place.at \in {"definition", "receipts"} /\ UNCHANGED <<history, budget>>
        /\ Put(ReplyRow("unreadable", IF place.at = "definition" THEN 0 ELSE OfDefinition, 0, FALSE))
    BY <1>3 DEF Unreadable
  <2>2. OfDefinition \in Nat /\ Charged = (IF place.at = "definition" THEN 0 ELSE OfDefinition)
    BY <2>1, ChargedIsKnown DEF ReplyInv, Reading, Charged
  <2>3. "unreadable" \in Problems /\ 0 <= MaxReceipts
    BY PageReadsAssumption DEF Problems
  <2>4. PICK definition \in Nat : definition = IF place.at = "definition" THEN 0 ELSE OfDefinition
    BY <2>2
  <2>5. definition + 0 <= Charged
    BY <2>2, <2>4
  <2> QED
    BY <2>1, <2>3, <2>4, <2>5, RowIsDone
<1>4. CASE ReadLock
  <2>1. Reading /\ place.at = "lock" /\ UNCHANGED <<history, budget>>
    BY <1>4 DEF ReadLock
  <2>2. /\ OfDefinition \in Nat /\ place.size \in Nat /\ place.size <= MaxReceipts
        /\ Charged = OfDefinition + place.size
    BY <2>1, ChargedIsKnown DEF ReplyInv, ReplyTypes, PlaceIsNext, Reading, Charged
  <2>3. "none" \in Problems /\ "lock_unreadable" \in Problems /\ 0 <= MaxReceipts
    BY PageReadsAssumption DEF Problems
  <2>4. CASE Put(ReplyRow("none", OfDefinition, place.size, place.routine \in running))
    <3>1. OfDefinition + place.size <= Charged
      BY <2>2
    <3>2. (place.routine \in running) \in BOOLEAN
      OBVIOUS
    <3> QED
      BY <2>1, <2>2, <2>3, <2>4, <3>1, <3>2, RowIsDone
  <2>5. CASE Put(ReplyRow("lock_unreadable", OfDefinition, 0, FALSE))
    <3>1. OfDefinition + 0 <= Charged
      BY <2>2
    <3> QED
      BY <2>1, <2>2, <2>3, <2>5, <3>1, RowIsDone
  <2> QED
    BY <1>4, <2>4, <2>5 DEF ReadLock
<1> QED
  BY <1>1, <1>2, <1>3, <1>4, FileIsSized, FileIsTaken DEF RoutineStep

\* Any definitions and bounds, and routines run while they are read: the reply holds no more
\* than it may, nor a file more than a file may, and no row is missing or told twice
\* (ReplyFits).
THEOREM TheReplyFits == Spec => []ReplyFits
<1>1. Init => ReplyInv
  BY ReplyBegins DEF Init
<1>2. [Next]_vars => RoutineStep \/ UNCHANGED routineVars
  BY DEF Next, WithPeople, WithTheMachine, InTheWindow, AtTheTerminal, AtTheEndpoint, AtTheDoor, OnThePage,
    vars, peopleVars
<1>3. ReplyInv /\ UNCHANGED routineVars => ReplyInv'
  <2> SUFFICES ASSUME ReplyInv, UNCHANGED routineVars PROVE ReplyInv'
    OBVIOUS
  <2>1. UNCHANGED <<place, budget, rows>> /\ history' \in [Routines -> Nat]
    BY DEF routineVars, ReplyInv, ReplyTypes
  <2> QED
    BY <2>1, ReplyRests
<1>4. ReplyInv => ReplyFits
  <2> SUFFICES ASSUME ReplyInv PROVE ReplyFits
    OBVIOUS
  <2>1. PICK sums : SumsOf(sums) /\ sums[Len(rows)] + Charged + budget <= MaxReply
    BY DEF ReplyInv, ReplyIsPaid
  <2>2. rows \in Seq(ReplyRows) /\ Len(rows) \in Nat /\ budget \in Nat /\ Charged \in Nat /\ MaxReply \in Nat
    BY ChargedIsKnown, PageReadsAssumption DEF ReplyInv, ReplyTypes
  <2>3. SentIn = sums
    BY <2>1, <2>2, SumsAreSent
  <2>4. sums[Len(rows)] \in Nat
    BY <2>1, <2>2 DEF SumsOf
  <2>5. SentIn[Len(rows)] <= MaxReply
    <3>1. sums[Len(rows)] <= MaxReply
      BY <2>1, <2>2, <2>4
    <3> QED
      BY <2>3, <3>1
  <2> QED
    BY <2>5 DEF ReplyFits, ReplyInv, PlaceIsNext
<1> QED
  BY <1>1, <1>2, <1>3, <1>4, RoutineGoesOn, PTL DEF Spec
================================================================================

--------------------------- MODULE EventStreamProofs ---------------------------
(***************************************************************************)
(* Proofs about EventStream: type correctness; for sessions whose runs do    *)
(* not overlap, contiguous numbering, gapless delivery and the refinement of *)
(* SessionLog; and for any, that what is delivered is in order.              *)
(***************************************************************************)
EXTENDS EventStream, SequenceTheorems, FiniteSetTheorems, TLAPS

LEMMA FrameTyped ==
  ASSUME NEW t \in Streams, NEW e \in Event
  PROVE  Frame(t, e) \in FrameType
BY DEF Frame, FrameType

LEMMA RowTyped ==
  ASSUME TypeOK, NEW i \in DOMAIN rows
  PROVE  /\ rows[i] \in Event
         /\ rows[i].run \in Runs
         /\ rows[i].seq \in Nat
<1>1. rows \in Seq(Event)
  BY DEF TypeOK
<1>2. rows[i] \in Event
  BY <1>1
<1>3. QED
  BY <1>2 DEF Event

\* A step of the store keeps the types.
LEMMA StoreStepTyped == TypeOK /\ StoreStep => TypeOK'
<1> SUFFICES ASSUME TypeOK, StoreStep PROVE TypeOK'
  OBVIOUS
<1> USE DEF TypeOK
<1>0. UNCHANGED <<connVars, taskVars>>
  BY DEF StoreStep
<1>1. ASSUME NEW s \in Sessions, CreateSession(s) PROVE TypeOK'
  BY <1>0, <1>1 DEF CreateSession, connVars, taskVars
<1>2. ASSUME NEW r \in Runs, NEW s \in Sessions, NumberRun(r, s) PROVE TypeOK'
  BY <1>0, <1>2 DEF NumberRun, connVars, taskVars, Phase
<1>3. ASSUME NEW r \in Runs, RegisterRun(r) PROVE TypeOK'
  <2>1. \A s \in Sessions : Append(runs[s], r) \in Seq(Runs)
    OBVIOUS
  <2>2. runs' \in [Sessions -> Seq(Runs)]
    BY <1>3, <2>1 DEF RegisterRun
  <2>3. QED
    BY <1>0, <1>3, <2>2 DEF RegisterRun, connVars, taskVars, Phase
<1>4. ASSUME NEW r \in Runs, RecordEvent(r) PROVE TypeOK'
  <2>1. [run |-> r, seq |-> counter[r]] \in Event
    BY DEF Event
  <2>2. rows' \in Seq(Event)
    BY <1>4, <2>1 DEF RecordEvent
  <2>3. QED
    BY <1>0, <1>4, <2>2 DEF RecordEvent, connVars, taskVars
<1>5. ASSUME NEW r \in Runs, EndRun(r) PROVE TypeOK'
  BY <1>0, <1>5 DEF EndRun, connVars, taskVars, Phase
<1>6. QED
  BY <1>1, <1>2, <1>3, <1>4, <1>5 DEF StoreStep, StoreNext

\* A step of a connection keeps the types.
LEMMA ConnStepTyped ==
  ASSUME TypeOK, NEW c \in Conns, ConnStep(c)
  PROVE  TypeOK'
<1> USE DEF TypeOK, storeVars, connVars, taskVars
<1>0. ASSUME CanSend(c), Reply(c)
      PROVE  queue' \in [Conns -> Seq({Control} \cup FrameType)]
  BY <1>0 DEF Reply
<1>1. CASE Connect(c)
  BY <1>1 DEF Connect
<1>2. CASE Handshake(c)
  BY <1>0, <1>2 DEF Handshake
<1>3. CASE Refuse(c)
  BY <1>0, <1>3 DEF Refuse
<1>4. CASE HangUp(c)
  BY <1>4 DEF HangUp
<1>5. CASE BadFrame(c) \/ ReaderEnds(c)
  BY <1>5 DEF BadFrame, ReaderEnds
<1>6. CASE PumpWrites(c)
  <2>1. queue' \in [Conns -> Seq({Control} \cup FrameType)]
    BY <1>6 DEF PumpWrites
  <2>2. QED
    BY <1>6, <2>1 DEF PumpWrites
<1>7. CASE PumpFails(c)
  BY <1>7 DEF PumpFails
<1>8. CASE PumpDrains(c)
  BY <1>8 DEF PumpDrains
<1>9. ASSUME NEW t \in Streams, NEW s \in Sessions, NEW from \in ResumePoints,
             Subscribe(c, t, s, from)
      PROVE  TypeOK'
  <2>1. from \in Nat
    BY StreamAssumption
  <2>2. Len(rows) \in Nat
    OBVIOUS
  <2>3. /\ at' \in [Streams -> At]
        /\ conn' \in [Streams -> Conns \cup {NoConn}]
        /\ session' \in [Streams -> Sessions \cup {NoSession}]
        /\ resume' \in [Streams -> Nat]
        /\ last' \in [Streams -> Nat]
        /\ pos' \in [Streams -> Nat]
    BY <1>9, <2>1, <2>2 DEF Subscribe, At
  <2>4. \A u \in Streams : at'[u] # "idle" => conn'[u] \in Conns /\ session'[u] \in Sessions
    BY <1>9 DEF Subscribe
  <2>5. QED
    BY <1>9, <2>3, <2>4 DEF Subscribe
<1>10. QED
  BY <1>1, <1>2, <1>3, <1>4, <1>5, <1>6, <1>7, <1>8, <1>9 DEF ConnStep

\* Forwarding an event keeps the types of the three variables it writes.
LEMMA ForwardTyped ==
  ASSUME TypeOK, NEW t \in Streams, at[t] # "idle", NEW e \in Event, Forward(t, e)
  PROVE  /\ queue' \in [Conns -> Seq({Control} \cup FrameType)]
         /\ sent' \in [Streams -> Seq(Event)]
         /\ last' \in [Streams -> Nat]
<1>1. conn[t] \in Conns /\ Frame(t, e) \in FrameType /\ e.seq \in Nat
  BY FrameTyped DEF TypeOK, Event
<1>2. QED
  BY <1>1 DEF TypeOK, Forward

\* A step of a stream task keeps the types.
LEMMA TaskStepTyped ==
  ASSUME TypeOK, NEW t \in Streams, TaskStep(t)
  PROVE  TypeOK'
<1> USE DEF TypeOK, storeVars, connVars, taskVars, At
<1>1. CASE NoSuchSession(t)
  <2>1. conn[t] \in Conns
    BY <1>1 DEF NoSuchSession
  <2>2. Append(queue[conn[t]], Control) \in Seq({Control} \cup FrameType)
    BY <2>1
  <2>3. queue' \in [Conns -> Seq({Control} \cup FrameType)]
    BY <1>1, <2>2 DEF NoSuchSession, Reply
  <2>4. QED
    BY <1>1, <2>3 DEF NoSuchSession
<1>2. CASE ReadRuns(t)
  BY <1>2 DEF ReadRuns
<1>3. CASE ReadStore(t)
  <2>1. PICK failed \in SUBSET known[t] :
          batch' = [batch EXCEPT ![t] =
            {e \in {rows[i] : i \in DOMAIN rows} :
               e.run \in known[t] \ failed /\ e.seq > last[t]}]
    BY <1>3 DEF ReadStore
  <2>2. {e \in {rows[i] : i \in DOMAIN rows} : e.run \in known[t] \ failed /\ e.seq > last[t]}
          \in SUBSET Event
    BY RowTyped
  <2>3. QED
    BY <1>3, <2>1, <2>2 DEF ReadStore
<1>4. CASE SendStored(t)
  <2>1. PICK e \in batch[t] :
          /\ batch' = [batch EXCEPT ![t] = @ \ {e}]
          /\ IF e.seq > last[t] THEN Forward(t, e) ELSE UNCHANGED <<queue, sent, last>>
    BY <1>4 DEF SendStored
  <2>2. e \in Event
    BY <2>1
  <2>3. /\ queue' \in [Conns -> Seq({Control} \cup FrameType)]
        /\ sent' \in [Streams -> Seq(Event)]
        /\ last' \in [Streams -> Nat]
    BY <1>4, <2>1, <2>2, ForwardTyped DEF SendStored
  <2>4. batch' \in [Streams -> SUBSET Event]
    BY <2>1
  <2>5. QED
    BY <1>4, <2>3, <2>4 DEF SendStored
<1>5. CASE GoLive(t)
  BY <1>5 DEF GoLive
<1>6. CASE RecvLive(t)
  <2>1. rows[pos[t] + 1] \in Event
    BY <1>6, RowTyped DEF RecvLive
  <2>2. /\ queue' \in [Conns -> Seq({Control} \cup FrameType)]
        /\ sent' \in [Streams -> Seq(Event)]
        /\ last' \in [Streams -> Nat]
    BY <1>6, <2>1, ForwardTyped DEF RecvLive
  <2>3. pos' \in [Streams -> Nat]
    BY <1>6 DEF RecvLive
  <2>4. QED
    BY <1>6, <2>2, <2>3 DEF RecvLive
<1>7. CASE RecvLagged(t)
  <2>1. Len(rows) - FeedCapacity \in Nat
    BY <1>7, StreamAssumption DEF RecvLagged, Lagging
  <2>2. QED
    BY <1>7, <2>1 DEF RecvLagged
<1>8. CASE SendFails(t)
  <2>1. at[t] # "idle"
    BY <1>8 DEF SendFails, HasFrame
  <2>2. QED
    BY <1>8, <2>1 DEF SendFails
<1>9. QED
  BY <1>1, <1>2, <1>3, <1>4, <1>5, <1>6, <1>7, <1>8 DEF TaskStep

LEMMA InitTyped == Init => TypeOK
BY DEF Init, StoreInit, TypeOK, Phase, At

LEMMA NextTyped == TypeOK /\ [Next]_vars => TypeOK'
<1> SUFFICES ASSUME TypeOK, [Next]_vars PROVE TypeOK'
  OBVIOUS
<1>1. CASE UNCHANGED vars
  BY <1>1 DEF vars, storeVars, connVars, taskVars, TypeOK
<1>2. QED
  BY <1>1, StoreStepTyped, ConnStepTyped, TaskStepTyped DEF Next

\* The store, the connections and the stream tasks of ipc.rs and server.rs keep
\* their types in every reachable state.
THEOREM TypeCorrect == Spec => []TypeOK
BY InitTyped, NextTyped, PTL DEF Spec

--------------------------------------------------------------------------------
(* The store's invariant.                                                     *)

LEMMA EventIsRow ==
  \A s : \A e : e \in SessionEvents(s) <=>
    \E i \in DOMAIN rows : e = rows[i] /\ Registered(s, rows[i].run)
BY DEF SessionEvents

LEMMA EventTyped ==
  ASSUME TypeOK, NEW s, NEW e \in SessionEvents(s)
  PROVE  e \in Event /\ e.run \in Runs /\ e.seq \in Nat /\ Registered(s, e.run)
BY EventIsRow, RowTyped

\* What only looks at the table and the run lists does not change with them.
LEMMA SameEvents ==
  ASSUME rows' = rows, runs' = runs
  PROVE  /\ \A s, r : Registered(s, r)' <=> Registered(s, r)
         /\ \A s : SessionEvents(s)' = SessionEvents(s)
BY DEF Registered, SessionEvents

\* Registering a run adds it to one run list, and no event: it has no rows yet.
LEMMA RegisterEffect ==
  ASSUME TypeOK, Membership, NEW q \in Runs, RegisterRun(q)
  PROVE  /\ \A s \in Sessions, r \in Runs :
              Registered(s, r)' <=> Registered(s, r) \/ (s = owner[q] /\ r = q)
         /\ \A s \in Sessions : SessionEvents(s)' = SessionEvents(s)
<1>1. owner[q] \in Sessions /\ runs \in [Sessions -> Seq(Runs)] /\ rows' = rows
  BY DEF TypeOK, Membership, RegisterRun
<1>2. ASSUME NEW s \in Sessions, NEW r \in Runs
      PROVE  Registered(s, r)' <=> Registered(s, r) \/ (s = owner[q] /\ r = q)
  <2>1. CASE s = owner[q]
    <3>1. runs'[s] = Append(runs[s], q) /\ runs[s] \in Seq(Runs)
      BY <1>1, <2>1 DEF RegisterRun
    <3>2. /\ DOMAIN runs'[s] = 1 .. Len(runs[s]) + 1
          /\ \A i \in DOMAIN runs[s] : runs'[s][i] = runs[s][i]
          /\ runs'[s][Len(runs[s]) + 1] = q
          /\ DOMAIN runs[s] = 1 .. Len(runs[s]) /\ Len(runs[s]) \in Nat
      BY <3>1
    <3>3. QED
      BY <2>1, <3>2 DEF Registered
  <2>2. CASE s # owner[q]
    <3>1. runs'[s] = runs[s]
      BY <1>1, <2>2 DEF RegisterRun
    <3>2. QED
      BY <2>2, <3>1 DEF Registered
  <2>3. QED
    BY <2>1, <2>2
<1>3. \A i \in DOMAIN rows : rows[i].run # q
  BY DEF Membership, RegisterRun
<1>4. ASSUME NEW s \in Sessions
      PROVE  SessionEvents(s)' = SessionEvents(s)
  <2>1. \A e : e \in SessionEvents(s)' <=>
           \E i \in DOMAIN rows : e = rows[i] /\ \E j \in DOMAIN runs'[s] : runs'[s][j] = e.run
    BY <1>1 DEF SessionEvents, Registered
  <2>2. \A e : e \in SessionEvents(s) <=>
           \E i \in DOMAIN rows : e = rows[i] /\ \E j \in DOMAIN runs[s] : runs[s][j] = e.run
    BY DEF SessionEvents, Registered
  <2>3. \A r \in Runs \ {q} : (\E j \in DOMAIN runs'[s] : runs'[s][j] = r)
                             <=> (\E j \in DOMAIN runs[s] : runs[s][j] = r)
    BY <1>2 DEF Registered
  <2>4. \A i \in DOMAIN rows : rows[i].run \in Runs \ {q}
    BY <1>3, RowTyped
  <2>5. \A e : e \in SessionEvents(s)' <=> e \in SessionEvents(s)
    BY <2>1, <2>2, <2>3, <2>4
  <2>6. QED
    BY <2>5
<1>5. QED
  BY <1>2, <1>4

\* Recording adds one row at the end, an event of its run's session alone.
LEMMA RecordEffect ==
  ASSUME TypeOK, Membership, NEW q \in Runs, RecordEvent(q)
  PROVE  LET new == [run |-> q, seq |-> counter[q]] IN
         /\ new \in Event /\ Len(rows) \in Nat
         /\ DOMAIN rows = 1 .. Len(rows) /\ DOMAIN rows' = 1 .. Len(rows) + 1
         /\ Len(rows') = Len(rows) + 1
         /\ \A i \in 1 .. Len(rows) : rows'[i] = rows[i]
         /\ rows'[Len(rows) + 1] = new
         /\ owner[q] \in Sessions
         /\ \A s, r : Registered(s, r)' <=> Registered(s, r)
         /\ \A s \in Sessions : Registered(s, q) <=> s = owner[q]
         /\ \A s \in Sessions : SessionEvents(s)' =
              IF s = owner[q] THEN SessionEvents(s) \cup {new} ELSE SessionEvents(s)
<1> DEFINE new == [run |-> q, seq |-> counter[q]]
<1>1. new \in Event
  BY DEF TypeOK, Event
<1>2. rows \in Seq(Event) /\ rows' = Append(rows, new) /\ runs' = runs
  BY DEF TypeOK, RecordEvent
<1>3. /\ Len(rows) \in Nat
      /\ DOMAIN rows = 1 .. Len(rows) /\ DOMAIN rows' = 1 .. Len(rows) + 1
      /\ Len(rows') = Len(rows) + 1
      /\ \A i \in 1 .. Len(rows) : rows'[i] = rows[i]
      /\ rows'[Len(rows) + 1] = new
  BY <1>1, <1>2
<1>4. \A s, r : Registered(s, r)' <=> Registered(s, r)
  BY <1>2 DEF Registered
<1>5. owner[q] \in Sessions /\ \A s \in Sessions : Registered(s, q) <=> s = owner[q]
  BY DEF Membership, RecordEvent
<1>6. ASSUME NEW s \in Sessions
      PROVE  SessionEvents(s)' =
              IF s = owner[q] THEN SessionEvents(s) \cup {new} ELSE SessionEvents(s)
  <2>1. \A e : e \in SessionEvents(s)' <=>
           \E i \in 1 .. Len(rows) + 1 : e = rows'[i] /\ Registered(s, e.run)
    BY <1>2, <1>3 DEF SessionEvents, Registered
  <2>2. \A e : e \in SessionEvents(s)' <=>
           \/ \E i \in 1 .. Len(rows) : e = rows[i] /\ Registered(s, rows[i].run)
           \/ e = new /\ Registered(s, new.run)
    BY <1>3, <2>1
  <2>3. \A e : e \in SessionEvents(s)' <=>
           e \in SessionEvents(s) \/ (e = new /\ s = owner[q])
    BY <1>3, <1>5, <2>2, EventIsRow
  <2>4. QED
    BY <2>3
<1>7. QED
  BY <1>1, <1>3, <1>4, <1>5, <1>6

LEMMA StoreInvInit == Init => StoreInv
BY DEF Init, StoreInit, StoreInv, Membership, OneBusyRun, CounterIsNext,
       ContiguousNumbering, Registered, SessionEvents

\* The numbering parts speak of the table and the run lists alone.
LEMMA NumberingKept ==
  ASSUME ContiguousNumbering, rows' = rows, \A s \in Sessions : SessionEvents(s)' = SessionEvents(s),
         \A s \in Sessions : \A i \in DOMAIN rows :
            (\E j \in DOMAIN runs'[s] : runs'[s][j] = rows[i].run)
            <=> (\E j \in DOMAIN runs[s] : runs[s][j] = rows[i].run)
  PROVE  ContiguousNumbering'
BY DEF ContiguousNumbering, Registered

LEMMA StoreInvKept ==
  StoreInv /\ UNCHANGED <<rows, runs, phase, owner, counter>> => StoreInv'
BY DEF StoreInv, Membership, OneBusyRun, CounterIsNext, ContiguousNumbering,
       Registered, SessionEvents

\* A new run starts from the number after its session's last event.
LEMMA NumberRunKeeps ==
  ASSUME OneRunAtATime, TypeOK, StoreInv, NEW r \in Runs, NEW s \in Sessions, NumberRun(r, s)
  PROVE  StoreInv'
<1>1. /\ phase[r] = "new" /\ ~Busy(s)
      /\ rows' = rows /\ runs' = runs
      /\ owner' = [owner EXCEPT ![r] = s]
      /\ phase' = [phase EXCEPT ![r] = "numbered"]
  BY DEF NumberRun
<1>2. PICK n \in 1 .. Len(rows) + 1 :
        IsNextSequence(s, n) /\ counter' = [counter EXCEPT ![r] = n]
  BY DEF NumberRun
<1>3. /\ \A z, q : Registered(z, q)' <=> Registered(z, q)
      /\ \A z : SessionEvents(z)' = SessionEvents(z)
  BY <1>1, SameEvents
<1>4. Membership'
  BY <1>1, <1>3, RowTyped DEF StoreInv, Membership, TypeOK
<1>5. OneBusyRun'
  BY <1>1 DEF StoreInv, OneBusyRun, Busy, TypeOK
<1>6. CounterIsNext'
  <2> SUFFICES ASSUME NEW q \in Runs, phase'[q] \in {"numbered", "recording"}
               PROVE  /\ counter'[q] >= FirstEventSequence
                      /\ \A e \in SessionEvents(owner'[q]) : e.seq < counter'[q]
                      /\ \/ counter'[q] = FirstEventSequence
                         \/ \E e \in SessionEvents(owner'[q]) : e.seq = counter'[q] - 1
    BY <1>3 DEF CounterIsNext
  <2>1. CASE q = r
    <3>1. counter'[q] = n /\ owner'[q] = s /\ n \in Nat /\ n >= 1
      BY <1>1, <1>2, <2>1 DEF TypeOK
    <3>2. \A e \in SessionEvents(s) : e.seq \in Nat
      BY EventTyped
    <3>3. QED
      BY <1>2, <3>1, <3>2 DEF IsNextSequence, FirstEventSequence
  <2>2. CASE q # r
    <3>1. counter'[q] = counter[q] /\ owner'[q] = owner[q] /\ phase'[q] = phase[q]
      BY <1>1, <1>2, <2>2 DEF TypeOK
    <3>2. QED
      BY <3>1 DEF StoreInv, CounterIsNext
  <2>3. QED
    BY <2>1, <2>2
<1>7. ContiguousNumbering'
  BY <1>1, <1>3 DEF StoreInv, ContiguousNumbering, Registered
<1>8. QED
  BY <1>4, <1>5, <1>6, <1>7 DEF StoreInv

LEMMA RegisterRunKeeps ==
  ASSUME TypeOK, StoreInv, NEW r \in Runs, RegisterRun(r)
  PROVE  StoreInv'
<1>1. /\ phase[r] = "numbered"
      /\ rows' = rows /\ owner' = owner /\ counter' = counter
      /\ phase' = [phase EXCEPT ![r] = "recording"]
      /\ runs' = [runs EXCEPT ![owner[r]] = Append(@, r)]
  BY DEF RegisterRun
<1>2. /\ \A z \in Sessions, q \in Runs :
           Registered(z, q)' <=> Registered(z, q) \/ (z = owner[r] /\ q = r)
      /\ \A z \in Sessions : SessionEvents(z)' = SessionEvents(z)
  BY RegisterEffect DEF StoreInv
<1>3. Membership'
  BY <1>1, <1>2, RowTyped DEF StoreInv, Membership, TypeOK
<1>4. OneBusyRun'
  BY <1>1 DEF StoreInv, OneBusyRun, TypeOK
<1>5. CounterIsNext'
  BY <1>1, <1>2 DEF StoreInv, CounterIsNext, Membership, TypeOK
<1>6. ContiguousNumbering'
  <2>1. \A i \in DOMAIN rows : rows[i].run \in Runs /\ rows[i].run # r
    BY <1>1, RowTyped DEF StoreInv, Membership
  <2>2. \A z \in Sessions : \A i \in DOMAIN rows :
            (\E j \in DOMAIN runs'[z] : runs'[z][j] = rows[i].run)
            <=> (\E j \in DOMAIN runs[z] : runs[z][j] = rows[i].run)
    BY <1>2, <2>1 DEF Registered
  <2>3. QED
    BY <1>1, <1>2, <2>2, NumberingKept DEF StoreInv
<1>7. QED
  BY <1>3, <1>4, <1>5, <1>6 DEF StoreInv

LEMMA EndRunKeeps ==
  ASSUME TypeOK, StoreInv, NEW r \in Runs, EndRun(r)
  PROVE  StoreInv'
<1>1. /\ phase[r] = "recording"
      /\ rows' = rows /\ owner' = owner /\ counter' = counter /\ runs' = runs
      /\ phase' = [phase EXCEPT ![r] = "over"]
  BY DEF EndRun
<1>2. /\ \A z, q : Registered(z, q)' <=> Registered(z, q)
      /\ \A z : SessionEvents(z)' = SessionEvents(z)
  BY <1>1, SameEvents
<1>3. Membership'
  BY <1>1, <1>2, RowTyped DEF StoreInv, Membership, TypeOK
<1>4. OneBusyRun'
  BY <1>1 DEF StoreInv, OneBusyRun, TypeOK
<1>5. CounterIsNext'
  BY <1>1, <1>2 DEF StoreInv, CounterIsNext, TypeOK
<1>6. ContiguousNumbering'
  BY <1>1, <1>2 DEF StoreInv, ContiguousNumbering, Registered
<1>7. QED
  BY <1>3, <1>4, <1>5, <1>6 DEF StoreInv

\* Recording: the one row added is the next of its session, and of no other.
LEMMA RecordEventKeeps ==
  ASSUME TypeOK, StoreInv, NEW q \in Runs, RecordEvent(q)
  PROVE  StoreInv'
<1> DEFINE new == [run |-> q, seq |-> counter[q]]
           N == Len(rows)
           S == owner[q]
<1>1. /\ phase[q] = "recording"
      /\ owner' = owner /\ phase' = phase /\ runs' = runs
      /\ counter' = [counter EXCEPT ![q] = @ + 1]
  BY DEF RecordEvent
<1>2. /\ new \in Event /\ N \in Nat
      /\ DOMAIN rows = 1 .. N /\ DOMAIN rows' = 1 .. N + 1
      /\ \A i \in 1 .. N : rows'[i] = rows[i]
      /\ rows'[N + 1] = new
      /\ S \in Sessions
      /\ \A z, r : Registered(z, r)' <=> Registered(z, r)
      /\ \A z \in Sessions : Registered(z, q) <=> z = S
      /\ \A z \in Sessions : SessionEvents(z)' =
            IF z = S THEN SessionEvents(z) \cup {new} ELSE SessionEvents(z)
  BY RecordEffect DEF StoreInv
<1>3. /\ counter[q] \in Nat /\ counter[q] >= FirstEventSequence
      /\ \A e \in SessionEvents(S) : e.seq < counter[q] /\ e.seq \in Nat
      /\ \/ counter[q] = FirstEventSequence
         \/ \E e \in SessionEvents(S) : e.seq = counter[q] - 1
      /\ new.seq = counter[q] /\ new.run = q /\ counter'[q] = counter[q] + 1
  BY <1>1, EventTyped DEF StoreInv, CounterIsNext, TypeOK
<1>4. Membership'
  <2>1. \A i \in DOMAIN rows' : phase[rows'[i].run] \in {"recording", "over"}
    BY <1>1, <1>2, <1>3 DEF StoreInv, Membership
  <2>2. QED
    BY <1>1, <1>2, <2>1 DEF StoreInv, Membership
<1>5. OneBusyRun'
  BY <1>1 DEF StoreInv, OneBusyRun
<1>6. CounterIsNext'
  <2> SUFFICES ASSUME NEW r \in Runs, phase[r] \in {"numbered", "recording"}
               PROVE  /\ counter'[r] >= FirstEventSequence
                      /\ \A e \in SessionEvents(owner[r])' : e.seq < counter'[r]
                      /\ \/ counter'[r] = FirstEventSequence
                         \/ \E e \in SessionEvents(owner[r])' : e.seq = counter'[r] - 1
    BY <1>1 DEF CounterIsNext
  <2>1. CASE r = q
    <3>1. SessionEvents(owner[r])' = SessionEvents(S) \cup {new}
      BY <1>1, <1>2, <2>1
    <3>2. \A e \in SessionEvents(S) \cup {new} : e.seq < counter'[r]
      BY <1>3, <2>1
    <3>3. new.seq = counter'[r] - 1 /\ counter'[r] >= FirstEventSequence
      BY <1>3, <2>1 DEF FirstEventSequence
    <3>4. QED
      BY <3>1, <3>2, <3>3
  <2>2. CASE r # q
    <3>1. owner[r] # S /\ owner[r] \in Sessions
      BY <1>1, <2>2 DEF StoreInv, OneBusyRun, Membership
    <3>2. SessionEvents(owner[r])' = SessionEvents(owner[r]) /\ counter'[r] = counter[r]
      BY <1>1, <1>2, <2>2, <3>1 DEF TypeOK
    <3>3. QED
      BY <3>2 DEF StoreInv, CounterIsNext
  <2>3. QED
    BY <2>1, <2>2
<1>7. ContiguousNumbering'
  <2> SUFFICES ASSUME NEW z \in Sessions
               PROVE  /\ \A i, j \in DOMAIN rows' :
                           i < j /\ Registered(z, rows[i].run)' /\ Registered(z, rows[j].run)'
                           => rows'[i].seq < rows'[j].seq
                      /\ \A e \in SessionEvents(z)' : \A n \in FirstEventSequence .. e.seq :
                           \E f \in SessionEvents(z)' : f.seq = n
    BY DEF ContiguousNumbering
  <2>1. ASSUME NEW i \in 1 .. N + 1, NEW j \in 1 .. N + 1, i < j,
               Registered(z, rows'[i].run), Registered(z, rows'[j].run)
        PROVE  rows'[i].seq < rows'[j].seq
    <3>1. i \in 1 .. N /\ rows'[i] = rows[i]
      BY <1>2, <2>1
    <3>2. CASE j = N + 1
      <4>1. z = S
        BY <1>2, <1>3, <2>1, <3>2
      <4>2. rows[i] \in SessionEvents(S)
        BY <1>2, <2>1, <3>1, <4>1, EventIsRow
      <4>3. QED
        BY <1>2, <1>3, <3>1, <3>2, <4>2
    <3>3. CASE j # N + 1
      <4>1. j \in 1 .. N /\ rows'[j] = rows[j]
        BY <1>2, <3>3
      <4>2. QED
        BY <1>2, <2>1, <3>1, <4>1 DEF StoreInv, ContiguousNumbering
    <3>4. QED
      BY <3>2, <3>3
  <2>2. \A i, j \in DOMAIN rows' :
           i < j /\ Registered(z, rows[i].run)' /\ Registered(z, rows[j].run)'
           => rows'[i].seq < rows'[j].seq
    BY <1>1, <1>2, <2>1 DEF Registered
  <2>3. ASSUME NEW e \in SessionEvents(z)', NEW n \in FirstEventSequence .. e.seq
        PROVE  \E f \in SessionEvents(z)' : f.seq = n
    <3>1. CASE z = S
      <4>1. SessionEvents(z)' = SessionEvents(S) \cup {new}
        BY <1>2, <3>1
      <4>2. \A f \in SessionEvents(S) : \A m \in FirstEventSequence .. f.seq :
               \E g \in SessionEvents(S) : g.seq = m
        BY <1>2 DEF StoreInv, ContiguousNumbering
      <4>3. e.seq \in Nat /\ e.seq <= counter[q]
        BY <1>3, <4>1
      <4>4. CASE n = counter[q]
        BY <1>3, <4>1, <4>4
      <4>5. CASE n < counter[q]
        <5>1. PICK f \in SessionEvents(S) : f.seq = counter[q] - 1
          BY <1>3, <4>5 DEF FirstEventSequence
        <5>2. n \in FirstEventSequence .. f.seq
          BY <1>3, <4>3, <4>5, <5>1 DEF FirstEventSequence
        <5>3. QED
          BY <4>1, <4>2, <5>2
      <4>6. QED
        BY <1>3, <4>3, <4>4, <4>5 DEF FirstEventSequence
    <3>2. CASE z # S
      BY <1>2, <3>2 DEF StoreInv, ContiguousNumbering
    <3>3. QED
      BY <3>1, <3>2
  <2>4. QED
    BY <2>2, <2>3
<1>8. QED
  BY <1>4, <1>5, <1>6, <1>7 DEF StoreInv

LEMMA StoreStepKeeps ==
  ASSUME OneRunAtATime, TypeOK, StoreInv, StoreStep
  PROVE  StoreInv'
<1>1. ASSUME NEW s \in Sessions, CreateSession(s) PROVE StoreInv'
  BY <1>1, StoreInvKept DEF CreateSession
<1>2. QED
  BY <1>1, NumberRunKeeps, RegisterRunKeeps, RecordEventKeeps, EndRunKeeps
  DEF StoreStep, StoreNext

LEMMA StoreInvNext ==
  ASSUME OneRunAtATime
  PROVE  TypeOK /\ StoreInv /\ [Next]_vars => StoreInv'
<1> SUFFICES ASSUME TypeOK, StoreInv, [Next]_vars PROVE StoreInv'
  OBVIOUS
<1>1. CASE StoreStep
  BY <1>1, StoreStepKeeps
<1>2. ASSUME NEW c \in Conns, ConnStep(c) PROVE UNCHANGED storeVars
  BY <1>2 DEF ConnStep, Connect, Handshake, Refuse, HangUp, BadFrame, ReaderEnds, PumpWrites, PumpFails,
              PumpDrains, Subscribe
<1>3. ASSUME NEW t \in Streams, TaskStep(t) PROVE UNCHANGED storeVars
  BY <1>3 DEF TaskStep, NoSuchSession, ReadRuns, ReadStore, SendStored, GoLive, RecvLive,
              RecvLagged, SendFails
<1>4. ASSUME UNCHANGED vars PROVE UNCHANGED storeVars
  BY <1>4 DEF vars
<1>5. StoreStep \/ UNCHANGED storeVars
  BY <1>2, <1>3, <1>4 DEF Next
<1>6. CASE UNCHANGED storeVars
  BY <1>6, StoreInvKept DEF storeVars
<1>7. QED
  BY <1>1, <1>5, <1>6

\* A session whose runs do not overlap numbers its events 1, 2, 3, ... without a
\* gap over all of its runs, whatever runs fail or stop half-way.
THEOREM NumberingIsContiguous ==
  ASSUME OneRunAtATime
  PROVE  Spec => []ContiguousNumbering
<1>1. Init => TypeOK /\ StoreInv
  BY InitTyped, StoreInvInit
<1>2. TypeOK /\ StoreInv /\ [Next]_vars => TypeOK' /\ StoreInv'
  BY NextTyped, StoreInvNext
<1>3. StoreInv => ContiguousNumbering
  BY DEF StoreInv
<1>4. QED
  BY <1>1, <1>2, <1>3, PTL DEF Spec

--------------------------------------------------------------------------------
(* The invariant of one stream task.                                          *)

StreamInv(t) ==
  /\ at[t] = "idle" => sent[t] = <<>>
  /\ last[t] = resume[t] + Len(sent[t])
  /\ pos[t] <= Len(rows)
  /\ ReadingIsSafe(t)
  /\ SendingIsSafe(t)
  /\ LiveIsSafe(t)
  /\ \A k \in DOMAIN sent[t] :
       sent[t][k] \in SessionEvents(session[t]) /\ sent[t][k].seq = resume[t] + k

LEMMA StreamInvAll ==
  (\A t \in Streams : StreamInv(t)) <=> CursorCounts /\ TasksSafe /\ GaplessDelivery
BY DEF StreamInv, CursorCounts, TasksSafe, GaplessDelivery

\* What a step of the store may do to a session: nothing, one more registered run
\* while the others are over, or one more event after all the others.
GrowthOf(s) ==
  /\ Len(rows) <= Len(rows')
  /\ \A i \in 1 .. Len(rows) : rows'[i] = rows[i]
  /\ \A r \in Runs : Registered(s, r) => Registered(s, r)'
  /\ \A i \in 1 .. Len(rows) : Registered(s, rows[i].run)' => Registered(s, rows[i].run)
  /\ \A r \in Runs : phase[r] = "over" => phase'[r] = "over"
  /\ \A r \in Runs : Registered(s, r)' /\ ~Registered(s, r)
       => \A q \in Runs : Registered(s, q) => phase[q] = "over"
  /\ SessionEvents(s) \subseteq SessionEvents(s)'
  /\ \A e, f \in SessionEvents(s)' :
       e \notin SessionEvents(s) =>
         /\ Registered(s, e.run) /\ phase[e.run] = "recording"
         /\ f \in SessionEvents(s) => f.seq < e.seq
         /\ f \notin SessionEvents(s) => f = e

LEMMA StoreGrowth ==
  ASSUME TypeOK, StoreInv, StoreStep, NEW s \in Sessions
  PROVE  GrowthOf(s)
<1>1. rows \in Seq(Event) /\ Len(rows) \in Nat /\ DOMAIN rows = 1 .. Len(rows)
  BY DEF TypeOK
<1>2. ASSUME rows' = rows, runs' = runs,
             \A r \in Runs : phase[r] = "over" => phase'[r] = "over"
      PROVE  GrowthOf(s)
  BY <1>1, <1>2 DEF GrowthOf, Registered, SessionEvents
<1>3. ASSUME NEW z \in Sessions, CreateSession(z) PROVE GrowthOf(s)
  BY <1>2, <1>3 DEF CreateSession
<1>4. ASSUME NEW r \in Runs, NEW z \in Sessions, NumberRun(r, z) PROVE GrowthOf(s)
  <2>1. \A q \in Runs : phase[q] = "over" => phase'[q] = "over"
    BY <1>4 DEF NumberRun, TypeOK
  <2>2. QED
    BY <1>2, <1>4, <2>1 DEF NumberRun
<1>5. ASSUME NEW q \in Runs, EndRun(q) PROVE GrowthOf(s)
  <2>1. \A r \in Runs : phase[r] = "over" => phase'[r] = "over"
    BY <1>5 DEF EndRun, TypeOK
  <2>2. QED
    BY <1>2, <1>5, <2>1 DEF EndRun
<1>6. ASSUME NEW q \in Runs, RegisterRun(q) PROVE GrowthOf(s)
  <2>1. /\ rows' = rows /\ phase[q] = "numbered"
        /\ phase' = [phase EXCEPT ![q] = "recording"]
    BY <1>6 DEF RegisterRun
  <2>2. /\ \A r \in Runs : Registered(s, r)' <=> Registered(s, r) \/ (s = owner[q] /\ r = q)
        /\ SessionEvents(s)' = SessionEvents(s)
    BY <1>6, RegisterEffect DEF StoreInv
  <2>3. \A i \in 1 .. Len(rows) : rows[i].run \in Runs /\ rows[i].run # q
    BY <1>1, <2>1, RowTyped DEF StoreInv, Membership
  <2>4. \A i \in 1 .. Len(rows) : Registered(s, rows[i].run)' => Registered(s, rows[i].run)
    BY <2>1, <2>2, <2>3 DEF Registered
  <2>5. \A r \in Runs : phase[r] = "over" => phase'[r] = "over"
    BY <2>1 DEF TypeOK
  <2>6. ASSUME s = owner[q], NEW r \in Runs, Registered(s, r)
        PROVE  phase[r] = "over"
    BY <2>1, <2>6 DEF StoreInv, Membership, OneBusyRun
  <2>7. QED
    BY <1>1, <2>1, <2>2, <2>4, <2>5, <2>6 DEF GrowthOf
<1>7. ASSUME NEW q \in Runs, RecordEvent(q) PROVE GrowthOf(s)
  <2> DEFINE new == [run |-> q, seq |-> counter[q]]
  <2>1. /\ Len(rows') = Len(rows) + 1
        /\ \A i \in 1 .. Len(rows) : rows'[i] = rows[i]
        /\ Registered(s, q) <=> s = owner[q]
        /\ SessionEvents(s)' =
             IF s = owner[q] THEN SessionEvents(s) \cup {new} ELSE SessionEvents(s)
    BY <1>7, RecordEffect DEF StoreInv
  <2>2. phase' = phase /\ phase[q] = "recording" /\ runs' = runs
    BY <1>7 DEF RecordEvent
  <2>3. \A f \in SessionEvents(owner[q]) : f.seq < new.seq
    BY <2>2 DEF StoreInv, CounterIsNext
  <2>4. /\ \A r \in Runs : Registered(s, r)' <=> Registered(s, r)
        /\ \A i \in 1 .. Len(rows) : Registered(s, rows[i].run)' => Registered(s, rows[i].run)
    BY <2>1, <2>2 DEF Registered
  <2>5. new.run = q
    OBVIOUS
  <2>6. QED
    BY <1>1, <2>1, <2>2, <2>3, <2>4, <2>5 DEF GrowthOf
<1>8. QED
  BY <1>3, <1>4, <1>5, <1>6, <1>7 DEF StoreStep, StoreNext

\* A growing store leaves a stream's promise standing, wherever the task is.
LEMMA StoreStepKeepsStream ==
  ASSUME TypeOK, StoreInv, StoreStep, NEW t \in Streams, StreamInv(t)
  PROVE  StreamInv(t)'
<1>1. /\ at' = at /\ session' = session /\ resume' = resume /\ last' = last
      /\ pos' = pos /\ known' = known /\ batch' = batch /\ sent' = sent
  BY DEF StoreStep, taskVars
<1>0. TypeOK'
  BY StoreStepTyped
<1>2. CASE at[t] = "idle"
  <2>1. sent[t] = <<>> /\ Len(rows) <= Len(rows')
    <3>1. PICK s \in Sessions : TRUE
      BY DEF StoreStep, StoreNext, CreateSession, NumberRun, RegisterRun, RecordEvent, EndRun,
             StoreInv, Membership
    <3>2. QED
      BY <1>2, <3>1, StoreGrowth DEF GrowthOf, StreamInv
  <2>2. pos[t] \in Nat /\ Len(rows) \in Nat /\ Len(rows') \in Nat
    BY <1>0 DEF TypeOK
  <2>3. QED
    BY <1>1, <1>2, <2>1, <2>2
    DEF StreamInv, ReadingIsSafe, SendingIsSafe, LiveIsSafe
<1>3. CASE at[t] # "idle"
  <2> DEFINE s == session[t]
  <2>1. s \in Sessions
    BY <1>3 DEF TypeOK
  <2>2. GrowthOf(s)
    BY <2>1, StoreGrowth
  <2>3. /\ pos[t] \in Nat /\ Len(rows) \in Nat /\ Len(rows') \in Nat
        /\ \A i \in 1 .. Len(rows) : rows[i].run \in Runs /\ rows[i].seq \in Nat
        /\ known[t] \subseteq Runs
    <3>1. rows \in Seq(Event) /\ rows' \in Seq(Event)
      BY <1>0 DEF TypeOK
    <3>2. Len(rows) \in Nat /\ Len(rows') \in Nat /\ DOMAIN rows = 1 .. Len(rows)
      BY <3>1
    <3>3. QED
      BY <3>2, RowTyped DEF TypeOK
  <2>4. \A i \in 1 .. pos[t] : i \in 1 .. Len(rows) /\ rows'[i] = rows[i]
    BY <2>2, <2>3 DEF GrowthOf, StreamInv
  <2>5. \A i \in 1 .. pos[t] : Registered(s, rows[i].run)' => Registered(s, rows[i].run)
    BY <2>2, <2>4 DEF GrowthOf
  <2>6. ReadingIsSafe(t)'
    <3> SUFFICES ASSUME at[t] = "reading"
                 PROVE  ReadingIsSafe(t)'
      BY <1>1 DEF ReadingIsSafe
    <3>1. \A r \in known[t] : Registered(s, r)'
      BY <2>2, <2>3 DEF GrowthOf, StreamInv, ReadingIsSafe
    <3>2. \A i \in 1 .. pos[t] : Registered(s, rows[i].run)' => rows'[i].run \in known[t]
      BY <2>4, <2>5 DEF StreamInv, ReadingIsSafe
    <3>3. ASSUME NEW r \in Runs, Registered(s, r)', r \notin known[t], NEW q \in known[t]
          PROVE  phase'[q] = "over"
      <4>1. phase[q] = "over"
        BY <2>2, <2>3, <3>3 DEF GrowthOf, StreamInv, ReadingIsSafe
      <4>2. QED
        BY <2>2, <2>3, <4>1 DEF GrowthOf
    <3>4. ASSUME NEW e \in SessionEvents(s)', NEW f \in SessionEvents(s)',
                 e.run \in known[t], f.run \notin known[t]
          PROVE  e.seq < f.seq
      <4>1. CASE e \in SessionEvents(s) /\ f \in SessionEvents(s)
        BY <3>4, <4>1 DEF StreamInv, ReadingIsSafe
      <4>2. CASE f \notin SessionEvents(s)
        BY <2>2, <3>4, <4>2 DEF GrowthOf
      <4>3. CASE e \notin SessionEvents(s) /\ f \in SessionEvents(s)
        <5>1. phase[e.run] = "recording"
          BY <2>2, <4>3 DEF GrowthOf
        <5>2. f.run \in Runs /\ Registered(s, f.run)
          BY <4>3, EventTyped
        <5>3. phase[e.run] = "over"
          BY <3>4, <5>2 DEF StreamInv, ReadingIsSafe
        <5>4. QED
          BY <5>1, <5>3
      <4>4. QED
        BY <4>1, <4>2, <4>3
    <3>5. QED
      BY <1>1, <3>1, <3>2, <3>3, <3>4 DEF ReadingIsSafe, Registered
  <2>7. SendingIsSafe(t)'
    <3> SUFFICES ASSUME at[t] = "sending"
                 PROVE  SendingIsSafe(t)'
      BY <1>1 DEF SendingIsSafe
    <3>1. batch[t] \subseteq SessionEvents(s) /\ batch[t] \subseteq SessionEvents(s)'
      BY <2>2 DEF GrowthOf, StreamInv, SendingIsSafe
    <3>2. \A i \in 1 .. pos[t] :
            Registered(s, rows[i].run)' => rows'[i].seq <= last[t] \/ rows'[i] \in batch[t]
      BY <2>4, <2>5 DEF StreamInv, SendingIsSafe
    <3>3. ASSUME NEW b \in batch[t], NEW e \in SessionEvents(s)', last[t] < e.seq, e.seq <= b.seq
          PROVE  e \in batch[t]
      <4>1. b \in SessionEvents(s) /\ b.seq \in Nat
        BY <3>1, EventTyped
      <4>2. e \in SessionEvents(s)
        <5>1. SUFFICES ASSUME e \notin SessionEvents(s) PROVE FALSE
          OBVIOUS
        <5>2. b.seq < e.seq
          BY <2>2, <3>1, <4>1, <5>1 DEF GrowthOf
        <5>3. e.seq \in Nat
          <6>1. PICK i \in DOMAIN rows' : e = rows'[i]
            BY DEF SessionEvents
          <6>2. rows' \in Seq(Event)
            BY <1>0 DEF TypeOK
          <6>3. e \in Event
            BY <6>1, <6>2
          <6>4. QED
            BY <6>3 DEF Event
        <5>4. QED
          BY <3>3, <4>1, <5>2, <5>3
      <4>3. QED
        BY <3>3, <4>2 DEF StreamInv, SendingIsSafe
    <3>4. QED
      BY <1>1, <3>1, <3>2, <3>3 DEF SendingIsSafe, Registered
  <2>8. LiveIsSafe(t)'
    <3> SUFFICES ASSUME at[t] = "live"
                 PROVE  LiveIsSafe(t)'
      BY <1>1 DEF LiveIsSafe
    <3>1. \A i \in 1 .. pos[t] : Registered(s, rows[i].run)' => rows'[i].seq <= last[t]
      BY <2>4, <2>5 DEF StreamInv, LiveIsSafe
    <3>2. QED
      BY <1>1, <3>1 DEF LiveIsSafe, Registered
  <2>9. \A k \in DOMAIN sent[t] :
           sent[t][k] \in SessionEvents(s)' /\ sent[t][k].seq = resume[t] + k
    BY <2>2 DEF StreamInv, GrowthOf
  <2>10. pos[t] <= Len(rows')
    BY <2>2, <2>3 DEF StreamInv, GrowthOf
  <2>11. (session[t])' = s
    BY <1>1
  <2>12. QED
    BY <1>1, <1>3, <2>6, <2>7, <2>8, <2>9, <2>10, <2>11 DEF StreamInv
<1>4. QED
  BY <1>2, <1>3

\* A step that touches neither the store nor this task's own variables.
LEMMA StreamKept ==
  ASSUME NEW t \in Streams, StreamInv(t), UNCHANGED <<rows, runs, phase>>,
         at'[t] = at[t], session'[t] = session[t], resume'[t] = resume[t], last'[t] = last[t],
         pos'[t] = pos[t], known'[t] = known[t], batch'[t] = batch[t], sent'[t] = sent[t]
  PROVE  StreamInv(t)'
BY DEF StreamInv, ReadingIsSafe, SendingIsSafe, LiveIsSafe, Registered, SessionEvents

\* The first stored event past the cursor is the one numbered right after it.
LEMMA NextNumber ==
  ASSUME TypeOK, ContiguousNumbering, NEW t \in Streams, session[t] \in Sessions,
         NEW e \in SessionEvents(session[t]), last[t] < e.seq,
         \A f \in SessionEvents(session[t]) : last[t] < f.seq => e.seq <= f.seq
  PROVE  e.seq = last[t] + 1
<1>1. e.seq \in Nat /\ last[t] \in Nat
  BY EventTyped DEF TypeOK
<1>2. last[t] + 1 \in FirstEventSequence .. e.seq
  BY <1>1 DEF FirstEventSequence
<1>3. PICK f \in SessionEvents(session[t]) : f.seq = last[t] + 1
  BY <1>2 DEF ContiguousNumbering
<1>4. QED
  BY <1>1, <1>3

\* Forwarding that event keeps the cursor and the history in step.
LEMMA ForwardKeeps ==
  ASSUME TypeOK, NEW t \in Streams, StreamInv(t), NEW e \in SessionEvents(session[t]),
         e.seq = last[t] + 1, Forward(t, e)
  PROVE  /\ last'[t] = resume[t] + Len(sent'[t])
         /\ last'[t] = e.seq
         /\ \A k \in DOMAIN sent'[t] :
              sent'[t][k] \in SessionEvents(session[t]) /\ sent'[t][k].seq = resume[t] + k
<1>1. e \in Event /\ sent[t] \in Seq(Event) /\ resume[t] \in Nat /\ last[t] \in Nat
  BY EventTyped DEF TypeOK
<1>2. sent'[t] = Append(sent[t], e) /\ last'[t] = e.seq
  BY DEF Forward, TypeOK
<1>3. /\ Len(sent[t]) \in Nat /\ Len(sent'[t]) = Len(sent[t]) + 1
      /\ DOMAIN sent[t] = 1 .. Len(sent[t]) /\ DOMAIN sent'[t] = 1 .. Len(sent[t]) + 1
      /\ \A k \in 1 .. Len(sent[t]) : sent'[t][k] = sent[t][k]
      /\ sent'[t][Len(sent[t]) + 1] = e
  BY <1>1, <1>2
<1>4. last[t] = resume[t] + Len(sent[t])
  BY DEF StreamInv
<1>5. ASSUME NEW k \in DOMAIN sent'[t]
      PROVE  sent'[t][k] \in SessionEvents(session[t]) /\ sent'[t][k].seq = resume[t] + k
  <2>1. CASE k = Len(sent[t]) + 1
    <3>1. sent'[t][k] = e
      BY <1>3, <2>1
    <3>2. e.seq = resume[t] + k
      BY <1>1, <1>3, <1>4, <2>1
    <3>3. QED
      BY <3>1, <3>2
  <2>2. CASE k # Len(sent[t]) + 1
    <3>1. k \in DOMAIN sent[t] /\ sent'[t][k] = sent[t][k]
      BY <1>3, <2>2
    <3>2. QED
      BY <3>1 DEF StreamInv
  <2>3. QED
    BY <2>1, <2>2
<1>6. last'[t] = resume[t] + Len(sent'[t])
  BY <1>1, <1>2, <1>3, <1>4
<1>7. QED
  BY <1>2, <1>5, <1>6

\* Taking the run list, from whichever place, starts a safe read.
LEMMA RunListRead ==
  ASSUME TypeOK, NEW t \in Streams, StreamInv(t), session[t] \in Sessions, UNCHANGED storeVars,
         at'[t] = "reading", known'[t] = {r \in Runs : Registered(session[t], r)},
         session'[t] = session[t], resume'[t] = resume[t], last'[t] = last[t],
         sent'[t] = sent[t], pos'[t] \in Nat, pos'[t] <= Len(rows)
  PROVE  StreamInv(t)'
<1>1. /\ rows' = rows /\ runs' = runs /\ phase' = phase
      /\ \A s, r : Registered(s, r)' <=> Registered(s, r)
      /\ \A s : SessionEvents(s)' = SessionEvents(s)
  BY SameEvents DEF storeVars
<1>2. \A i \in 1 .. pos'[t] : i \in DOMAIN rows /\ rows[i].run \in Runs
  BY RowTyped DEF TypeOK
<1>3. \A f \in SessionEvents(session[t]) : f.run \in known'[t]
  BY EventTyped
<1>4. ReadingIsSafe(t)'
  <2>1. \A r \in known'[t] : Registered(session[t], r)
    OBVIOUS
  <2>2. \A i \in 1 .. pos'[t] : Registered(session[t], rows[i].run) => rows[i].run \in known'[t]
    BY <1>2
  <2>3. QED
    BY <1>1, <1>3, <2>1, <2>2 DEF ReadingIsSafe, Registered
<1>5. QED
  BY <1>1, <1>4 DEF StreamInv, SendingIsSafe, LiveIsSafe

LEMMA TaskStepKeepsStream ==
  ASSUME ~ReadsMayFail, TypeOK, StoreInv, NEW t \in Streams, StreamInv(t), TaskStep(t)
  PROVE  StreamInv(t)'
<1> DEFINE s == session[t]
<1>1. /\ UNCHANGED storeVars
      /\ session' = session /\ resume' = resume
  BY DEF TaskStep, NoSuchSession, ReadRuns, ReadStore, SendStored, GoLive, RecvLive, RecvLagged,
         SendFails
<1>2. /\ rows' = rows /\ runs' = runs /\ phase' = phase
      /\ \A z, r : Registered(z, r)' <=> Registered(z, r)
      /\ \A z : SessionEvents(z)' = SessionEvents(z)
  BY <1>1, SameEvents DEF storeVars
<1>3. at[t] # "idle"
  BY DEF TaskStep, NoSuchSession, ReadRuns, ReadStore, SendStored, GoLive, RecvLive, RecvLagged,
         SendFails, HasFrame
<1>4. s \in Sessions /\ ContiguousNumbering
  BY <1>3 DEF TypeOK, StoreInv
<1>5. /\ pos[t] \in Nat /\ pos[t] <= Len(rows) /\ Len(rows) \in Nat
      /\ DOMAIN rows = 1 .. Len(rows) /\ last[t] \in Nat
      /\ \A i \in 1 .. Len(rows) : rows[i].run \in Runs /\ rows[i].seq \in Nat
  <2>1. rows \in Seq(Event)
    BY DEF TypeOK
  <2>2. Len(rows) \in Nat /\ DOMAIN rows = 1 .. Len(rows)
    BY <2>1
  <2>3. QED
    BY <2>2, RowTyped DEF TypeOK, StreamInv
<1>6. CASE NoSuchSession(t) \/ SendFails(t)
  <2>1. /\ at'[t] = "ended" /\ sent' = sent /\ last' = last /\ pos' = pos
    BY <1>6 DEF NoSuchSession, SendFails, TypeOK
  <2>2. QED
    BY <1>1, <1>2, <2>1 DEF StreamInv, ReadingIsSafe, SendingIsSafe, LiveIsSafe
<1>7. CASE ReadRuns(t)
  <2>1. /\ at'[t] = "reading" /\ sent' = sent /\ last' = last /\ pos' = pos
        /\ known'[t] = {r \in Runs : Registered(s, r)}
    BY <1>7 DEF ReadRuns, TypeOK
  <2>2. QED
    BY <1>1, <1>4, <1>5, <2>1, RunListRead
<1>8. CASE RecvLagged(t)
  <2>1. /\ at'[t] = "reading" /\ sent' = sent /\ last' = last
        /\ pos'[t] = Len(rows) - FeedCapacity /\ Len(rows) - pos[t] > FeedCapacity
        /\ known'[t] = {r \in Runs : Registered(s, r)}
    BY <1>8 DEF RecvLagged, Lagging, TypeOK
  <2>2. pos'[t] \in Nat /\ pos'[t] <= Len(rows)
    BY <1>5, <2>1, StreamAssumption
  <2>3. QED
    BY <1>1, <1>4, <2>1, <2>2, RunListRead
<1>9. CASE ReadStore(t)
  <2>1. /\ at[t] = "reading" /\ at'[t] = "sending" /\ sent' = sent /\ last' = last /\ pos' = pos
        /\ batch'[t] = {e \in {rows[i] : i \in DOMAIN rows} : e.run \in known[t] /\ e.seq > last[t]}
    BY <1>9 DEF ReadStore, TypeOK
  <2>2. /\ \A r \in known[t] : Registered(s, r)
        /\ \A i \in 1 .. pos[t] : Registered(s, rows[i].run) => rows[i].run \in known[t]
        /\ \A e, f \in SessionEvents(s) : e.run \in known[t] /\ f.run \notin known[t]
             => e.seq < f.seq
    BY <2>1 DEF StreamInv, ReadingIsSafe
  <2>3. batch'[t] \subseteq SessionEvents(s)
    BY <2>1, <2>2, EventIsRow
  <2>4. \A i \in 1 .. pos[t] :
          Registered(s, rows[i].run) => rows[i].seq <= last[t] \/ rows[i] \in batch'[t]
    BY <1>5, <2>1, <2>2
  <2>5. ASSUME NEW b \in batch'[t], NEW e \in SessionEvents(s), last[t] < e.seq, e.seq <= b.seq
        PROVE  e \in batch'[t]
    <3>1. e.run \in known[t]
      <4>1. SUFFICES ASSUME e.run \notin known[t] PROVE FALSE
        OBVIOUS
      <4>2. b.seq < e.seq
        BY <2>1, <2>2, <2>3, <4>1
      <4>3. b.seq \in Nat /\ e.seq \in Nat
        BY <2>3, EventTyped
      <4>4. QED
        BY <2>5, <4>2, <4>3
    <3>2. PICK i \in DOMAIN rows : e = rows[i]
      BY EventIsRow
    <3>3. e.seq > last[t]
      BY <1>5, <2>5, <3>2
    <3>4. QED
      BY <2>1, <3>1, <3>2, <3>3
  <2>6. SendingIsSafe(t)'
    BY <1>1, <1>2, <2>1, <2>3, <2>4, <2>5 DEF SendingIsSafe, Registered
  <2>7. QED
    BY <1>1, <1>2, <2>1, <2>6 DEF StreamInv, ReadingIsSafe, LiveIsSafe
<1>10. CASE SendStored(t)
  <2>1. PICK e \in batch[t] :
          /\ \A f \in batch[t] : e.seq <= f.seq
          /\ batch' = [batch EXCEPT ![t] = @ \ {e}]
          /\ IF e.seq > last[t] THEN Forward(t, e) ELSE UNCHANGED <<queue, sent, last>>
    BY <1>10 DEF SendStored
  <2>2. at[t] = "sending" /\ at' = at /\ pos' = pos /\ batch'[t] = batch[t] \ {e}
    BY <1>10, <2>1 DEF SendStored, TypeOK
  <2>3. /\ batch[t] \subseteq SessionEvents(s)
        /\ \A i \in 1 .. pos[t] :
             Registered(s, rows[i].run) => rows[i].seq <= last[t] \/ rows[i] \in batch[t]
        /\ \A b \in batch[t], f \in SessionEvents(s) :
             last[t] < f.seq /\ f.seq <= b.seq => f \in batch[t]
    BY <2>2 DEF StreamInv, SendingIsSafe
  <2>4. e \in SessionEvents(s) /\ e.seq \in Nat
    BY <2>3, EventTyped
  <2>5. CASE e.seq > last[t]
    <3>1. Forward(t, e)
      BY <2>1, <2>5
    <3>2. ASSUME NEW f \in SessionEvents(s), last[t] < f.seq PROVE e.seq <= f.seq
      <4>1. f.seq \in Nat
        BY EventTyped
      <4>2. QED
        BY <2>1, <2>3, <2>4, <3>2, <4>1
    <3>3. e.seq = last[t] + 1
      BY <1>4, <1>5, <2>4, <2>5, <3>2, NextNumber
    <3>4. /\ last'[t] = resume[t] + Len(sent'[t])
          /\ last'[t] = e.seq
          /\ \A k \in DOMAIN sent'[t] :
               sent'[t][k] \in SessionEvents(s) /\ sent'[t][k].seq = resume[t] + k
      BY <2>4, <3>1, <3>3, ForwardKeeps
    <3>5. \A i \in 1 .. pos[t] :
            Registered(s, rows[i].run) => rows[i].seq <= last'[t] \/ rows[i] \in batch'[t]
      BY <1>5, <2>2, <2>3, <2>4, <3>3, <3>4
    <3>6. ASSUME NEW b \in batch'[t], NEW f \in SessionEvents(s), last'[t] < f.seq, f.seq <= b.seq
          PROVE  f \in batch'[t]
      <4>1. f.seq \in Nat
        BY EventTyped
      <4>2. QED
        BY <1>5, <2>2, <2>3, <2>4, <3>3, <3>4, <3>6, <4>1
    <3>7. SendingIsSafe(t)'
      BY <1>1, <1>2, <2>2, <2>3, <3>5, <3>6 DEF SendingIsSafe, Registered
    <3>8. QED
      BY <1>1, <1>2, <1>5, <2>2, <3>4, <3>7 DEF StreamInv, ReadingIsSafe, LiveIsSafe
  <2>6. CASE ~(e.seq > last[t])
    <3>1. last' = last /\ sent' = sent
      BY <2>1, <2>6
    <3>2. \A i \in 1 .. pos[t] :
            Registered(s, rows[i].run) => rows[i].seq <= last[t] \/ rows[i] \in batch'[t]
      BY <1>5, <2>2, <2>3, <2>4, <2>6
    <3>3. \A b \in batch'[t], f \in SessionEvents(s) :
             last[t] < f.seq /\ f.seq <= b.seq => f \in batch'[t]
      BY <1>5, <2>2, <2>3, <2>4, <2>6
    <3>4. SendingIsSafe(t)'
      BY <1>1, <1>2, <2>2, <2>3, <3>1, <3>2, <3>3 DEF SendingIsSafe, Registered
    <3>5. QED
      BY <1>1, <1>2, <1>5, <2>2, <3>1, <3>4 DEF StreamInv, ReadingIsSafe, LiveIsSafe
  <2>7. QED
    BY <2>5, <2>6
<1>11. CASE GoLive(t)
  <2>1. /\ at[t] = "sending" /\ at'[t] = "live" /\ batch[t] = {}
        /\ sent' = sent /\ last' = last /\ pos' = pos
    BY <1>11 DEF GoLive, TypeOK
  <2>2. \A i \in 1 .. pos[t] : Registered(s, rows[i].run) => rows[i].seq <= last[t]
    BY <2>1 DEF StreamInv, SendingIsSafe
  <2>3. LiveIsSafe(t)'
    BY <1>1, <1>2, <2>1, <2>2 DEF LiveIsSafe, Registered
  <2>4. QED
    BY <1>1, <1>2, <2>1, <2>3 DEF StreamInv, ReadingIsSafe, SendingIsSafe
<1>12. CASE RecvLive(t)
  <2> DEFINE e == rows[pos[t] + 1]
  <2>1. /\ at[t] = "live" /\ at' = at /\ pos[t] < Len(rows) /\ pos'[t] = pos[t] + 1
        /\ IF Registered(s, e.run) /\ e.seq > last[t]
           THEN Forward(t, e) ELSE UNCHANGED <<queue, sent, last>>
    BY <1>12 DEF RecvLive, TypeOK
  <2>2. \A i \in 1 .. pos[t] : Registered(s, rows[i].run) => rows[i].seq <= last[t]
    BY <2>1 DEF StreamInv, LiveIsSafe
  <2>3. pos[t] + 1 \in 1 .. Len(rows) /\ e.seq \in Nat /\ pos'[t] \in Nat /\ pos'[t] <= Len(rows)
    BY <1>5, <2>1
  <2>4. CASE Registered(s, e.run) /\ e.seq > last[t]
    <3>1. Forward(t, e)
      BY <2>1, <2>4
    <3>2. e \in SessionEvents(s)
      BY <1>5, <2>3, <2>4, EventIsRow
    <3>3. ASSUME NEW f \in SessionEvents(s), last[t] < f.seq PROVE e.seq <= f.seq
      <4>1. PICK j \in DOMAIN rows : f = rows[j] /\ Registered(s, rows[j].run)
        BY EventIsRow
      <4>2. j > pos[t]
        BY <1>5, <2>2, <3>3, <4>1
      <4>3. CASE j = pos[t] + 1
        BY <2>3, <4>1, <4>3
      <4>4. CASE j > pos[t] + 1
        BY <1>4, <1>5, <2>3, <2>4, <4>1, <4>4 DEF ContiguousNumbering
      <4>5. QED
        BY <1>5, <4>2, <4>3, <4>4
    <3>4. e.seq = last[t] + 1
      BY <1>4, <1>5, <2>3, <2>4, <3>2, <3>3, NextNumber
    <3>5. /\ last'[t] = resume[t] + Len(sent'[t])
          /\ last'[t] = e.seq
          /\ \A k \in DOMAIN sent'[t] :
               sent'[t][k] \in SessionEvents(s) /\ sent'[t][k].seq = resume[t] + k
      BY <3>1, <3>2, <3>4, ForwardKeeps
    <3>6. \A i \in 1 .. pos'[t] : Registered(s, rows[i].run) => rows[i].seq <= last'[t]
      BY <1>5, <2>1, <2>2, <2>3, <3>4, <3>5
    <3>7. LiveIsSafe(t)'
      BY <1>1, <1>2, <3>6 DEF LiveIsSafe, Registered
    <3>8. QED
      BY <1>1, <1>2, <2>1, <2>3, <3>5, <3>7 DEF StreamInv, ReadingIsSafe, SendingIsSafe
  <2>5. CASE ~(Registered(s, e.run) /\ e.seq > last[t])
    <3>1. last' = last /\ sent' = sent
      BY <2>1, <2>5
    <3>2. \A i \in 1 .. pos'[t] : Registered(s, rows[i].run) => rows[i].seq <= last[t]
      BY <1>5, <2>1, <2>2, <2>3, <2>5
    <3>3. LiveIsSafe(t)'
      BY <1>1, <1>2, <3>1, <3>2 DEF LiveIsSafe, Registered
    <3>4. QED
      BY <1>1, <1>2, <2>1, <2>3, <3>1, <3>3 DEF StreamInv, ReadingIsSafe, SendingIsSafe
  <2>6. QED
    BY <2>4, <2>5
<1>13. QED
  BY <1>6, <1>7, <1>8, <1>9, <1>10, <1>11, <1>12 DEF TaskStep

\* A step of another stream's task is none of this stream's business.
LEMMA OtherTaskKeepsStream ==
  ASSUME TypeOK, NEW t \in Streams, NEW u \in Streams, u # t, StreamInv(t), TaskStep(u)
  PROVE  StreamInv(t)'
<1>1. UNCHANGED <<rows, runs, phase>>
  BY DEF TaskStep, NoSuchSession, ReadRuns, ReadStore, SendStored, GoLive, RecvLive, RecvLagged,
         SendFails, storeVars
<1>2. /\ at'[t] = at[t] /\ session'[t] = session[t] /\ resume'[t] = resume[t]
      /\ pos'[t] = pos[t] /\ known'[t] = known[t] /\ batch'[t] = batch[t]
  BY DEF TaskStep, NoSuchSession, ReadRuns, ReadStore, SendStored, GoLive, RecvLive, RecvLagged,
         SendFails, TypeOK, connVars
<1>3. last'[t] = last[t] /\ sent'[t] = sent[t]
  BY DEF TaskStep, NoSuchSession, ReadRuns, ReadStore, SendStored, GoLive, RecvLive, RecvLagged,
         SendFails, Forward, TypeOK, connVars
<1>4. QED
  BY <1>1, <1>2, <1>3, StreamKept

\* A connection's step starts a stream or leaves it alone.
LEMMA ConnStepKeepsStream ==
  ASSUME TypeOK, NEW c \in Conns, ConnStep(c), NEW t \in Streams, StreamInv(t)
  PROVE  StreamInv(t)'
<1>1. UNCHANGED <<rows, runs, phase>>
  BY DEF ConnStep, Connect, Handshake, Refuse, HangUp, BadFrame, ReaderEnds, PumpWrites, PumpFails,
         PumpDrains, Subscribe, storeVars
<1>2. CASE UNCHANGED taskVars
  BY <1>1, <1>2, StreamKept DEF taskVars
<1>3. ASSUME NEW u \in Streams, NEW s \in Sessions, NEW from \in ResumePoints,
             Subscribe(c, u, s, from)
      PROVE  StreamInv(t)'
  <2>1. CASE u = t
    <3>1. /\ at[t] = "idle" /\ at'[t] = "subscribed" /\ resume'[t] = from /\ last'[t] = from
          /\ pos'[t] = Len(rows) /\ rows' = rows /\ sent' = sent
      BY <1>3, <2>1 DEF Subscribe, TypeOK, storeVars
    <3>2. sent[t] = <<>> /\ from \in Nat /\ Len(rows) \in Nat
      BY <3>1, StreamAssumption DEF StreamInv, TypeOK
    <3>3. QED
      BY <3>1, <3>2 DEF StreamInv, ReadingIsSafe, SendingIsSafe, LiveIsSafe
  <2>2. CASE u # t
    <3>1. /\ at'[t] = at[t] /\ session'[t] = session[t] /\ resume'[t] = resume[t]
          /\ last'[t] = last[t] /\ pos'[t] = pos[t] /\ known'[t] = known[t]
          /\ batch'[t] = batch[t] /\ sent'[t] = sent[t]
      BY <1>3, <2>2 DEF Subscribe, TypeOK
    <3>2. QED
      BY <1>1, <3>1, StreamKept
  <2>3. QED
    BY <2>1, <2>2
<1>4. QED
  BY <1>2, <1>3 DEF ConnStep, Connect, Handshake, Refuse, HangUp, BadFrame, ReaderEnds, PumpWrites,
                    PumpFails, PumpDrains

LEMMA IInvInit == Init => IInv
<1> SUFFICES ASSUME Init PROVE IInv
  OBVIOUS
<1>1. ASSUME NEW t \in Streams PROVE StreamInv(t)
  <2>1. /\ at[t] = "idle" /\ sent[t] = <<>> /\ last[t] = 0 /\ resume[t] = 0 /\ pos[t] = 0
        /\ rows = <<>>
    BY DEF Init, StoreInit
  <2>2. QED
    BY <2>1 DEF StreamInv, ReadingIsSafe, SendingIsSafe, LiveIsSafe
<1>2. QED
  BY <1>1, InitTyped, StoreInvInit, StreamInvAll DEF IInv

LEMMA IInvNext ==
  ASSUME OneRunAtATime, ~ReadsMayFail
  PROVE  IInv /\ [Next]_vars => IInv'
<1> SUFFICES ASSUME IInv, [Next]_vars PROVE IInv'
  OBVIOUS
<1>1. TypeOK' /\ StoreInv' /\ TypeOK /\ StoreInv /\ \A t \in Streams : StreamInv(t)
  BY NextTyped, StoreInvNext, StreamInvAll DEF IInv
<1>2. ASSUME NEW t \in Streams PROVE StreamInv(t)'
  <2>1. StreamInv(t)
    BY <1>1
  <2>2. CASE StoreStep
    BY <1>1, <2>1, <2>2, StoreStepKeepsStream
  <2>3. ASSUME NEW c \in Conns, ConnStep(c) PROVE StreamInv(t)'
    BY <1>1, <2>1, <2>3, ConnStepKeepsStream
  <2>4. ASSUME NEW u \in Streams, TaskStep(u) PROVE StreamInv(t)'
    BY <1>1, <2>1, <2>4, TaskStepKeepsStream, OtherTaskKeepsStream
  <2>5. CASE UNCHANGED vars
    BY <2>1, <2>5, StreamKept DEF vars, storeVars, taskVars
  <2>6. QED
    BY <2>2, <2>3, <2>4, <2>5 DEF Next
<1>3. CursorCounts' /\ TasksSafe' /\ GaplessDelivery'
  BY <1>2 DEF StreamInv, CursorCounts, TasksSafe, GaplessDelivery
<1>4. QED
  BY <1>1, <1>3 DEF IInv

LEMMA InvariantHolds ==
  ASSUME OneRunAtATime, ~ReadsMayFail
  PROVE  Spec => []IInv
BY IInvInit, IInvNext, PTL DEF Spec

\* Every subscriber is sent the events after its resume point in order, each once,
\* none missing: over the replay, the hand-over to the live feed and every lag.
THEOREM DeliveryIsGapless ==
  ASSUME OneRunAtATime, ~ReadsMayFail
  PROVE  Spec => []GaplessDelivery
<1>1. IInv => GaplessDelivery
  BY DEF IInv
<1>2. QED
  BY <1>1, InvariantHolds, PTL

\* A stream waiting at the end of the live feed has sent everything there is.
THEOREM DeliveryIsComplete ==
  ASSUME OneRunAtATime, ~ReadsMayFail
  PROVE  Spec => []NothingLeftBehind
<1>1. ASSUME IInv PROVE NothingLeftBehind
  <2> SUFFICES ASSUME NEW t \in Streams, at[t] = "live", pos[t] = Len(rows),
                      NEW e \in SessionEvents(session[t]), e.seq > resume[t]
               PROVE  \E k \in DOMAIN sent[t] : sent[t][k] = e
    BY DEF NothingLeftBehind
  <2>1. TypeOK /\ ContiguousNumbering /\ StreamInv(t) /\ session[t] \in Sessions
    BY <1>1, StreamInvAll DEF IInv, StoreInv, TypeOK
  <2>2. PICK i \in DOMAIN rows : e = rows[i] /\ Registered(session[t], rows[i].run)
    BY EventIsRow
  <2>3. /\ rows \in Seq(Event) /\ sent[t] \in Seq(Event)
        /\ e.seq \in Nat /\ resume[t] \in Nat /\ last[t] \in Nat
    BY <2>1, EventTyped DEF TypeOK
  <2>4. DOMAIN rows = 1 .. Len(rows) /\ DOMAIN sent[t] = 1 .. Len(sent[t]) /\ Len(sent[t]) \in Nat
    BY <2>3
  <2>5. e.seq <= last[t]
    BY <2>1, <2>2, <2>4 DEF StreamInv, LiveIsSafe
  <2>6. PICK k \in DOMAIN sent[t] : resume[t] + k = e.seq
    <3>1. e.seq - resume[t] \in DOMAIN sent[t] /\ resume[t] + (e.seq - resume[t]) = e.seq
      BY <2>1, <2>3, <2>4, <2>5 DEF StreamInv
    <3>2. QED
      BY <3>1
  <2>7. sent[t][k] \in SessionEvents(session[t]) /\ sent[t][k].seq = e.seq
    BY <2>1, <2>6 DEF StreamInv
  <2>8. PICK j \in DOMAIN rows : sent[t][k] = rows[j] /\ Registered(session[t], rows[j].run)
    BY <2>7, EventIsRow
  <2>9. i = j
    <3>1. /\ rows[i].seq = rows[j].seq /\ rows[i].seq \in Nat
          /\ Registered(session[t], rows[i].run) /\ Registered(session[t], rows[j].run)
      BY <2>2, <2>3, <2>7, <2>8
    <3>2. ASSUME NEW p \in DOMAIN rows, NEW q \in DOMAIN rows, p < q,
                 Registered(session[t], rows[p].run), Registered(session[t], rows[q].run)
          PROVE  rows[p].seq < rows[q].seq
      BY <2>1, <3>2 DEF ContiguousNumbering
    <3>3. ~(i < j)
      BY <3>1, <3>2
    <3>4. ~(j < i)
      BY <3>1, <3>2
    <3>5. QED
      BY <2>4, <3>3, <3>4
  <2>10. QED
    BY <2>2, <2>6, <2>8, <2>9
<1>2. QED
  BY <1>1, InvariantHolds, PTL

--------------------------------------------------------------------------------
(* The streams implement SessionLog.                                          *)

\* A session has finitely many events.
LEMMA EventsAreFinite ==
  ASSUME TypeOK, NEW s
  PROVE  IsFiniteSet(SessionEvents(s)) /\ Cardinality(SessionEvents(s)) \in Nat
<1> DEFINE T == {rows[i] : i \in DOMAIN rows}
<1>1. rows \in Seq(Event) /\ DOMAIN rows = 1 .. Len(rows) /\ Len(rows) \in Nat
  BY DEF TypeOK
<1>2. rows \in [1 .. Len(rows) -> T]
  BY <1>1
<1>3. rows \in Surjection(1 .. Len(rows), T)
  BY <1>1, <1>2 DEF Surjection
<1>4. IsFiniteSet(1 .. Len(rows))
  BY <1>1, FS_Interval
<1>5. IsFiniteSet(T)
  BY <1>3, <1>4, FS_Surjection
<1>6. SessionEvents(s) \in SUBSET T
  BY DEF SessionEvents
<1>7. IsFiniteSet(SessionEvents(s))
  BY <1>5, <1>6, FS_Subset
<1> QED
  BY <1>7, FS_CardinalityType

\* Numbers without a gap: an event's number is at most the length of its session's log.
LEMMA NumberIsCounted ==
  ASSUME TypeOK, ContiguousNumbering, NEW s \in Sessions, NEW e \in SessionEvents(s)
  PROVE  e.seq <= Cardinality(SessionEvents(s))
<1> DEFINE T == {f \in SessionEvents(s) : f.seq \in 1 .. e.seq}
           g == [f \in T |-> f.seq]
<1>1. IsFiniteSet(SessionEvents(s)) /\ Cardinality(SessionEvents(s)) \in Nat /\ e.seq \in Nat
  BY EventsAreFinite, EventTyped
<1>2. IsFiniteSet(T) /\ Cardinality(T) <= Cardinality(SessionEvents(s))
  BY <1>1, FS_Subset
<1>3. g \in Surjection(T, 1 .. e.seq)
  <2>1. g \in [T -> 1 .. e.seq]
    OBVIOUS
  <2>2. \A n \in 1 .. e.seq : \E f \in SessionEvents(s) : f.seq = n
    BY DEF ContiguousNumbering, FirstEventSequence
  <2>3. \A n \in 1 .. e.seq : \E f \in T : g[f] = n
    BY <2>2
  <2> QED
    BY <2>1, <2>3 DEF Surjection
<1>4. Cardinality(1 .. e.seq) <= Cardinality(T)
  BY <1>2, <1>3, FS_Surjection
<1>5. Cardinality(1 .. e.seq) = e.seq
  BY <1>1, FS_Interval
<1> QED
  BY <1>1, <1>2, <1>4, <1>5, FS_CardinalityType

\* Each session's log, as long as the session has events.
LogLength == [s \in Sessions |-> Cardinality(SessionEvents(s))]

LEMMA SameLength ==
  ASSUME \A s \in Sessions : SessionEvents(s)' = SessionEvents(s)
  PROVE  LogLength' = LogLength
BY DEF LogLength

\* A step of the store lengthens one log by one entry, or none.
LEMMA LogGrows ==
  ASSUME TypeOK, StoreInv, StoreStep
  PROVE  \/ LogLength' = LogLength
         \/ \E s \in Sessions : LogLength' = [LogLength EXCEPT ![s] = @ + 1]
<1>1. CASE UNCHANGED <<rows, runs>>
  BY <1>1, SameEvents, SameLength
<1>2. ASSUME NEW q \in Runs, RegisterRun(q) PROVE LogLength' = LogLength
  BY <1>2, RegisterEffect, SameLength DEF StoreInv
<1>3. ASSUME NEW q \in Runs, RecordEvent(q)
      PROVE  \E s \in Sessions : LogLength' = [LogLength EXCEPT ![s] = @ + 1]
  <2> DEFINE new == [run |-> q, seq |-> counter[q]]
             o == owner[q]
  <2>1. /\ o \in Sessions /\ new \in Event
        /\ \A s \in Sessions : SessionEvents(s)' =
             IF s = o THEN SessionEvents(s) \cup {new} ELSE SessionEvents(s)
    BY <1>3, RecordEffect DEF StoreInv
  <2>2. new \notin SessionEvents(o)
    <3>1. \A e \in SessionEvents(o) : e.seq < counter[q]
      BY <1>3 DEF StoreInv, CounterIsNext, RecordEvent
    <3>2. counter[q] \in Nat
      BY DEF TypeOK
    <3> QED
      BY <3>1, <3>2
  <2>3. Cardinality(SessionEvents(o) \cup {new}) = Cardinality(SessionEvents(o)) + 1
    BY <2>2, EventsAreFinite, FS_AddElement
  <2>4. \A s \in Sessions : Cardinality(SessionEvents(s)') =
          IF s = o THEN Cardinality(SessionEvents(s)) + 1 ELSE Cardinality(SessionEvents(s))
    BY <2>1, <2>3
  <2>5. LogLength' = [LogLength EXCEPT ![o] = @ + 1]
    <3>1. LogLength' = [s \in Sessions |-> Cardinality(SessionEvents(s)')]
      BY DEF LogLength
    <3>2. [LogLength EXCEPT ![o] = @ + 1] =
             [s \in Sessions |-> IF s = o THEN Cardinality(SessionEvents(s)) + 1
                                          ELSE Cardinality(SessionEvents(s))]
      BY <2>1 DEF LogLength
    <3> QED
      BY <2>4, <3>1, <3>2
  <2> QED
    BY <2>1, <2>5
<1> QED
  BY <1>1, <1>2, <1>3 DEF StoreStep, StoreNext, CreateSession, NumberRun, EndRun

\* A step of a stream's task leaves its cursor alone or moves it one entry on,
\* inside the session's log.
LEMMA CursorMoves ==
  ASSUME IInv, IInv', NEW t \in Streams, TaskStep(t)
  PROVE  /\ session' = session /\ LogLength' = LogLength
         /\ \/ last' = last
            \/ /\ last' = [last EXCEPT ![t] = @ + 1]
               /\ session[t] \in Sessions
               /\ last[t] < Cardinality(SessionEvents(session[t]))
<1>1. UNCHANGED <<rows, runs, session, resume>>
  BY DEF TaskStep, NoSuchSession, ReadRuns, ReadStore, SendStored, GoLive, RecvLive, RecvLagged,
         SendFails, storeVars
<1>2. \A s : SessionEvents(s)' = SessionEvents(s)
  BY <1>1, SameEvents
<1>3. LogLength' = LogLength
  BY <1>2, SameLength
<1>4. /\ sent \in [Streams -> Seq(Event)] /\ last \in [Streams -> Nat] /\ resume \in [Streams -> Nat]
      /\ sent' \in [Streams -> Seq(Event)] /\ last' \in [Streams -> Nat]
      /\ batch \in [Streams -> SUBSET Event] /\ rows \in Seq(Event) /\ pos \in [Streams -> Nat]
  BY DEF IInv, TypeOK
<1>5. CASE last' = last
  BY <1>1, <1>3, <1>5
<1>6. ASSUME NEW e \in Event, Forward(t, e), at[t] # "idle"
      PROVE  /\ last' = [last EXCEPT ![t] = @ + 1]
             /\ session[t] \in Sessions
             /\ last[t] < Cardinality(SessionEvents(session[t]))
  <2>1. sent' = [sent EXCEPT ![t] = Append(@, e)] /\ last' = [last EXCEPT ![t] = e.seq]
    BY <1>6 DEF Forward
  <2>2. sent'[t] = Append(sent[t], e) /\ last'[t] = e.seq
    BY <1>4, <2>1
  <2>3. /\ Len(sent'[t]) = Len(sent[t]) + 1 /\ Len(sent[t]) \in Nat
        /\ sent'[t][Len(sent[t]) + 1] = e /\ Len(sent[t]) + 1 \in DOMAIN sent'[t]
    BY <1>4, <2>2
  <2>4. last[t] = resume[t] + Len(sent[t]) /\ last'[t] = resume[t] + Len(sent'[t])
    BY <1>1 DEF IInv, CursorCounts
  <2>5. e.seq = last[t] + 1
    BY <1>4, <2>2, <2>3, <2>4
  <2>6. session[t] \in Sessions
    BY <1>6 DEF IInv, TypeOK
  <2>7. e \in SessionEvents(session[t])
    <3>1. sent'[t][Len(sent[t]) + 1] \in SessionEvents(session[t])'
      BY <2>3 DEF IInv, GaplessDelivery
    <3>2. SessionEvents(session[t])' = SessionEvents(session[t])
      BY <1>1, SameEvents DEF SessionEvents, Registered
    <3> QED
      BY <2>3, <3>1, <3>2
  <2>8. last[t] < Cardinality(SessionEvents(session[t]))
    BY <1>4, <2>5, <2>6, <2>7, NumberIsCounted, EventsAreFinite DEF IInv, StoreInv
  <2> QED
    BY <2>1, <2>5, <2>6, <2>8
<1>7. CASE SendStored(t)
  <2>1. PICK e \in batch[t] :
          IF e.seq > last[t] THEN Forward(t, e) ELSE UNCHANGED <<queue, sent, last>>
    BY <1>7 DEF SendStored
  <2>2. e \in Event /\ at[t] # "idle"
    BY <1>4, <1>7 DEF SendStored
  <2> QED
    BY <1>1, <1>3, <1>5, <1>6, <2>1, <2>2
<1>8. CASE RecvLive(t)
  <2>1. rows[pos[t] + 1] \in Event /\ at[t] # "idle"
    BY <1>4, <1>8 DEF RecvLive
  <2> QED
    BY <1>1, <1>3, <1>5, <1>6, <1>8, <2>1 DEF RecvLive
<1>9. CASE NoSuchSession(t) \/ ReadRuns(t) \/ ReadStore(t) \/ GoLive(t) \/ RecvLagged(t) \/ SendFails(t)
  BY <1>5, <1>9 DEF NoSuchSession, ReadRuns, ReadStore, GoLive, RecvLagged, SendFails
<1> QED
  BY <1>7, <1>8, <1>9 DEF TaskStep

\* A stream nobody asked for follows no session.
IdleFollowsNobody == \A t \in Streams : at[t] = "idle" => session[t] = NoSession

LEMMA IdleNext == TypeOK /\ IdleFollowsNobody /\ [Next]_vars => IdleFollowsNobody'
<1> SUFFICES ASSUME TypeOK, IdleFollowsNobody, [Next]_vars PROVE IdleFollowsNobody'
  OBVIOUS
<1>1. at \in [Streams -> At] /\ session \in [Streams -> Sessions \cup {NoSession}]
  BY DEF TypeOK
<1>2. CASE UNCHANGED <<at, session>>
  BY <1>2 DEF IdleFollowsNobody
<1>3. ASSUME NEW t \in Streams, TaskStep(t) PROVE IdleFollowsNobody'
  <2>1. UNCHANGED session /\ \A u \in Streams : at'[u] = "idle" => at[u] = "idle"
    BY <1>1, <1>3 DEF TaskStep, NoSuchSession, ReadRuns, ReadStore, SendStored, GoLive, RecvLive,
      RecvLagged, SendFails
  <2> QED
    BY <2>1 DEF IdleFollowsNobody
<1>4. ASSUME NEW c \in Conns, NEW t \in Streams, NEW s \in Sessions, NEW from \in ResumePoints,
             Subscribe(c, t, s, from)
      PROVE  IdleFollowsNobody'
  BY <1>1, <1>4 DEF Subscribe, IdleFollowsNobody
<1>5. ASSUME NEW c \in Conns, ConnStep(c) PROVE IdleFollowsNobody'
  BY <1>2, <1>4, <1>5 DEF ConnStep, Connect, Handshake, Refuse, HangUp, BadFrame, ReaderEnds, PumpWrites,
    PumpFails, PumpDrains, taskVars
<1> QED
  BY <1>2, <1>3, <1>5 DEF Next, StoreStep, vars, taskVars

\* Every step of the store, the connections and the streams is an append, a
\* subscription or a delivery of the next entry: for any sessions, runs, clients,
\* streams and queue and feed sizes, the streams implement SessionLog.
THEOREM StreamsImplementTheLog ==
  ASSUME OneRunAtATime, ~ReadsMayFail
  PROVE  Spec => ImplementsSessionLog
<1>1. Init => Log!LogInit
  <2> SUFFICES ASSUME Init PROVE Log!LogInit
    OBVIOUS
  <2>1. \A s \in Sessions : SessionEvents(s) = {}
    BY DEF Init, StoreInit, SessionEvents
  <2>2. Cardinality({}) = 0
    BY FS_EmptySet
  <2>3. [s \in Sessions |-> Cardinality(SessionEvents(s))] = [s \in Sessions |-> 0]
    BY <2>1, <2>2
  <2> QED
    BY <2>3 DEF Init, Log!LogInit
<1>2. Init => IdleFollowsNobody
  BY DEF Init, IdleFollowsNobody
<1>3. IInv /\ IInv' /\ IdleFollowsNobody /\ [Next]_vars => [Log!LogNext]_(Log!logVars)
  <2> SUFFICES ASSUME IInv, IInv', IdleFollowsNobody, [Next]_vars
               PROVE  Log!LogNext \/ (LogLength' = LogLength /\ session' = session /\ last' = last)
    BY DEF Log!logVars, LogLength
  <2>1. TypeOK /\ StoreInv
    BY DEF IInv
  <2>2. CASE StoreStep
    <3>1. session' = session /\ last' = last
      BY <2>2 DEF StoreStep, taskVars
    <3> QED
      BY <2>1, <2>2, <3>1, LogGrows DEF Log!LogNext, Log!Append, LogLength
  <2>3. ASSUME NEW t \in Streams, TaskStep(t)
        PROVE  Log!LogNext \/ (LogLength' = LogLength /\ session' = session /\ last' = last)
    <3>1. CASE last' = last
      BY <2>3, <3>1, CursorMoves
    <3>2. CASE last' # last
      <4>1. Log!Deliver(t)
        BY <2>3, <3>2, CursorMoves DEF Log!Deliver, LogLength
      <4> QED
        BY <4>1 DEF Log!LogNext
    <3> QED
      BY <3>1, <3>2
  <2>4. ASSUME NEW c \in Conns, ConnStep(c)
        PROVE  Log!LogNext \/ (LogLength' = LogLength /\ session' = session /\ last' = last)
    <3>1. UNCHANGED <<rows, runs>>
      BY <2>4 DEF ConnStep, Connect, Handshake, Refuse, HangUp, BadFrame, ReaderEnds, PumpWrites, PumpFails,
        PumpDrains, Subscribe, storeVars
    <3>2. LogLength' = LogLength
      BY <3>1, SameEvents, SameLength
    <3>3. ASSUME NEW t \in Streams, NEW s \in Sessions, NEW from \in ResumePoints,
                 Subscribe(c, t, s, from)
          PROVE  Log!LogNext
      <4>1. /\ session[t] = NoSession
            /\ session' = [session EXCEPT ![t] = s] /\ last' = [last EXCEPT ![t] = from]
        BY <3>3 DEF Subscribe, IdleFollowsNobody
      <4>2. Log!Attach(t, s, from)
        BY <3>2, <4>1 DEF Log!Attach, LogLength
      <4> QED
        BY <4>2 DEF Log!LogNext
    <3> QED
      BY <2>4, <3>2, <3>3 DEF ConnStep, Connect, Handshake, Refuse, HangUp, BadFrame, ReaderEnds, PumpWrites,
        PumpFails, PumpDrains, taskVars
  <2>5. CASE UNCHANGED vars
    <3>1. UNCHANGED <<rows, runs, session, last>>
      BY <2>5 DEF vars, storeVars, taskVars
    <3> QED
      BY <3>1, SameEvents, SameLength
  <2> QED
    BY <2>2, <2>3, <2>4, <2>5 DEF Next
<1>4. IInv => TypeOK
  BY DEF IInv
<1> QED
  BY <1>1, <1>2, <1>3, <1>4, IdleNext, InvariantHolds, PTL DEF Spec, ImplementsSessionLog, Log!LogSpec
--------------------------------------------------------------------------------
(* What holds however runs overlap and queries fail.                          *)

\* Whatever is lost, what a stream sends are stored events of its session after the
\* resume point, in the order of their numbers and none twice (forward_event).
OrderlyDelivery ==
  \A t \in Streams :
    /\ \A k \in DOMAIN sent[t] :
         sent[t][k] \in SessionEvents(session[t]) /\ sent[t][k].seq > resume[t]
    /\ \A j, k \in DOMAIN sent[t] : j < k => sent[t][j].seq < sent[t][k].seq

\* What was sent is not beyond the cursor, and what is about to be sent is of the session.
OrderOf(t) ==
  /\ at[t] = "idle" => sent[t] = <<>>
  /\ resume[t] <= last[t]
  /\ at[t] = "reading" => \A r \in known[t] : Registered(session[t], r)
  /\ at[t] = "sending" => batch[t] \subseteq SessionEvents(session[t])
  /\ \A k \in DOMAIN sent[t] :
       /\ sent[t][k] \in SessionEvents(session[t])
       /\ resume[t] < sent[t][k].seq /\ sent[t][k].seq <= last[t]
  /\ \A j, k \in DOMAIN sent[t] : j < k => sent[t][j].seq < sent[t][k].seq

OrderInv == TypeOK /\ \A t \in Streams : OrderOf(t)

\* Run lists and the table only grow.
LEMMA SessionsGrow ==
  ASSUME TypeOK, StoreStep \/ UNCHANGED <<rows, runs>>, NEW s \in Sessions
  PROVE  /\ \A r \in Runs : Registered(s, r) => Registered(s, r)'
         /\ SessionEvents(s) \subseteq SessionEvents(s)'
<1>1. /\ rows \in Seq(Event) /\ DOMAIN rows = 1 .. Len(rows) /\ Len(rows) \in Nat
      /\ runs \in [Sessions -> Seq(Runs)] /\ runs[s] \in Seq(Runs)
  BY DEF TypeOK
<1>2. ASSUME \A i \in DOMAIN rows : i \in DOMAIN rows' /\ rows'[i] = rows[i],
             \A i \in DOMAIN runs[s] : i \in DOMAIN runs'[s] /\ runs'[s][i] = runs[s][i]
      PROVE  /\ \A r \in Runs : Registered(s, r) => Registered(s, r)'
             /\ SessionEvents(s) \subseteq SessionEvents(s)'
  <2>1. \A r : Registered(s, r) => Registered(s, r)'
    BY <1>2 DEF Registered
  <2>2. ASSUME NEW e \in SessionEvents(s) PROVE e \in SessionEvents(s)'
    <3>1. PICK i \in DOMAIN rows : e = rows[i] /\ Registered(s, rows[i].run)
      BY EventIsRow
    <3>2. i \in DOMAIN rows' /\ rows'[i] = e /\ Registered(s, e.run)'
      BY <1>2, <2>1, <3>1
    <3> QED
      BY <3>2 DEF SessionEvents
  <2> QED
    BY <2>1, <2>2
<1>3. CASE UNCHANGED <<rows, runs>>
  BY <1>2, <1>3
<1>4. ASSUME NEW q \in Runs, RegisterRun(q)
      PROVE  \A i \in DOMAIN runs[s] : i \in DOMAIN runs'[s] /\ runs'[s][i] = runs[s][i]
  <2>1. runs' = [runs EXCEPT ![owner[q]] = Append(@, q)]
    BY <1>4 DEF RegisterRun
  <2>2. CASE owner[q] = s
    <3>1. runs'[s] = Append(runs[s], q)
      BY <1>1, <2>1, <2>2
    <3> QED
      BY <1>1, <3>1
  <2>3. CASE owner[q] # s
    BY <1>1, <2>1, <2>3
  <2> QED
    BY <2>2, <2>3
<1>5. ASSUME NEW q \in Runs, RecordEvent(q)
      PROVE  \A i \in DOMAIN rows : i \in DOMAIN rows' /\ rows'[i] = rows[i]
  <2> DEFINE new == [run |-> q, seq |-> counter[q]]
  <2>1. new \in Event
    BY DEF TypeOK, Event
  <2>2. rows \in Seq(Event) /\ rows' = Append(rows, new)
    BY <1>1, <1>5 DEF RecordEvent
  <2>3. /\ Len(rows) \in Nat /\ DOMAIN rows = 1 .. Len(rows) /\ DOMAIN rows' = 1 .. Len(rows) + 1
        /\ \A i \in 1 .. Len(rows) : rows'[i] = rows[i]
    BY <2>1, <2>2
  <2> QED
    BY <2>3
<1>6. CASE StoreStep
  <2>1. ASSUME NEW q \in Runs, RegisterRun(q)
        PROVE  /\ \A r \in Runs : Registered(s, r) => Registered(s, r)'
               /\ SessionEvents(s) \subseteq SessionEvents(s)'
    <3>1. rows' = rows
      BY <2>1 DEF RegisterRun
    <3> QED
      BY <1>2, <1>4, <2>1, <3>1
  <2>2. ASSUME NEW q \in Runs, RecordEvent(q)
        PROVE  /\ \A r \in Runs : Registered(s, r) => Registered(s, r)'
               /\ SessionEvents(s) \subseteq SessionEvents(s)'
    <3>1. runs' = runs
      BY <2>2 DEF RecordEvent
    <3> QED
      BY <1>2, <1>5, <2>2, <3>1
  <2>3. \/ UNCHANGED <<rows, runs>>
        \/ \E q \in Runs : RegisterRun(q) \/ RecordEvent(q)
    BY <1>6 DEF StoreStep, StoreNext, CreateSession, NumberRun, EndRun
  <2> QED
    BY <1>3, <2>1, <2>2, <2>3
<1> QED
  BY <1>3, <1>6

\* A stream whose own variables rest keeps its order while sessions grow.
LEMMA OrderRests ==
  ASSUME TypeOK, StoreStep \/ UNCHANGED <<rows, runs>>, NEW t \in Streams, OrderOf(t),
         at'[t] = at[t], session'[t] = session[t], resume'[t] = resume[t], last'[t] = last[t],
         known'[t] = known[t], batch'[t] = batch[t], sent'[t] = sent[t]
  PROVE  OrderOf(t)'
<1>1. CASE at[t] = "idle"
  BY <1>1 DEF OrderOf
<1>2. CASE at[t] # "idle"
  <2>1. session[t] \in Sessions /\ known[t] \subseteq Runs
    BY <1>2 DEF TypeOK
  <2>2. /\ \A r \in Runs : Registered(session[t], r) => Registered(session[t], r)'
        /\ SessionEvents(session[t]) \subseteq SessionEvents(session[t])'
    BY <2>1, SessionsGrow
  <2> QED
    BY <2>1, <2>2 DEF OrderOf
<1> QED
  BY <1>1, <1>2

\* Sending an event beyond the cursor keeps the order.
LEMMA OrderForward ==
  ASSUME TypeOK, NEW t \in Streams, OrderOf(t), NEW e \in SessionEvents(session[t]), e \in Event,
         e.seq > last[t], Forward(t, e), at[t] # "idle", at'[t] = at[t],
         at'[t] # "reading", batch'[t] \subseteq batch[t],
         UNCHANGED <<rows, runs, session, resume>>
  PROVE  OrderOf(t)'
<1> DEFINE s == session[t]
<1>1. /\ sent[t] \in Seq(Event) /\ sent'[t] = Append(sent[t], e) /\ last'[t] = e.seq
      /\ e.seq \in Nat /\ last[t] \in Nat /\ resume[t] \in Nat
  BY DEF TypeOK, Forward, Event
<1>2. SessionEvents(session[t])' = SessionEvents(session[t])
  BY SameEvents
<1>3. /\ Len(sent[t]) \in Nat /\ DOMAIN sent[t] = 1 .. Len(sent[t])
      /\ DOMAIN sent'[t] = 1 .. Len(sent[t]) + 1
      /\ \A k \in 1 .. Len(sent[t]) : sent'[t][k] = sent[t][k] /\ sent[t][k].seq \in Nat
      /\ sent'[t][Len(sent[t]) + 1] = e
  <2>1. /\ Len(sent[t]) \in Nat /\ DOMAIN sent[t] = 1 .. Len(sent[t])
        /\ DOMAIN sent'[t] = 1 .. Len(sent[t]) + 1
        /\ \A k \in 1 .. Len(sent[t]) : sent'[t][k] = sent[t][k] /\ sent[t][k] \in Event
        /\ sent'[t][Len(sent[t]) + 1] = e
    BY <1>1
  <2> QED
    BY <2>1 DEF Event
<1>4. \A k \in DOMAIN sent'[t] :
        /\ sent'[t][k] \in SessionEvents(session[t])
        /\ resume[t] < sent'[t][k].seq /\ sent'[t][k].seq <= last'[t]
  <2>1. ASSUME NEW k \in 1 .. Len(sent[t])
        PROVE  /\ sent'[t][k] \in SessionEvents(session[t])
               /\ resume[t] < sent'[t][k].seq /\ sent'[t][k].seq <= last'[t]
    <3>1. /\ sent[t][k] \in SessionEvents(session[t]) /\ resume[t] < sent[t][k].seq
          /\ sent[t][k].seq <= last[t] /\ sent[t][k].seq \in Nat /\ sent'[t][k] = sent[t][k]
      BY <1>3 DEF OrderOf
    <3> QED
      BY <1>1, <3>1
  <2>2. resume[t] < e.seq
    BY <1>1 DEF OrderOf
  <2> QED
    BY <1>1, <1>3, <2>1, <2>2
<1>5. \A j, k \in DOMAIN sent'[t] : j < k => sent'[t][j].seq < sent'[t][k].seq
  BY <1>1, <1>3 DEF OrderOf
<1>6. resume[t] <= last'[t] /\ session'[t] = session[t] /\ resume'[t] = resume[t]
  BY <1>1 DEF OrderOf
<1> QED
  BY <1>2, <1>4, <1>5, <1>6 DEF OrderOf

LEMMA OrderStarts == Init => OrderInv
BY InitTyped DEF Init, OrderInv, OrderOf

LEMMA OrderKeptByTask ==
  ASSUME TypeOK, NEW t \in Streams, OrderOf(t), TaskStep(t)
  PROVE  OrderOf(t)'
<1>1. UNCHANGED <<rows, runs, session, resume>>
  BY DEF TaskStep, NoSuchSession, ReadRuns, ReadStore, SendStored, GoLive, RecvLive, RecvLagged,
    SendFails, storeVars, connVars
<1>2. /\ \A r : Registered(session[t], r)' <=> Registered(session[t], r)
      /\ SessionEvents(session[t])' = SessionEvents(session[t])
  BY <1>1, SameEvents
<1>3. at \in [Streams -> At] /\ known \in [Streams -> SUBSET Runs] /\ batch \in [Streams -> SUBSET Event]
  BY DEF TypeOK
<1>4. CASE NoSuchSession(t) \/ GoLive(t) \/ SendFails(t)
  <2>1. UNCHANGED <<sent, last>> /\ at'[t] \in {"ended", "live"} /\ at[t] # "idle"
    BY <1>3, <1>4 DEF NoSuchSession, GoLive, SendFails, HasFrame
  <2> QED
    BY <1>1, <1>2, <2>1 DEF OrderOf
<1>5. CASE ReadRuns(t) \/ RecvLagged(t)
  <2>1. /\ UNCHANGED <<sent, last>> /\ at'[t] = "reading"
        /\ known'[t] = {r \in Runs : Registered(session[t], r)}
    BY <1>3, <1>5 DEF ReadRuns, RecvLagged
  <2> QED
    BY <1>1, <1>2, <2>1 DEF OrderOf
<1>6. CASE ReadStore(t)
  <2>1. UNCHANGED <<sent, last>> /\ at[t] = "reading" /\ at'[t] = "sending"
    BY <1>3, <1>6 DEF ReadStore
  <2>2. \A e \in batch'[t] : (\E i \in DOMAIN rows : e = rows[i]) /\ e.run \in known[t]
    BY <1>3, <1>6 DEF ReadStore
  <2>3. batch'[t] \subseteq SessionEvents(session[t])
    BY <2>1, <2>2, EventIsRow DEF OrderOf
  <2> QED
    BY <1>1, <1>2, <2>1, <2>3 DEF OrderOf
<1>7. CASE SendStored(t)
  <2>1. PICK e \in batch[t] :
          /\ batch' = [batch EXCEPT ![t] = @ \ {e}]
          /\ IF e.seq > last[t] THEN Forward(t, e) ELSE UNCHANGED <<queue, sent, last>>
    BY <1>7 DEF SendStored
  <2>2. at[t] = "sending" /\ at' = at /\ e \in Event /\ e \in SessionEvents(session[t])
    BY <1>3, <1>7, <2>1 DEF SendStored, OrderOf
  <2>3. batch'[t] \subseteq batch[t]
    BY <1>3, <2>1
  <2>4. CASE e.seq > last[t]
    BY <1>1, <2>1, <2>2, <2>3, <2>4, OrderForward
  <2>5. CASE ~(e.seq > last[t])
    BY <1>1, <1>2, <2>1, <2>2, <2>3, <2>5 DEF OrderOf
  <2> QED
    BY <2>4, <2>5
<1>8. CASE RecvLive(t)
  <2> DEFINE e == rows[pos[t] + 1]
  <2>1. /\ at[t] = "live" /\ at' = at /\ batch' = batch
        /\ IF Registered(session[t], e.run) /\ e.seq > last[t]
           THEN Forward(t, e) ELSE UNCHANGED <<queue, sent, last>>
    BY <1>8 DEF RecvLive
  <2>2. pos[t] + 1 \in DOMAIN rows /\ e \in Event
    BY <1>8 DEF RecvLive, TypeOK
  <2>3. CASE Registered(session[t], e.run) /\ e.seq > last[t]
    <3>1. e \in SessionEvents(session[t])
      BY <2>2, <2>3, EventIsRow
    <3> HIDE DEF e
    <3> QED
      BY <1>1, <2>1, <2>2, <2>3, <3>1, OrderForward
  <2>4. CASE ~(Registered(session[t], e.run) /\ e.seq > last[t])
    <3>1. UNCHANGED <<sent, last>>
      BY <2>1, <2>4
    <3> QED
      BY <1>1, <1>2, <2>1, <3>1 DEF OrderOf
  <2> QED
    BY <2>3, <2>4
<1> QED
  BY <1>4, <1>5, <1>6, <1>7, <1>8 DEF TaskStep

LEMMA OrderKept == OrderInv /\ [Next]_vars => OrderInv'
<1> SUFFICES ASSUME OrderInv, [Next]_vars PROVE OrderInv'
  OBVIOUS
<1>1. TypeOK /\ TypeOK' /\ \A t \in Streams : OrderOf(t)
  BY NextTyped DEF OrderInv
<1> SUFFICES ASSUME NEW u \in Streams PROVE OrderOf(u)'
  BY <1>1 DEF OrderInv
<1>2. CASE UNCHANGED vars
  BY <1>1, <1>2, OrderRests DEF vars, storeVars, taskVars
<1>3. CASE StoreStep
  <2>1. UNCHANGED taskVars
    BY <1>3 DEF StoreStep
  <2> QED
    BY <1>1, <1>3, <2>1, OrderRests DEF taskVars
<1>4. ASSUME NEW c \in Conns, ConnStep(c) PROVE OrderOf(u)'
  <2>1. UNCHANGED storeVars
    BY <1>4 DEF ConnStep, Connect, Handshake, Refuse, HangUp, BadFrame, ReaderEnds, PumpWrites, PumpFails,
      PumpDrains, Subscribe
  <2>2. CASE UNCHANGED taskVars
    BY <1>1, <2>1, <2>2, OrderRests DEF storeVars, taskVars
  <2>3. ASSUME NEW t \in Streams, NEW s \in Sessions, NEW from \in ResumePoints, Subscribe(c, t, s, from)
        PROVE  OrderOf(u)'
    <3>1. CASE t = u
      <4>1. /\ at[u] = "idle" /\ at'[u] = "subscribed" /\ resume'[u] = from /\ last'[u] = from
            /\ sent'[u] = sent[u] /\ from \in Nat
        BY <1>1, <2>3, <3>1, StreamAssumption DEF Subscribe, TypeOK
      <4>2. sent'[u] = <<>>
        BY <1>1, <4>1 DEF OrderOf
      <4>3. DOMAIN sent'[u] = {}
        BY <4>2
      <4> QED
        BY <4>1, <4>2, <4>3 DEF OrderOf
    <3>2. CASE t # u
      <4>1. /\ at'[u] = at[u] /\ session'[u] = session[u] /\ resume'[u] = resume[u] /\ last'[u] = last[u]
            /\ known'[u] = known[u] /\ batch'[u] = batch[u] /\ sent'[u] = sent[u]
        BY <1>1, <2>3, <3>2 DEF Subscribe, TypeOK
      <4> QED
        BY <1>1, <2>1, <4>1, OrderRests DEF storeVars
    <3> QED
      BY <3>1, <3>2
  <2> QED
    BY <1>4, <2>2, <2>3 DEF ConnStep, Connect, Handshake, Refuse, HangUp, BadFrame, ReaderEnds, PumpWrites,
      PumpFails, PumpDrains
<1>5. ASSUME NEW t \in Streams, TaskStep(t) PROVE OrderOf(u)'
  <2>1. CASE t = u
    BY <1>1, <1>5, <2>1, OrderKeptByTask
  <2>2. CASE t # u
    <3>1. UNCHANGED <<rows, runs, session, resume>>
      BY <1>5 DEF TaskStep, NoSuchSession, ReadRuns, ReadStore, SendStored, GoLive, RecvLive, RecvLagged,
        SendFails, storeVars, connVars
    <3>2. at'[u] = at[u] /\ known'[u] = known[u] /\ batch'[u] = batch[u]
      <4>1. CASE ReadStore(t) \/ SendStored(t)
        BY <1>1, <2>2, <4>1 DEF ReadStore, SendStored, TypeOK
      <4>2. CASE NoSuchSession(t) \/ ReadRuns(t) \/ GoLive(t) \/ RecvLive(t) \/ RecvLagged(t) \/ SendFails(t)
        BY <1>1, <2>2, <4>2 DEF NoSuchSession, ReadRuns, GoLive, RecvLive, RecvLagged, SendFails, TypeOK
      <4> QED
        BY <1>5, <4>1, <4>2 DEF TaskStep
    <3>3. last'[u] = last[u] /\ sent'[u] = sent[u]
      <4>1. ASSUME NEW e, Forward(t, e) PROVE last'[u] = last[u] /\ sent'[u] = sent[u]
        BY <1>1, <2>2, <4>1 DEF Forward, TypeOK
      <4>2. CASE SendStored(t) \/ RecvLive(t)
        BY <4>1, <4>2 DEF SendStored, RecvLive
      <4>3. CASE NoSuchSession(t) \/ ReadRuns(t) \/ ReadStore(t) \/ GoLive(t) \/ RecvLagged(t) \/ SendFails(t)
        BY <4>3 DEF NoSuchSession, ReadRuns, ReadStore, GoLive, RecvLagged, SendFails
      <4> QED
        BY <1>5, <4>2, <4>3 DEF TaskStep
    <3> QED
      BY <1>1, <3>1, <3>2, <3>3, OrderRests
  <2> QED
    BY <2>1, <2>2
<1> QED
  BY <1>2, <1>3, <1>4, <1>5 DEF Next

\* Runs that overlap and queries that fail lose events (NothingLeftBehind); they never
\* make a stream send one twice, or out of order, or one of another session.
THEOREM DeliveryIsOrderly == Spec => []OrderlyDelivery
<1>1. OrderInv => OrderlyDelivery
  BY DEF OrderInv, OrderOf, OrderlyDelivery, TypeOK
<1> QED
  BY <1>1, OrderStarts, OrderKept, PTL DEF Spec
================================================================================

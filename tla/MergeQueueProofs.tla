---------------------------- MODULE MergeQueueProofs ----------------------------
(***************************************************************************)
(* Proofs about MergeQueue for any agents and files, as long as no file an   *)
(* agent copied has changed by the time inspect_changes reads it.            *)
(***************************************************************************)
EXTENDS MergeQueue, TLAPS

\* No agent is named like a content that is no agent's.
LEMMA AgentNames ==
  ASSUME NEW a \in Agents
  PROVE  a \notin {"start", "op", "none", "link", "torn", "uncopied", "unscanned", "out", "idle"}
BY MergeAssumption

LEMMA InitHolds == Init => IInv
<1> SUFFICES ASSUME Init PROVE IInv
  OBVIOUS
<1>1. TypeOK
  <2>1. primary \in [Files -> Content]
    BY DEF Init, Content
  <2>2. queue \in Seq(Agents) /\ outside \in 0 .. MaxOutside
    BY MergeAssumption DEF Init
  <2> QED
    BY <2>1, <2>2 DEF Init, TypeOK, At, Content
<1>2. QueueInv
  BY DEF Init, QueueInv
<1>3. ChangesetInv
  <2>1. "unscanned" \notin Content
    BY MergeAssumption DEF Content
  <2> QED
    BY <2>1 DEF Init, ChangesetInv, Results
<1>4. MergeInv
  BY DEF Init, MergeInv
<1> QED
  BY <1>1, <1>2, <1>3, <1>4 DEF IInv

\* A step that leaves the queue, the item in hand and the agents' standing alone.
LEMMA StandingKept ==
  ASSUME QueueInv, UNCHANGED <<queue, merge, at>> PROVE QueueInv'
BY DEF QueueInv

\* Steps of an agent's workspace and of inspect_changes.
LEMMA AgentStepHolds ==
  ASSUME IInv, NEW a \in Agents,
         \/ Copied(a) \/ Inspect(a) \/ Fails(a) \/ Enqueue(a)
         \/ \E f \in Files : Copy(a, f) \/ AgentEdits(a, f) \/ Scan(a, f)
  PROVE  IInv'
<1> USE MergeAssumption
<1>1. ASSUME NEW f \in Files, Copy(a, f) PROVE IInv'
  <2>1. TypeOK'
    BY <1>1 DEF IInv, TypeOK, Copy, Content, copyVars, resultVars
  <2>2. QueueInv'
    BY <1>1, StandingKept DEF IInv, Copy
  <2>3. ChangesetInv'
    BY <1>1 DEF IInv, TypeOK, ChangesetInv, Copy, Content
  <2>4. MergeInv'
    BY <1>1 DEF IInv, MergeInv, Copy, On, Changes
  <2> QED
    BY <2>1, <2>2, <2>3, <2>4 DEF IInv
<1>2. CASE Copied(a)
  BY <1>2 DEF IInv, TypeOK, QueueInv, ChangesetInv, MergeInv, Copied, Move, At, Results, Changes, On,
    copyVars, resultVars
<1>3. ASSUME NEW f \in Files, AgentEdits(a, f) PROVE IInv'
  <2>1. TypeOK'
    BY <1>3 DEF IInv, TypeOK, AgentEdits, Outside, Content, resultVars
  <2>2. QueueInv'
    BY <1>3, StandingKept DEF IInv, AgentEdits
  <2>3. ChangesetInv' /\ MergeInv'
    BY <1>3 DEF IInv, ChangesetInv, MergeInv, AgentEdits, On, Changes
  <2> QED
    BY <2>1, <2>2, <2>3 DEF IInv
<1>4. CASE Inspect(a)
  BY <1>4 DEF IInv, TypeOK, QueueInv, ChangesetInv, MergeInv, Inspect, Move, At, Results, Changes, On,
    copyVars, resultVars
<1>5. ASSUME NEW f \in Files, Scan(a, f) PROVE IInv'
  <2>1. at[a] = "scanning" /\ pre[a][f] = "unscanned"
    BY <1>5 DEF Scan
  <2>2. /\ work[a][f] \in Content /\ primary[f] \in Content
        /\ UNCHANGED <<primary, base, work, queue, merge, touched, applied, stopped, outside>>
    BY <1>5 DEF IInv, TypeOK, Scan, resultVars
  <2>3. TypeOK'
    <3>1. CASE pre' = [pre EXCEPT ![a][f] = "out"] /\ UNCHANGED <<post, at>>
      BY <2>2, <3>1 DEF IInv, TypeOK
    <3>2. CASE at' = [at EXCEPT ![a] = "failed"] /\ UNCHANGED <<pre, post>>
      BY <2>1, <2>2, <3>2 DEF IInv, TypeOK, At
    <3>3. CASE /\ pre' = [pre EXCEPT ![a][f] = primary[f]]
               /\ post' = [post EXCEPT ![a][f] = work[a][f]]
               /\ UNCHANGED at
      BY <2>2, <3>3 DEF IInv, TypeOK
    <3> QED
      BY <1>5, <3>1, <3>2, <3>3 DEF Scan, Move
  <2>4. QueueInv'
    <3>1. UNCHANGED <<queue, merge>> /\ \A b \in Agents : b # a => at'[b] = at[b]
      BY <1>5 DEF IInv, TypeOK, Scan, Move
    <3>2. \A i \in 1 .. Len(queue) : queue[i] \in Agents /\ queue[i] # a
      BY <2>1 DEF IInv, TypeOK, QueueInv
    <3> QED
      BY <3>1, <3>2 DEF IInv, QueueInv
  <2>5. ChangesetInv'
    <3>1. "out" \notin Content
      BY DEF Content
    <3>2. \A b \in Agents : at'[b] \in {"queued"} \cup Results => b # a /\ at'[b] = at[b]
      BY <1>5, <2>1 DEF IInv, TypeOK, Scan, Move, Results
    <3>3. \A b \in Agents, g \in Files :
            \/ pre'[b][g] = pre[b][g]
            \/ b = a /\ g = f /\ pre'[b][g] = "out"
            \/ b = a /\ g = f /\ pre'[b][g] = primary[f]
      BY <1>5 DEF IInv, TypeOK, Scan
    <3>4. \A b \in Agents : b # a => pre'[b] = pre[b]
      BY <1>5 DEF IInv, TypeOK, Scan
    <3>5. (ReadsFresh => primary[f] = base[a][f]) /\ base' = base
      BY <1>5 DEF Scan
    <3>6. \A b \in Agents, g \in Files :
            \/ pre'[b][g] = pre[b][g] /\ post'[b][g] = post[b][g]
            \/ pre'[b][g] = "out"
            \/ post'[b][g] \in Content
      <4>1. \A b \in Agents, g \in Files : ~(b = a /\ g = f) =>
              pre'[b][g] = pre[b][g] /\ post'[b][g] = post[b][g]
        BY <1>5 DEF IInv, TypeOK, Scan
      <4>2. \/ pre'[a][f] = pre[a][f] /\ post'[a][f] = post[a][f]
            \/ pre'[a][f] = "out"
            \/ post'[a][f] \in Content
        BY <1>5, <2>2 DEF IInv, TypeOK, Scan
      <4> QED
        BY <4>1, <4>2
    <3>7. ReadsFresh => \A b \in Agents, g \in Files : pre'[b][g] \in Content => pre'[b][g] = base'[b][g]
      BY <3>1, <3>3, <3>5 DEF IInv, ChangesetInv
    <3>8. \A b \in Agents : at'[b] \in {"queued"} \cup Results => \A g \in Files : pre'[b][g] # "unscanned"
      BY <3>2, <3>4 DEF IInv, ChangesetInv
    <3>9. Content' = Content
      BY DEF Content
    <3> QED
      BY <3>6, <3>7, <3>8, <3>9 DEF IInv, ChangesetInv
  <2>6. MergeInv'
    <3>1. merge # Idle => merge.who # a /\ merge.who \in Agents
      BY <2>1 DEF IInv, TypeOK
    <3>2. UNCHANGED <<primary, merge>> /\ \A b \in Agents : b # a => pre'[b] = pre[b]
      BY <1>5 DEF IInv, TypeOK, Scan
    <3>3. ASSUME merge # Idle PROVE Changes(merge.who)' = Changes(merge.who)
      BY <3>1, <3>2, <3>3 DEF Changes
    <3> QED
      BY <3>1, <3>2, <3>3 DEF IInv, MergeInv, On
  <2> QED
    BY <2>3, <2>4, <2>5, <2>6 DEF IInv
<1>6. CASE Enqueue(a)
  <2>1. /\ at[a] = "scanning" /\ at' = [at EXCEPT ![a] = "queued"]
        /\ queue' = Append(queue, a) /\ queue \in Seq(Agents)
        /\ UNCHANGED <<primary, base, work, pre, post, merge, touched, applied, stopped, outside>>
        /\ \A f \in Files : pre[a][f] # "unscanned"
    BY <1>6 DEF IInv, TypeOK, Enqueue, Move, copyVars, resultVars
  <2>2. TypeOK'
    BY <2>1 DEF IInv, TypeOK, At
  <2>3. QueueInv'
    <3>1. \A i \in 1 .. Len(queue) : queue[i] # a /\ queue[i] \in Agents
      BY <2>1 DEF IInv, QueueInv
    <3>2. merge # Idle => merge.who # a
      BY <2>1 DEF IInv, TypeOK
    <3>3. at \in [Agents -> At]
      BY DEF IInv, TypeOK
    <3> QED
      BY <2>1, <3>1, <3>2, <3>3 DEF IInv, QueueInv
  <2>4. ChangesetInv'
    BY <2>1 DEF IInv, TypeOK, ChangesetInv, Results
  <2>5. MergeInv'
    BY <2>1 DEF IInv, MergeInv, On, Changes
  <2> QED
    BY <2>2, <2>3, <2>4, <2>5 DEF IInv
<1>7. CASE Fails(a)
  BY <1>7 DEF IInv, TypeOK, QueueInv, ChangesetInv, MergeInv, Fails, Outside, Move, At, Results,
    Changes, On, copyVars, resultVars
<1> QED
  BY <1>1, <1>2, <1>3, <1>4, <1>5, <1>6, <1>7

\* The operator's edits are never taken for an agent's.
LEMMA OperatorStepHolds ==
  ASSUME IInv, NEW f \in Files, OperatorEdits(f) PROVE IInv'
<1> USE MergeAssumption
<1>1. TypeOK'
  BY DEF IInv, TypeOK, OperatorEdits, Outside, Content, copyVars, resultVars
<1>2. QueueInv'
  BY StandingKept DEF IInv, OperatorEdits
<1>3. ChangesetInv'
  BY DEF IInv, ChangesetInv, OperatorEdits, copyVars
<1>4. MergeInv'
  <2>1. \A g \in Files : primary'[g] \in Agents => primary'[g] = primary[g]
    BY DEF IInv, TypeOK, OperatorEdits
  <2>2. merge # Idle /\ On("replace") => merge.file \in Files
    BY DEF IInv, TypeOK, On
  <2> QED
    BY <2>1, <2>2 DEF IInv, MergeInv, OperatorEdits, On, Changes, copyVars
<1> QED
  BY <1>1, <1>2, <1>3, <1>4 DEF IInv

\* What is known of the item in hand.
LEMMA InHand ==
  ASSUME IInv, merge # Idle
  PROVE  /\ merge.who \in Agents /\ at[merge.who] = "queued"
         /\ merge \in [who : Agents, stage : Stages, left : SUBSET Files, file : Files \cup {"none"}]
         /\ merge.left \subseteq Changes(merge.who)
         /\ merge.stage # "idle"
         /\ merge.stage \in {"replace", "verify"} => merge.file \in Files
BY DEF IInv, TypeOK, MergeInv, Stages

\* An answer takes the item out of hand and leaves the rest of the queue as it was.
LEMMA AnswerHolds ==
  ASSUME IInv, merge # Idle, NEW result \in Results, NEW named \in Files \cup {"none"},
         Answer(result, named), UNCHANGED <<queue, base, work, pre, post>>,
         primary' \in [Files -> Content],
         touched' \in [Agents -> SUBSET Files], applied' \in [Agents -> SUBSET Files],
         outside' \in 0 .. MaxOutside
  PROVE  IInv'
<1> USE MergeAssumption
<1>1. merge.who \in Agents /\ at[merge.who] = "queued"
  BY InHand
<1>2. /\ at' = [at EXCEPT ![merge.who] = result] /\ merge' = Idle
      /\ stopped' = [stopped EXCEPT ![merge.who] = named]
  BY DEF Answer, Move
<1>3. TypeOK'
  BY <1>1, <1>2 DEF IInv, TypeOK, At
<1>4. QueueInv'
  <2>1. \A i \in 1 .. Len(queue) : queue[i] \in Agents /\ queue[i] # merge.who
    BY DEF IInv, TypeOK, QueueInv
  <2>2. \A b \in Agents : b # merge.who => at'[b] = at[b]
    BY <1>1, <1>2 DEF IInv, TypeOK
  <2> QED
    BY <1>2, <2>1, <2>2 DEF IInv, QueueInv
<1>5. ChangesetInv'
  BY <1>1, <1>2 DEF IInv, TypeOK, ChangesetInv
<1>6. MergeInv'
  BY <1>2 DEF MergeInv
<1> QED
  BY <1>3, <1>4, <1>5, <1>6 DEF IInv

\* A step within a merge changes the stage, the files left or the file in hand.
LEMMA WithinHolds ==
  ASSUME IInv, merge # Idle,
         NEW stage \in Stages, NEW left \in SUBSET Files, NEW file \in Files \cup {"none"},
         merge' = [who |-> merge.who, stage |-> stage, left |-> left, file |-> file],
         left \subseteq Changes(merge.who),
         stage \in {"replace", "verify"} => file \in left,
         stage = "replace" /\ primary'[file] \in Agents => primary'[file] = pre[merge.who][file],
         UNCHANGED <<queue, base, work, pre, post, at, stopped>>,
         primary' \in [Files -> Content],
         touched' \in [Agents -> SUBSET Files], applied' \in [Agents -> SUBSET Files],
         outside' \in 0 .. MaxOutside
  PROVE  IInv'
<1> USE MergeAssumption
<1>1. merge.who \in Agents /\ at[merge.who] = "queued"
  BY InHand
<1>2. TypeOK'
  BY <1>1 DEF IInv, TypeOK
<1>3. QueueInv'
  BY <1>1 DEF IInv, QueueInv, Idle
<1>4. ChangesetInv'
  BY DEF IInv, ChangesetInv
<1>5. MergeInv'
  BY DEF MergeInv, On, Changes
<1> QED
  BY <1>2, <1>3, <1>4, <1>5 DEF IInv

\* The next item in hand is one that waited.
LEMMA ProcessNextHolds == ASSUME IInv, ProcessNext PROVE IInv'
<1> USE MergeAssumption
<1> DEFINE a == Head(queue)
<1>1. /\ merge = Idle /\ queue # <<>> /\ queue \in Seq(Agents)
      /\ queue' = Tail(queue)
      /\ merge' = [who |-> a, stage |-> "validate", left |-> Changes(a), file |-> "none"]
      /\ UNCHANGED <<primary, base, work, pre, post, at, touched, applied, stopped, outside>>
  BY DEF ProcessNext, IInv, TypeOK, copyVars, resultVars
<1>2. /\ a \in Agents /\ a = queue[1] /\ Len(queue) \in Nat \ {0}
      /\ Len(queue') = Len(queue) - 1 /\ queue' \in Seq(Agents)
      /\ \A i \in 1 .. Len(queue') : queue'[i] = queue[i + 1]
  BY <1>1
<1>3. at[a] = "queued" /\ \A i \in 1 .. Len(queue') : queue'[i] # a /\ at[queue'[i]] = "queued"
  BY <1>2 DEF IInv, QueueInv
<1>4. \A i, j \in 1 .. Len(queue') : queue'[i] = queue'[j] => i = j
  BY <1>2 DEF IInv, QueueInv
<1>5. Changes(a) \subseteq Files
  BY DEF Changes
<1>6. TypeOK'
  BY <1>1, <1>2, <1>3, <1>5 DEF IInv, TypeOK, Stages
<1>7. QueueInv'
  BY <1>1, <1>3, <1>4 DEF QueueInv
<1>8. ChangesetInv' /\ MergeInv'
  BY <1>1 DEF IInv, ChangesetInv, MergeInv, On, Changes
<1> QED
  BY <1>6, <1>7, <1>8 DEF IInv

\* Whatever the queue does next preserves the invariant.
LEMMA QueueStepHolds == ASSUME IInv, QueueStep PROVE IInv'
<1> USE MergeAssumption
<1> DEFINE a == merge.who
<1>1. CASE ProcessNext
  BY <1>1, ProcessNextHolds
<1>2. ASSUME merge # Idle PROVE IInv'
  <2>1. /\ a \in Agents /\ at[a] = "queued"
        /\ merge \in [who : Agents, stage : Stages, left : SUBSET Files, file : Files \cup {"none"}]
        /\ merge.left \subseteq Changes(a)
        /\ merge.stage \in {"replace", "verify"} => merge.file \in Files /\ merge.file \in merge.left
    BY <1>2, InHand DEF IInv, TypeOK
  <2>2. /\ primary \in [Files -> Content] /\ touched \in [Agents -> SUBSET Files]
        /\ applied \in [Agents -> SUBSET Files] /\ outside \in 0 .. MaxOutside
        /\ post \in [Agents -> [Files -> Content \cup {"out"}]]
    BY DEF IInv, TypeOK
  <2>3. Changes(a) \subseteq Files
    BY DEF Changes
  <2>4. ASSUME NEW f \in Files, Validate(f) PROVE IInv'
    <3>1. PICK s \in {"validate", "refuse"} :
            merge' = [who |-> a, stage |-> s, left |-> merge.left \ {f}, file |-> merge.file]
      BY <2>1, <2>4 DEF Validate
    <3>2. s \in Stages /\ s \notin {"replace", "verify"}
      BY DEF Stages
    <3>3. UNCHANGED <<queue, base, work, pre, post, at, stopped, primary, touched, applied, outside>>
      BY <2>4 DEF Validate, copyVars, resultVars
    <3>4. /\ merge.left \ {f} \in SUBSET Files /\ merge.left \ {f} \subseteq Changes(a)
          /\ merge.file \in Files \cup {"none"}
      BY <2>1
    <3> QED
      BY <1>2, <2>2, <3>1, <3>2, <3>3, <3>4, WithinHolds
  <2>5. CASE Refuse
    BY <1>2, <2>2, <2>5, AnswerHolds DEF Refuse, Results, copyVars
  <2>6. CASE Validated
    <3>1. merge' = [who |-> a, stage |-> "read", left |-> Changes(a), file |-> merge.file]
      BY <2>1, <2>6 DEF Validated
    <3>2. UNCHANGED <<queue, base, work, pre, post, at, stopped, primary, touched, applied, outside>>
      BY <2>6 DEF Validated, copyVars, resultVars
    <3>3. merge.file \in Files \cup {"none"}
      BY <2>1
    <3> QED
      BY <1>2, <2>2, <2>3, <3>1, <3>2, <3>3, WithinHolds DEF Stages
  <2>7. ASSUME NEW f \in Files, ReadSource(f) PROVE IInv'
    <3>1. CASE Answer("error", f)
      BY <1>2, <2>2, <2>7, <3>1, AnswerHolds DEF ReadSource, Results, copyVars
    <3>2. CASE merge' = [merge EXCEPT !.left = @ \ {f}] /\ UNCHANGED <<at, stopped>>
      <4>1. merge' = [who |-> a, stage |-> "read", left |-> merge.left \ {f}, file |-> merge.file]
        BY <2>1, <2>7, <3>2 DEF ReadSource, On
      <4> QED
        BY <1>2, <2>1, <2>2, <2>7, <3>2, <4>1, WithinHolds DEF ReadSource, Stages, copyVars
    <3> QED
      BY <2>7, <3>1, <3>2 DEF ReadSource
  <2>8. CASE SourcesRead
    <3>1. merge' = [who |-> a, stage |-> "check", left |-> Changes(a), file |-> merge.file]
      BY <2>1, <2>8 DEF SourcesRead
    <3>2. UNCHANGED <<queue, base, work, pre, post, at, stopped, primary, touched, applied, outside>>
      BY <2>8 DEF SourcesRead, copyVars, resultVars
    <3>3. merge.file \in Files \cup {"none"}
      BY <2>1
    <3> QED
      BY <1>2, <2>2, <2>3, <3>1, <3>2, <3>3, WithinHolds DEF Stages
  <2>9. ASSUME NEW f \in Files, Check(f) PROVE IInv'
    <3>1. CASE ~Matches(a, f)
      BY <1>2, <2>2, <2>9, <3>1, AnswerHolds DEF Check, Results, copyVars
    <3>2. CASE Matches(a, f)
      <4>1. merge' = [who |-> a, stage |-> "replace", left |-> merge.left, file |-> f]
        BY <2>1, <2>9, <3>2 DEF Check
      <4>2. primary' \in [Files -> Content] /\ touched' \in [Agents -> SUBSET Files]
        <5>1. "torn" \in Content
          BY DEF Content
        <5>2. CASE primary[f] = "none"
          BY <2>1, <2>2, <2>9, <3>2, <5>1, <5>2 DEF Check
        <5>3. CASE primary[f] # "none"
          BY <2>2, <2>9, <3>2, <5>3 DEF Check
        <5> QED
          BY <5>2, <5>3
      <4>3. primary'[f] \in Agents => primary'[f] = pre[a][f]
        BY <2>2, <2>9, <3>2 DEF Check, Matches
      <4>4. f \in merge.left
        BY <2>9 DEF Check
      <4>5. UNCHANGED <<queue, base, work, pre, post, at, stopped, applied, outside>>
        BY <2>9, <3>2 DEF Check, copyVars
      <4> QED
        BY <1>2, <2>1, <2>2, <4>1, <4>2, <4>3, <4>4, <4>5, WithinHolds DEF Stages
    <3> QED
      BY <3>1, <3>2
  <2>10. CASE Replace
    <3> DEFINE f == merge.file
    <3>1. PICK c \in {post[a][f], "torn"} :
            /\ IF primary[f] \in {"none", "link"}
               THEN UNCHANGED <<primary, touched>>
               ELSE /\ primary' = [primary EXCEPT ![f] = c]
                    /\ touched' = [touched EXCEPT ![a] = @ \cup {f}]
            /\ \/ c = post[a][f] /\ merge' = [merge EXCEPT !.stage = "verify"]
                  /\ UNCHANGED <<at, stopped, outside>>
               \/ c = "torn" /\ Outside /\ Answer("error", f)
      BY <2>10 DEF Replace
    <3>2. merge.stage = "replace" /\ UNCHANGED <<base, work, pre, post, queue, applied>>
      BY <2>10 DEF Replace, On, copyVars
    <3>3. f \in Files /\ f \in merge.left /\ post[a][f] \in Content
      <4>1. f \in Files /\ f \in merge.left /\ f \in Changes(a)
        BY <2>1, <3>2
      <4> QED
        BY <4>1, <2>1 DEF IInv, ChangesetInv, Changes
    <3>4. c \in Content
      BY <3>3 DEF Content
    <3>5. primary' \in [Files -> Content] /\ touched' \in [Agents -> SUBSET Files]
      <4>1. CASE primary[f] \in {"none", "link"}
        BY <2>2, <3>1, <4>1
      <4>2. CASE primary[f] \notin {"none", "link"}
        <5>1. /\ primary' = [primary EXCEPT ![f] = c]
              /\ touched' = [touched EXCEPT ![a] = @ \cup {f}]
          BY <3>1, <4>2
        <5> QED
          BY <2>1, <2>2, <3>3, <3>4, <5>1
      <4> QED
        BY <4>1, <4>2
    <3>6. CASE c = post[a][f] /\ merge' = [merge EXCEPT !.stage = "verify"]
               /\ UNCHANGED <<at, stopped, outside>>
      <4>1. merge' = [who |-> a, stage |-> "verify", left |-> merge.left, file |-> f]
        BY <2>1, <3>6
      <4> QED
        BY <1>2, <2>1, <2>2, <3>1, <3>2, <3>3, <3>5, <3>6, <4>1, WithinHolds DEF Stages
    <3>7. CASE Outside /\ Answer("error", f)
      BY <1>2, <2>2, <3>1, <3>2, <3>3, <3>5, <3>7, AnswerHolds DEF Outside, Results
    <3> QED
      BY <3>1, <3>6, <3>7
  <2>11. CASE Verify
    <3>1. merge.stage = "verify" /\ merge.file \in Files
      BY <2>1, <2>11 DEF Verify, On
    <3>2. CASE primary[merge.file] # post[a][merge.file]
      BY <1>2, <2>2, <2>11, <3>1, <3>2, AnswerHolds DEF Verify, Results, copyVars
    <3>3. CASE primary[merge.file] = post[a][merge.file]
      <4>1. merge' = [who |-> a, stage |-> "check", left |-> merge.left \ {merge.file}, file |-> "none"]
        BY <2>1, <2>11, <3>3 DEF Verify
      <4>2. applied' \in [Agents -> SUBSET Files]
        BY <2>1, <2>2, <2>11, <3>1, <3>3 DEF Verify
      <4>3. UNCHANGED <<primary, queue, base, work, pre, post, at, stopped, touched, outside>>
        BY <2>11, <3>3 DEF Verify, copyVars
      <4> QED
        BY <1>2, <2>1, <2>2, <4>1, <4>2, <4>3, WithinHolds DEF Stages
    <3> QED
      BY <3>2, <3>3
  <2>12. CASE Merged
    BY <1>2, <2>2, <2>12, AnswerHolds DEF Merged, Results, copyVars
  <2>13. ASSUME NEW f \in Files, Unreadable(f) PROVE IInv'
    BY <1>2, <2>2, <2>13, AnswerHolds DEF Unreadable, Outside, Results, copyVars
  <2> QED
    BY <1>2, <2>4, <2>5, <2>6, <2>7, <2>8, <2>9, <2>10, <2>11, <2>12, <2>13 DEF QueueStep, ProcessNext
<1>3. ASSUME merge = Idle, ~ProcessNext PROVE FALSE
  BY <1>3 DEF QueueStep, Refuse, Validated, SourcesRead, Replace, Verify, Merged, Validate,
    ReadSource, Check, Unreadable, On, Idle
<1> QED
  BY <1>1, <1>2, <1>3

\* The invariant holds in every reachable state.
LEMMA Inductive == Spec => []IInv
<1>1. IInv /\ [Next]_vars => IInv'
  <2> SUFFICES ASSUME IInv, [Next]_vars PROVE IInv'
    OBVIOUS
  <2>1. CASE UNCHANGED vars
    BY <2>1 DEF vars, IInv, TypeOK, QueueInv, ChangesetInv, MergeInv, On, Changes
  <2>2. CASE Next
    BY <2>2, AgentStepHolds, OperatorStepHolds, QueueStepHolds DEF Next
  <2> QED
    BY <2>1, <2>2
<1> QED
  BY <1>1, InitHolds, PTL DEF Spec

\* TypeOK: the item in hand is one that was queued and has no answer yet.
THEOREM TypeCorrect == Spec => []TypeOK
<1>1. IInv => TypeOK
  BY DEF IInv
<1> QED
  BY <1>1, Inductive, PTL

\* SiblingWorkKept: when every file is inspected before anything else changes it,
\* process_next replaces no work of another agent that the copy did not hold.
THEOREM SiblingsAreKept == ASSUME ReadsFresh PROVE Spec => SiblingWorkKept
<1> DEFINE Kept ==
      \A f \in Files :
        /\ merge.stage \in {"check", "replace"} /\ merge' # merge
        /\ primary[f] \in Agents
        /\ primary'[f] # primary[f]
        => base[merge.who][f] = primary[f]
<1>1. IInv /\ [Next]_vars => [Kept]_vars
  <2> SUFFICES ASSUME IInv, [Next]_vars, NEW f \in Files,
                      merge.stage \in {"check", "replace"}, merge' # merge,
                      primary[f] \in Agents, primary'[f] # primary[f]
               PROVE  base[merge.who][f] = primary[f]
    OBVIOUS
  <2>1. merge # Idle
    BY DEF Idle
  <2>2. merge.who \in Agents /\ merge.left \subseteq Changes(merge.who)
    BY <2>1, InHand
  <2>3. primary[f] \in Content /\ primary[f] # "none"
    BY MergeAssumption DEF Content
  <2>4. pre[merge.who][f] = primary[f] => base[merge.who][f] = primary[f]
    BY <2>2, <2>3 DEF IInv, ChangesetInv
  <2>5. CASE Replace
    <3>1. f = merge.file
      BY <2>5 DEF Replace, IInv, TypeOK
    <3>2. pre[merge.who][f] = primary[f]
      BY <2>1, <2>5, <3>1 DEF IInv, MergeInv, Replace
    <3> QED
      BY <2>4, <3>2
  <2>6. ASSUME NEW g \in Files, Check(g) PROVE FALSE
    BY <2>3, <2>6 DEF Check, IInv, TypeOK
  <2>7. CASE QueueStep
    BY <2>1, <2>5, <2>6, <2>7 DEF QueueStep, ProcessNext, Refuse, Validated, SourcesRead, Verify,
      Merged, Validate, ReadSource, Unreadable
  <2>8. CASE UNCHANGED vars
    BY <2>8 DEF vars
  <2> QED
    BY <2>7, <2>8 DEF Next, Copied, Inspect, Fails, Enqueue, Copy, AgentEdits, Scan, OperatorEdits
<1> QED
  BY <1>1, Inductive, PTL DEF Spec, SiblingWorkKept

--------------------------------------------------------------------------------
(* What an answer says was written.                                           *)

\* Nothing was written for an agent whose changeset was not taken in hand.
UntouchedBefore ==
  \A a \in Agents : at[a] \notin Results /\ merge.who # a => touched[a] = {} /\ applied[a] = {}

\* The item in hand: nothing is written before every source was read; from then on
\* what is named as applied is what is no longer left, and only the file in hand
\* may be written and not named.
InHandAccounts ==
  LET a == merge.who IN
    /\ merge.stage \in {"validate", "refuse", "read"} => touched[a] = {} /\ applied[a] = {}
    /\ merge.stage \in {"check", "replace", "verify"} => applied[a] = Changes(a) \ merge.left
    /\ merge.stage = "check" => touched[a] \subseteq applied[a]
    /\ merge.stage \in {"replace", "verify"} => touched[a] \subseteq applied[a] \cup {merge.file}

\* AnswerAccounts, but that an answered merge may name a file it did not write:
\* the operator took the file away and put the same content there.
WritesAreNamed ==
  \A a \in Agents :
    /\ at[a] = "conflict" => touched[a] = {}
    /\ at[a] = "merged"   => touched[a] \subseteq applied[a] /\ applied[a] = Changes(a)
    /\ at[a] = "error"    => touched[a] \subseteq applied[a] \cup {stopped[a]}

AccountInv == UntouchedBefore /\ InHandAccounts /\ WritesAreNamed

\* Agents, inspect_changes and the operator leave the account of every merge alone.
LEMMA OthersKeepAccount ==
  ASSUME IInv, AccountInv,
         \/ \E a \in Agents : Copied(a) \/ Inspect(a) \/ Fails(a) \/ Enqueue(a)
         \/ \E a \in Agents, f \in Files : Copy(a, f) \/ AgentEdits(a, f) \/ Scan(a, f)
         \/ \E f \in Files : OperatorEdits(f)
  PROVE  AccountInv'
<1>1. UNCHANGED <<merge, touched, applied, stopped>>
  BY DEF Copied, Inspect, Fails, Enqueue, Copy, AgentEdits, Scan, OperatorEdits, copyVars, resultVars
<1>2. at \in [Agents -> At] /\ pre \in [Agents -> [Files -> Content \cup {"unscanned", "out"}]]
  BY DEF IInv, TypeOK
<1>3. \A b \in Agents : at'[b] = at[b] \/ (at[b] \notin Results /\ at'[b] \notin Results)
  BY <1>2 DEF Copied, Inspect, Fails, Enqueue, Copy, AgentEdits, Scan, OperatorEdits, Move, Results
<1>4. \A b \in Agents : at[b] # "scanning" => pre'[b] = pre[b]
  BY <1>2 DEF Copied, Inspect, Fails, Enqueue, Copy, AgentEdits, Scan, OperatorEdits, copyVars
<1>5. UntouchedBefore'
  BY <1>1, <1>3 DEF AccountInv, UntouchedBefore, Results
<1>6. InHandAccounts'
  <2>1. CASE merge = Idle
    BY <1>1, <2>1 DEF InHandAccounts, Idle
  <2>2. CASE merge # Idle
    <3>1. merge.who \in Agents /\ at[merge.who] # "scanning"
      BY <2>2, InHand
    <3>2. Changes(merge.who)' = Changes(merge.who)
      BY <1>1, <1>4, <3>1 DEF Changes
    <3> QED
      BY <1>1, <3>2 DEF AccountInv, InHandAccounts
  <2> QED
    BY <2>1, <2>2
<1>7. WritesAreNamed'
  <2> SUFFICES ASSUME NEW b \in Agents
               PROVE  /\ at'[b] = "conflict" => touched'[b] = {}
                      /\ at'[b] = "merged" => touched'[b] \subseteq applied'[b] /\ applied'[b] = Changes(b)'
                      /\ at'[b] = "error" => touched'[b] \subseteq applied'[b] \cup {stopped'[b]}
    BY DEF WritesAreNamed
  <2>1. CASE at'[b] \in Results
    <3>1. at'[b] = at[b] /\ at[b] # "scanning"
      BY <1>3, <2>1 DEF Results
    <3>2. Changes(b)' = Changes(b)
      BY <1>4, <3>1 DEF Changes
    <3> QED
      BY <1>1, <3>1, <3>2 DEF AccountInv, WritesAreNamed
  <2>2. CASE at'[b] \notin Results
    BY <2>2 DEF Results
  <2> QED
    BY <2>1, <2>2
<1> QED
  BY <1>5, <1>6, <1>7 DEF AccountInv

\* An answer: what it says of the item it is about is all there is to see to.
LEMMA AnswerKeepsAccount ==
  ASSUME IInv, AccountInv, merge # Idle,
         NEW result \in Results, NEW named \in Files \cup {"none"},
         Answer(result, named), UNCHANGED <<pre, applied>>,
         \A b \in Agents : b # merge.who => touched'[b] = touched[b],
         result = "conflict" => touched'[merge.who] = {},
         result = "merged" => /\ touched'[merge.who] \subseteq applied[merge.who]
                              /\ applied[merge.who] = Changes(merge.who),
         result = "error" => touched'[merge.who] \subseteq applied[merge.who] \cup {named}
  PROVE  AccountInv'
<1>1. merge.who \in Agents /\ merge' = Idle
  BY InHand DEF Answer
<1>2. /\ at' = [at EXCEPT ![merge.who] = result] /\ at \in [Agents -> At]
      /\ stopped' = [stopped EXCEPT ![merge.who] = named] /\ stopped \in [Agents -> Files \cup {"none"}]
  BY DEF Answer, Move, IInv, TypeOK
<1>3. /\ at'[merge.who] = result /\ stopped'[merge.who] = named
      /\ \A b \in Agents : b # merge.who => at'[b] = at[b] /\ stopped'[b] = stopped[b]
  BY <1>1, <1>2
<1>4. \A b \in Agents : Changes(b)' = Changes(b)
  BY DEF Changes
<1>5. UntouchedBefore'
  BY <1>1, <1>3 DEF AccountInv, UntouchedBefore
<1>6. InHandAccounts'
  BY <1>1 DEF InHandAccounts, Idle
<1>7. WritesAreNamed'
  <2> SUFFICES ASSUME NEW b \in Agents
               PROVE  /\ at'[b] = "conflict" => touched'[b] = {}
                      /\ at'[b] = "merged" => touched'[b] \subseteq applied'[b] /\ applied'[b] = Changes(b)'
                      /\ at'[b] = "error" => touched'[b] \subseteq applied'[b] \cup {stopped'[b]}
    BY DEF WritesAreNamed
  <2>1. CASE b = merge.who
    BY <1>3, <1>4, <2>1
  <2>2. CASE b # merge.who
    BY <1>3, <1>4, <2>2 DEF AccountInv, WritesAreNamed
  <2> QED
    BY <2>1, <2>2
<1> QED
  BY <1>5, <1>6, <1>7 DEF AccountInv

\* A step within a merge: the account of the item in hand is all there is to see to.
LEMMA WithinKeepsAccount ==
  ASSUME IInv, AccountInv, merge # Idle, merge'.who = merge.who, UNCHANGED <<pre, at, stopped>>,
         \A b \in Agents : b # merge.who => touched'[b] = touched[b] /\ applied'[b] = applied[b],
         InHandAccounts'
  PROVE  AccountInv'
<1>1. at[merge.who] = "queued"
  BY InHand
<1>2. \A b \in Agents : Changes(b)' = Changes(b)
  BY DEF Changes
<1>3. UntouchedBefore'
  BY DEF AccountInv, UntouchedBefore
<1>4. \A b \in Agents : at[b] \in Results => b # merge.who
  BY <1>1 DEF Results
<1>5. WritesAreNamed'
  BY <1>2, <1>4 DEF AccountInv, WritesAreNamed, Results
<1> QED
  BY <1>3, <1>5 DEF AccountInv

\* Whatever the queue does next, the account of the item in hand stays true.
LEMMA QueueKeepsAccount == ASSUME IInv, AccountInv, QueueStep PROVE AccountInv'
<1> DEFINE a == merge.who
<1>1. CASE ProcessNext
  <2>1. /\ merge = Idle /\ merge' = [who |-> Head(queue), stage |-> "validate",
                                     left |-> Changes(Head(queue)), file |-> "none"]
        /\ UNCHANGED <<pre, at, touched, applied, stopped>>
    BY <1>1 DEF ProcessNext, copyVars, resultVars
  <2>2. Head(queue) \in Agents /\ at[Head(queue)] = "queued"
    BY <1>1 DEF ProcessNext, IInv, TypeOK, QueueInv
  <2>3. merge.who \notin Agents
    BY <2>1, MergeAssumption DEF Idle
  <2>4. UntouchedBefore'
    BY <2>1, <2>3 DEF AccountInv, UntouchedBefore, Results
  <2>5. touched[Head(queue)] = {} /\ applied[Head(queue)] = {}
    BY <2>2, <2>3 DEF AccountInv, UntouchedBefore, Results
  <2>6. InHandAccounts'
    BY <2>1, <2>5 DEF InHandAccounts
  <2>7. \A b \in Agents : Changes(b)' = Changes(b)
    BY <2>1 DEF Changes
  <2>8. WritesAreNamed'
    BY <2>1, <2>7 DEF AccountInv, WritesAreNamed
  <2> QED
    BY <2>4, <2>6, <2>8 DEF AccountInv
<1>2. ASSUME merge # Idle PROVE AccountInv'
  <2>1. /\ a \in Agents
        /\ merge \in [who : Agents, stage : Stages, left : SUBSET Files, file : Files \cup {"none"}]
        /\ merge.left \subseteq Changes(a) /\ Changes(a) \subseteq Files
        /\ merge.stage \in {"replace", "verify"} => merge.file \in Files /\ merge.file \in merge.left
    BY <1>2, InHand DEF IInv, TypeOK, Changes
  <2>2. /\ merge.stage \in {"validate", "refuse", "read"} => touched[a] = {} /\ applied[a] = {}
        /\ merge.stage \in {"check", "replace", "verify"} => applied[a] = Changes(a) \ merge.left
        /\ merge.stage = "check" => touched[a] \subseteq applied[a]
        /\ merge.stage \in {"replace", "verify"} => touched[a] \subseteq applied[a] \cup {merge.file}
    BY DEF AccountInv, InHandAccounts
  <2>3. touched \in [Agents -> SUBSET Files] /\ applied \in [Agents -> SUBSET Files]
    BY DEF IInv, TypeOK
  <2>4. ASSUME UNCHANGED pre PROVE \A b \in Agents : Changes(b)' = Changes(b)
    BY <2>4 DEF Changes
  <2>5. ASSUME NEW f \in Files, Validate(f) PROVE AccountInv'
    <3>1. /\ merge'.who = a /\ merge'.stage \in {"validate", "refuse"}
          /\ merge.stage \in {"validate", "refuse"}
          /\ UNCHANGED <<pre, at, stopped, touched, applied>>
      BY <2>1, <2>5 DEF Validate, copyVars, resultVars
    <3>2. InHandAccounts'
      BY <2>2, <3>1 DEF InHandAccounts
    <3> QED
      BY <1>2, <3>1, <3>2, WithinKeepsAccount
  <2>6. CASE Refuse
    <3>1. touched[a] = {} /\ UNCHANGED <<pre, touched, applied>> /\ Answer("conflict", "none")
      BY <2>2, <2>6 DEF Refuse, On, copyVars
    <3> QED
      BY <1>2, <3>1, AnswerKeepsAccount DEF Results
  <2>7. CASE Validated
    <3>1. /\ merge'.who = a /\ merge'.stage = "read" /\ merge.stage = "validate"
          /\ UNCHANGED <<pre, at, stopped, touched, applied>>
      BY <2>1, <2>7 DEF Validated, On, copyVars, resultVars
    <3>2. InHandAccounts'
      BY <2>2, <3>1 DEF InHandAccounts
    <3> QED
      BY <1>2, <3>1, <3>2, WithinKeepsAccount
  <2>8. ASSUME NEW f \in Files, ReadSource(f) PROVE AccountInv'
    <3>1. merge.stage = "read" /\ UNCHANGED <<pre, touched, applied>>
      BY <2>8 DEF ReadSource, On, copyVars
    <3>2. CASE Answer("error", f)
      BY <1>2, <2>2, <3>1, <3>2, AnswerKeepsAccount DEF Results
    <3>3. CASE merge' = [merge EXCEPT !.left = @ \ {f}] /\ UNCHANGED <<at, stopped>>
      <4>1. merge'.who = a /\ merge'.stage = "read"
        BY <2>1, <3>1, <3>3
      <4>2. InHandAccounts'
        BY <2>2, <3>1, <4>1 DEF InHandAccounts
      <4> QED
        BY <1>2, <3>1, <3>3, <4>1, <4>2, WithinKeepsAccount
    <3> QED
      BY <2>8, <3>2, <3>3 DEF ReadSource
  <2>9. CASE SourcesRead
    <3>1. /\ merge'.who = a /\ merge'.stage = "check" /\ merge'.left = Changes(a)
          /\ merge.stage = "read" /\ UNCHANGED <<pre, at, stopped, touched, applied>>
      BY <2>1, <2>9 DEF SourcesRead, On, copyVars, resultVars
    <3>2. Changes(merge.who)' = Changes(a)
      BY <3>1 DEF Changes
    <3>3. InHandAccounts'
      BY <2>2, <3>1, <3>2 DEF InHandAccounts
    <3> QED
      BY <1>2, <3>1, <3>3, WithinKeepsAccount
  <2>10. ASSUME NEW f \in Files, Check(f) PROVE AccountInv'
    <3>1. merge.stage = "check" /\ UNCHANGED <<pre, applied>>
      BY <2>10 DEF Check, On, copyVars
    <3>2. CASE Answer("error", f) /\ UNCHANGED touched
      BY <1>2, <2>2, <3>1, <3>2, AnswerKeepsAccount DEF Results
    <3>3. CASE Matches(a, f)
      <4>1. /\ merge'.who = a /\ merge'.stage = "replace" /\ merge'.left = merge.left
            /\ merge'.file = f /\ UNCHANGED <<at, stopped>>
        BY <2>1, <2>10, <3>3 DEF Check
      <4>2. touched' = touched \/ touched' = [touched EXCEPT ![a] = @ \cup {f}]
        BY <2>10, <3>3 DEF Check
      <4>3. /\ \A b \in Agents : b # a => touched'[b] = touched[b]
            /\ touched'[a] \subseteq touched[a] \cup {f}
        BY <2>1, <2>3, <4>2
      <4>4. Changes(merge.who)' = Changes(a)
        BY <3>1, <4>1 DEF Changes
      <4>5. InHandAccounts'
        BY <2>2, <3>1, <4>1, <4>3, <4>4 DEF InHandAccounts
      <4> QED
        BY <1>2, <3>1, <4>1, <4>3, <4>5, WithinKeepsAccount
    <3> QED
      BY <2>10, <3>2, <3>3 DEF Check
  <2>11. CASE Replace
    <3>1. merge.stage = "replace" /\ UNCHANGED <<pre, applied>>
      BY <2>11 DEF Replace, On, copyVars
    <3>2. touched' = touched \/ touched' = [touched EXCEPT ![a] = @ \cup {merge.file}]
      BY <2>11 DEF Replace
    <3>3. /\ \A b \in Agents : b # a => touched'[b] = touched[b]
          /\ touched'[a] \subseteq touched[a] \cup {merge.file}
      BY <2>1, <2>3, <3>2
    <3>4. CASE Answer("error", merge.file)
      BY <1>2, <2>1, <2>2, <3>1, <3>3, <3>4, AnswerKeepsAccount DEF Results
    <3>5. CASE merge' = [merge EXCEPT !.stage = "verify"] /\ UNCHANGED <<at, stopped>>
      <4>1. /\ merge'.who = a /\ merge'.stage = "verify" /\ merge'.left = merge.left
            /\ merge'.file = merge.file
        BY <2>1, <3>5
      <4>2. Changes(merge.who)' = Changes(a)
        BY <3>1, <4>1 DEF Changes
      <4>3. InHandAccounts'
        BY <2>2, <3>1, <3>3, <4>1, <4>2 DEF InHandAccounts
      <4> QED
        BY <1>2, <3>1, <3>3, <3>5, <4>1, <4>3, WithinKeepsAccount
    <3> QED
      BY <2>11, <3>4, <3>5 DEF Replace
  <2>12. CASE Verify
    <3>1. merge.stage = "verify" /\ UNCHANGED <<pre, touched>>
      BY <2>12 DEF Verify, On, copyVars
    <3>2. CASE primary[merge.file] # post[a][merge.file]
      <4>1. Answer("error", merge.file) /\ UNCHANGED applied
        BY <2>12, <3>2 DEF Verify
      <4> QED
        BY <1>2, <2>1, <2>2, <3>1, <4>1, AnswerKeepsAccount DEF Results
    <3>3. CASE primary[merge.file] = post[a][merge.file]
      <4>1. /\ merge'.who = a /\ merge'.stage = "check" /\ merge'.left = merge.left \ {merge.file}
            /\ UNCHANGED <<at, stopped>>
        BY <2>1, <2>12, <3>3 DEF Verify
      <4>2. /\ \A b \in Agents : b # a => applied'[b] = applied[b]
            /\ applied'[a] = applied[a] \cup {merge.file}
        BY <2>1, <2>3, <2>12, <3>3 DEF Verify
      <4>3. Changes(merge.who)' = Changes(a)
        BY <3>1, <4>1 DEF Changes
      <4>4. applied'[a] = Changes(a) \ (merge.left \ {merge.file})
        BY <2>1, <2>2, <3>1, <4>2
      <4>5. InHandAccounts'
        BY <2>2, <3>1, <4>1, <4>2, <4>3, <4>4 DEF InHandAccounts
      <4> QED
        BY <1>2, <3>1, <4>1, <4>2, <4>5, WithinKeepsAccount
    <3> QED
      BY <3>2, <3>3
  <2>13. CASE Merged
    <3>1. /\ touched[a] \subseteq applied[a] /\ applied[a] = Changes(a)
          /\ UNCHANGED <<pre, touched, applied>> /\ Answer("merged", "none")
      BY <2>2, <2>13 DEF Merged, On, copyVars
    <3> QED
      BY <1>2, <3>1, AnswerKeepsAccount DEF Results
  <2>14. ASSUME NEW f \in Files, Unreadable(f) PROVE AccountInv'
    <3>1. /\ touched[a] \subseteq applied[a] /\ UNCHANGED <<pre, touched, applied>>
          /\ Answer("error", f)
      BY <2>2, <2>14 DEF Unreadable, copyVars
    <3> QED
      BY <1>2, <3>1, AnswerKeepsAccount DEF Results
  <2> QED
    BY <1>1, <2>5, <2>6, <2>7, <2>8, <2>9, <2>10, <2>11, <2>12, <2>13, <2>14 DEF QueueStep
<1>3. ASSUME merge = Idle, ~ProcessNext PROVE FALSE
  BY <1>3 DEF QueueStep, Refuse, Validated, SourcesRead, Replace, Verify, Merged, Validate,
    ReadSource, Check, Unreadable, On, Idle
<1> QED
  BY <1>1, <1>2, <1>3

\* The account is kept in every reachable state.
LEMMA AccountKept == Spec => []AccountInv
<1>1. Init => AccountInv
  BY DEF Init, AccountInv, UntouchedBefore, InHandAccounts, WritesAreNamed, Idle
<1>2. IInv /\ AccountInv /\ [Next]_vars => AccountInv'
  <2> SUFFICES ASSUME IInv, AccountInv, [Next]_vars PROVE AccountInv'
    OBVIOUS
  <2>1. CASE UNCHANGED vars
    BY <2>1 DEF vars, resultVars, copyVars, AccountInv, UntouchedBefore, InHandAccounts, WritesAreNamed,
      Changes, Results
  <2>2. CASE Next
    BY <2>2, OthersKeepAccount, QueueKeepsAccount DEF Next
  <2> QED
    BY <2>1, <2>2
<1> QED
  BY <1>1, <1>2, Inductive, PTL DEF Spec

\* Any agents, files and edits from outside: a conflict was found before anything
\* was written, a merge that is answered names every file of its changeset and
\* wrote no other, and an error names every file that was written.
THEOREM EveryWriteIsNamed == Spec => []WritesAreNamed
<1>1. AccountInv => WritesAreNamed
  BY DEF AccountInv
<1> QED
  BY <1>1, AccountKept, PTL

\* Where every file is inspected fresh, what a changeset writes is the agent's own
\* work, so a file of the primary checkout holds it only if the merge wrote it.
OwnWork == \A a \in Agents, f \in Files : work[a][f] \in {a, "none", "link", base[a][f]}
OwnPost == \A a \in Agents, f \in Files :
             pre[a][f] \notin {"unscanned", "out"} => post[a][f] = a
HeldIsTouched == \A f \in Files : primary[f] \in Agents => f \in touched[primary[f]]
AppliedIsTouched == \A a \in Agents : applied[a] \subseteq touched[a]
OwnInv == OwnWork /\ OwnPost /\ HeldIsTouched /\ AppliedIsTouched

\* Only an agent and the copying of its files change its workspace.
LEMMA OwnWorkNext == ASSUME IInv, OwnWork, Next PROVE OwnWork'
<1>1. /\ base \in [Agents -> [Files -> Content \cup {"uncopied"}]]
      /\ work \in [Agents -> [Files -> Content]]
  BY DEF IInv, TypeOK
<1>2. ASSUME NEW a \in Agents, NEW f \in Files, Copy(a, f) PROVE OwnWork'
  <2>1. PICK w \in {"none", "link", primary[f]} :
          work' = [work EXCEPT ![a][f] = w] /\ base' = [base EXCEPT ![a][f] = primary[f]]
    BY <1>2 DEF Copy
  <2>2. \A b \in Agents, g \in Files :
          \/ b = a /\ g = f /\ work'[b][g] = w /\ base'[b][g] = primary[f]
          \/ work'[b][g] = work[b][g] /\ base'[b][g] = base[b][g]
    BY <1>1, <2>1
  <2> QED
    BY <2>2 DEF OwnWork
<1>3. ASSUME NEW a \in Agents, NEW f \in Files, AgentEdits(a, f) PROVE OwnWork'
  <2>1. PICK w \in {a, "none", "link"} : work' = [work EXCEPT ![a][f] = w] /\ base' = base
    BY <1>3 DEF AgentEdits
  <2>2. \A b \in Agents, g \in Files :
          \/ b = a /\ g = f /\ work'[b][g] = w
          \/ work'[b][g] = work[b][g]
    BY <1>1, <2>1
  <2> QED
    BY <2>1, <2>2 DEF OwnWork
<1>4. CASE UNCHANGED <<work, base>>
  BY <1>4 DEF OwnWork
<1>5. CASE QueueStep
  BY <1>4, <1>5 DEF QueueStep, ProcessNext, Refuse, Validated, SourcesRead, Replace, Verify, Merged,
    Validate, ReadSource, Check, Unreadable, copyVars
<1> QED
  BY <1>2, <1>3, <1>4, <1>5 DEF Next, Copied, Inspect, Fails, Enqueue, Scan, OperatorEdits, copyVars

\* A changeset holds a file for the agent's own work in it.
LEMMA OwnPostNext == ASSUME ReadsFresh, IInv, OwnWork, OwnPost, Next PROVE OwnPost'
<1>1. /\ pre \in [Agents -> [Files -> Content \cup {"unscanned", "out"}]]
      /\ post \in [Agents -> [Files -> Content \cup {"out"}]]
  BY DEF IInv, TypeOK
<1>2. ASSUME NEW a \in Agents, NEW f \in Files, Scan(a, f) PROVE OwnPost'
  <2>1. CASE pre' = [pre EXCEPT ![a][f] = "out"] /\ UNCHANGED post
    <3>1. \A b \in Agents, g \in Files : pre'[b][g] = "out" \/ pre'[b][g] = pre[b][g]
      BY <1>1, <2>1
    <3> QED
      BY <2>1, <3>1 DEF OwnPost
  <2>2. CASE UNCHANGED <<pre, post>>
    BY <2>2 DEF OwnPost
  <2>3. CASE /\ work[a][f] \notin {"none", "link"} /\ work[a][f] # primary[f]
             /\ pre' = [pre EXCEPT ![a][f] = primary[f]] /\ post' = [post EXCEPT ![a][f] = work[a][f]]
    <3>1. work[a][f] = a
      BY <1>2, <2>3 DEF Scan, OwnWork
    <3>2. \A b \in Agents, g \in Files :
            \/ b = a /\ g = f /\ post'[b][g] = a
            \/ pre'[b][g] = pre[b][g] /\ post'[b][g] = post[b][g]
      BY <1>1, <2>3, <3>1
    <3> QED
      BY <3>2 DEF OwnPost
  <2> QED
    BY <1>2, <2>1, <2>2, <2>3 DEF Scan
<1>3. CASE UNCHANGED <<pre, post>>
  BY <1>3 DEF OwnPost
<1>4. CASE QueueStep
  BY <1>3, <1>4 DEF QueueStep, ProcessNext, Refuse, Validated, SourcesRead, Replace, Verify, Merged,
    Validate, ReadSource, Check, Unreadable, copyVars
<1> QED
  BY <1>2, <1>3, <1>4 DEF Next, Copied, Inspect, Fails, Enqueue, Copy, AgentEdits, OperatorEdits, copyVars

\* A merge that writes an agent's work touches the file, and read it back before
\* the file is named as applied.
LEMMA TouchedNext ==
  ASSUME IInv, OwnPost, HeldIsTouched, AppliedIsTouched, Next
  PROVE  HeldIsTouched' /\ AppliedIsTouched'
<1> DEFINE a == merge.who
           f == merge.file
<1>1. /\ primary \in [Files -> Content] /\ touched \in [Agents -> SUBSET Files]
      /\ applied \in [Agents -> SUBSET Files]
  BY DEF IInv, TypeOK
<1>2. "torn" \notin Agents /\ "none" \notin Agents /\ "link" \notin Agents /\ "op" \notin Agents
  BY MergeAssumption
<1>3. ASSUME merge # Idle, merge.stage \in {"replace", "verify"}
      PROVE  a \in Agents /\ f \in Files /\ post[a][f] = a
  <2>1. a \in Agents /\ at[a] = "queued" /\ f \in Files /\ f \in Changes(a)
    BY <1>3, InHand DEF IInv, TypeOK
  <2>2. pre[a][f] \notin {"unscanned", "out"}
    BY <2>1 DEF Changes, IInv, ChangesetInv
  <2> QED
    BY <2>1, <2>2 DEF OwnPost
<1>4. CASE UNCHANGED <<primary, touched, applied>>
  BY <1>4 DEF HeldIsTouched, AppliedIsTouched
<1>5. ASSUME NEW g \in Files, NEW c \in {"op", "none", "link", "torn"},
             primary' = [primary EXCEPT ![g] = c], UNCHANGED applied,
             \A b \in Agents : touched[b] \subseteq touched'[b]
      PROVE  HeldIsTouched' /\ AppliedIsTouched'
  <2>1. \A h \in Files : primary'[h] \in Agents => primary'[h] = primary[h]
    BY <1>1, <1>2, <1>5
  <2>2. HeldIsTouched'
    BY <1>5, <2>1 DEF HeldIsTouched
  <2>3. AppliedIsTouched'
    BY <1>5 DEF AppliedIsTouched
  <2> QED
    BY <2>2, <2>3
<1>6. ASSUME NEW g \in Files, OperatorEdits(g) PROVE HeldIsTouched' /\ AppliedIsTouched'
  BY <1>5, <1>6 DEF OperatorEdits, resultVars
<1>7. ASSUME NEW g \in Files, Check(g) PROVE HeldIsTouched' /\ AppliedIsTouched'
  <2>1. CASE primary' = [primary EXCEPT ![g] = "torn"] /\ touched' = [touched EXCEPT ![a] = @ \cup {g}]
    <3>1. \A b \in Agents : touched[b] \subseteq touched'[b]
      BY <1>1, <2>1
    <3> QED
      BY <1>5, <1>7, <2>1, <3>1 DEF Check
  <2> QED
    BY <1>4, <1>7, <2>1 DEF Check
<1>8. CASE Replace
  <2>1. merge # Idle /\ merge.stage = "replace" /\ UNCHANGED applied
    BY <1>8 DEF Replace, On, Idle
  <2>2. PICK c \in {a, "torn"} :
          IF primary[f] \in {"none", "link"}
          THEN UNCHANGED <<primary, touched>>
          ELSE /\ primary' = [primary EXCEPT ![f] = c]
               /\ touched' = [touched EXCEPT ![a] = @ \cup {f}]
    BY <1>3, <1>8, <2>1 DEF Replace
  <2>3. CASE /\ primary' = [primary EXCEPT ![f] = c]
             /\ touched' = [touched EXCEPT ![a] = @ \cup {f}]
    <3>1. (\A b \in Agents : touched[b] \subseteq touched'[b]) /\ f \in touched'[a]
      BY <1>1, <1>3, <2>1, <2>3
    <3>2. \A h \in Files : h # f => primary'[h] = primary[h]
      BY <1>1, <1>3, <2>1, <2>3
    <3>3. primary'[f] = c
      BY <1>1, <1>3, <2>1, <2>3
    <3>4. HeldIsTouched'
      BY <1>2, <3>1, <3>2, <3>3 DEF HeldIsTouched
    <3> QED
      BY <2>1, <3>1, <3>4 DEF AppliedIsTouched
  <2> QED
    BY <1>4, <2>1, <2>2, <2>3
<1>9. CASE Verify
  <2>1. merge # Idle /\ merge.stage = "verify" /\ UNCHANGED <<primary, touched>>
    BY <1>9 DEF Verify, On, Idle
  <2>2. CASE primary[f] = post[a][f] /\ applied' = [applied EXCEPT ![a] = @ \cup {f}]
    <3>1. f \in touched[a]
      BY <1>3, <2>1, <2>2 DEF HeldIsTouched
    <3>2. \A b \in Agents : applied'[b] \subseteq applied[b] \cup (IF b = a THEN {f} ELSE {})
      BY <1>1, <1>3, <2>1, <2>2
    <3> QED
      BY <2>1, <3>1, <3>2 DEF HeldIsTouched, AppliedIsTouched
  <2> QED
    BY <1>4, <1>9, <2>1, <2>2 DEF Verify
<1>10. CASE QueueStep
  BY <1>4, <1>7, <1>8, <1>9, <1>10 DEF QueueStep, ProcessNext, Refuse, Validated, SourcesRead, Merged,
    Validate, ReadSource, Unreadable, resultVars
<1> QED
  BY <1>4, <1>6, <1>10 DEF Next, Copied, Inspect, Fails, Enqueue, Copy, AgentEdits, Scan, copyVars, resultVars

\* Any agents, files and edits from outside, every file inspected before anything
\* changed it: the answer accounts for what was written, and names nothing else
\* (AnswerAccounts).
THEOREM AnswersAccount == ASSUME ReadsFresh PROVE Spec => []AnswerAccounts
<1>1. Init => OwnInv
  BY MergeAssumption DEF Init, OwnInv, OwnWork, OwnPost, HeldIsTouched, AppliedIsTouched
<1>2. IInv /\ OwnInv /\ [Next]_vars => OwnInv'
  <2> SUFFICES ASSUME IInv, OwnInv, [Next]_vars PROVE OwnInv'
    OBVIOUS
  <2>1. CASE UNCHANGED vars
    BY <2>1 DEF vars, resultVars, copyVars, OwnInv, OwnWork, OwnPost, HeldIsTouched, AppliedIsTouched
  <2>2. CASE Next
    BY <2>2, OwnWorkNext, OwnPostNext, TouchedNext DEF OwnInv
  <2> QED
    BY <2>1, <2>2
<1>3. AccountInv /\ OwnInv => AnswerAccounts
  BY DEF AccountInv, WritesAreNamed, OwnInv, AppliedIsTouched, AnswerAccounts
<1> QED
  BY <1>1, <1>2, <1>3, Inductive, AccountKept, PTL DEF Spec
================================================================================

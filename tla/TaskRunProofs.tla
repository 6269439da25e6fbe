------------------------------ MODULE TaskRunProofs ------------------------------
(***************************************************************************)
(* Proofs about TaskRun: what a run does was approved and the log says so;   *)
(* two runs that write one log make it unreadable as a run's; an announced   *)
(* receipt is there.  For any runs, names, sessions, calls and faults.       *)
(***************************************************************************)
EXTENDS TaskRun, FiniteSetTheorems, WellFoundedInduction, TLAPS

--------------------------------------------------------------------------------
(* The engine of a run, and what a record writes.                             *)

Engine(s, n, t, c, st, ev, ok) ==
  [step |-> s, next |-> n, tip |-> t, changes |-> c, statements |-> st, evidence |-> ev, ok |-> ok]

IsEngine(e) == e = Engine(e.step, e.next, e.tip, e.changes, e.statements, e.evidence, e.ok)

EngineShape == DOMAIN engine = Runs /\ \A r \in Runs : IsEngine(engine[r])

AtShape == at \in [Runs -> {"new"} \cup Active \cup Over]

LEMMA NumberWritten ==
  ASSUME NEW e, IsEngine(e), NEW n, NEW t
  PROVE  [e EXCEPT !.next = n, !.tip = t] = Engine(e.step, n, t, e.changes, e.statements, e.evidence, e.ok)
<1> DEFINE a == [step |-> e.step, next |-> e.next, tip |-> e.tip, changes |-> e.changes,
                 statements |-> e.statements, evidence |-> e.evidence, ok |-> e.ok]
           b == [step |-> e.step, next |-> n, tip |-> e.tip, changes |-> e.changes,
                 statements |-> e.statements, evidence |-> e.evidence, ok |-> e.ok]
           c == [step |-> e.step, next |-> n, tip |-> t, changes |-> e.changes,
                 statements |-> e.statements, evidence |-> e.evidence, ok |-> e.ok]
<1>1. e = a
  BY DEF IsEngine, Engine
<1>2. [a EXCEPT !.next = n] = b
  OBVIOUS
<1>3. [b EXCEPT !.tip = t] = c
  OBVIOUS
<1>4. [e EXCEPT !.next = n, !.tip = t] = c
  BY <1>1, <1>2, <1>3, Zenon
<1> QED
  BY <1>4 DEF Engine

LEMMA StepWritten ==
  ASSUME NEW e, IsEngine(e), NEW s
  PROVE  Begin(e, s) = Engine(s, e.next, e.tip, e.changes, e.statements, e.evidence, e.ok)
<1> DEFINE a == [step |-> e.step, next |-> e.next, tip |-> e.tip, changes |-> e.changes,
                 statements |-> e.statements, evidence |-> e.evidence, ok |-> e.ok]
           b == [step |-> s, next |-> e.next, tip |-> e.tip, changes |-> e.changes,
                 statements |-> e.statements, evidence |-> e.evidence, ok |-> e.ok]
<1>1. e = a
  BY DEF IsEngine, Engine
<1>2. [a EXCEPT !.step = s] = b
  OBVIOUS
<1>3. [e EXCEPT !.step = s] = b
  BY <1>1, <1>2, Zenon
<1> QED
  BY <1>3 DEF Engine, Begin

LEMMA OkWritten ==
  ASSUME NEW e, IsEngine(e), NEW v
  PROVE  [e EXCEPT !.ok = v] = Engine(e.step, e.next, e.tip, e.changes, e.statements, e.evidence, v)
<1> DEFINE a == [step |-> e.step, next |-> e.next, tip |-> e.tip, changes |-> e.changes,
                 statements |-> e.statements, evidence |-> e.evidence, ok |-> e.ok]
           b == [step |-> e.step, next |-> e.next, tip |-> e.tip, changes |-> e.changes,
                 statements |-> e.statements, evidence |-> e.evidence, ok |-> v]
<1>1. e = a
  BY DEF IsEngine, Engine
<1>2. [a EXCEPT !.ok = v] = b
  OBVIOUS
<1>3. [e EXCEPT !.ok = v] = b
  BY <1>1, <1>2, Zenon
<1> QED
  BY <1>3 DEF Engine

LEMMA EngineFields ==
  ASSUME NEW s, NEW n, NEW t, NEW c, NEW st, NEW ev, NEW ok
  PROVE  LET e == Engine(s, n, t, c, st, ev, ok)
         IN IsEngine(e) /\ e.step = s /\ e.next = n /\ e.tip = t /\ e.changes = c /\ e.statements = st
  BY DEF Engine, IsEngine

LEMMA FinishedIsAnEngine ==
  ASSUME NEW r, IsEngine(engine[r])
  PROVE  /\ IsEngine(Finished(r))
         /\ Finished(r).next = engine[r].next /\ Finished(r).tip = engine[r].tip
         /\ Finished(r).changes = IF Step(r) = "write_file" THEN engine[r].changes + 1 ELSE engine[r].changes
         /\ Finished(r).statements = IF Step(r) = "run_command"
                                     THEN Append(engine[r].statements, Backend[machine]) ELSE engine[r].statements
<1> DEFINE e == engine[r]
           a == [step |-> e.step, next |-> e.next, tip |-> e.tip, changes |-> e.changes,
                 statements |-> e.statements, evidence |-> e.evidence, ok |-> e.ok]
<1>1. e = a
  BY DEF IsEngine, Engine
<1>2. CASE Step(r) = "write_file"
  <2> DEFINE m == e.changes + 1
             b == [step |-> e.step, next |-> e.next, tip |-> e.tip, changes |-> m,
                   statements |-> e.statements, evidence |-> e.evidence, ok |-> e.ok]
  <2>1. Finished(r) = [e EXCEPT !.changes = m]
    BY <1>2 DEF Finished
  <2> HIDE DEF m
  <2>2. [a EXCEPT !.changes = m] = b
    OBVIOUS
  <2>3. Finished(r) = b
    BY <1>1, <2>1, <2>2, Zenon
  <2> QED
    BY <1>2, <2>3 DEF IsEngine, Engine, m
<1>3. CASE Step(r) = "run_command"
  <2> DEFINE m == Append(e.statements, Backend[machine])
             v == IF e.ok THEN "sandbox_captured" ELSE "model_reported"
             b == [step |-> e.step, next |-> e.next, tip |-> e.tip, changes |-> e.changes,
                   statements |-> m, evidence |-> e.evidence, ok |-> e.ok]
             c == [step |-> e.step, next |-> e.next, tip |-> e.tip, changes |-> e.changes,
                   statements |-> m, evidence |-> v, ok |-> e.ok]
  <2>1. Finished(r) = [e EXCEPT !.statements = m, !.evidence = v]
    BY <1>3 DEF Finished
  <2> HIDE DEF m, v
  <2>2. [a EXCEPT !.statements = m] = b
    OBVIOUS
  <2>3. [b EXCEPT !.evidence = v] = c
    OBVIOUS
  <2>4. Finished(r) = c
    BY <1>1, <2>1, <2>2, <2>3, Zenon
  <2> QED
    BY <1>3, <2>4 DEF IsEngine, Engine, m
<1>4. CASE Step(r) # "write_file" /\ Step(r) # "run_command"
  BY <1>4 DEF Finished
<1> QED
  BY <1>2, <1>3, <1>4

\* A run that goes on without a row, and one that goes on with one.
Moves(r, to) == at' = [at EXCEPT ![r] = to] /\ UNCHANGED <<rows, engine>>

RowOf(r, type) ==
  [id |-> Id(r), run |-> r, seq |-> engine[r].next, type |-> type, tool |-> Step(r), prev |-> engine[r].tip]

Adds(r, type, step, to) ==
  /\ at' = [at EXCEPT ![r] = to]
  /\ rows' = rows \cup {RowOf(r, type)}
  /\ \A f \in Log(Id(r)) : f.seq # engine[r].next
  /\ DOMAIN engine' = Runs
  /\ \A q \in Runs \ {r} : engine'[q] = engine[q]
  /\ IsEngine(engine'[r])
  /\ engine'[r].step = step
  /\ engine'[r].next = engine[r].next + 1
  /\ engine'[r].tip = <<r, engine[r].next>>

Keeps(r, e) == engine'[r].changes = e.changes /\ engine'[r].statements = e.statements

LEMMA Recording ==
  ASSUME EngineShape, NEW r \in Runs, NEW type, NEW e, NEW to, IsEngine(e), e.next = engine[r].next,
         Record(r, type, e, to)
  PROVE  Moves(r, "failed") \/ (Adds(r, type, e.step, to) /\ Keeps(r, e))
<1>1. CASE \E f \in Log(Id(r)) : f.seq = engine[r].next
  BY <1>1 DEF Record, Move, Moves
<1>2. CASE \A f \in Log(Id(r)) : f.seq # engine[r].next
  <2> DEFINE row == RowOf(r, type)
  <2>1. row.seq = engine[r].next /\ Hash(row) = <<r, engine[r].next>>
    BY DEF RowOf, Hash
  <2>2. /\ rows' = rows \cup {row}
        /\ engine' = [engine EXCEPT ![r] = [e EXCEPT !.next = @ + 1, !.tip = Hash(row)]]
        /\ Move(r, to)
    BY <1>2, <2>1 DEF Record, RowOf, Prev
  <2> DEFINE n == e.next + 1
             t == Hash(row)
             new == Engine(e.step, n, t, e.changes, e.statements, e.evidence, e.ok)
  <2>3. engine' = [engine EXCEPT ![r] = [e EXCEPT !.next = n, !.tip = t]]
    BY <2>2
  <2> HIDE DEF row, n, t
  <2>4. engine' = [engine EXCEPT ![r] = new]
    BY <2>3, NumberWritten
  <2>5. /\ IsEngine(new) /\ new.step = e.step /\ new.next = n /\ new.tip = t
        /\ new.changes = e.changes /\ new.statements = e.statements
    BY EngineFields
  <2> HIDE DEF new
  <2>6. /\ DOMAIN engine' = Runs /\ engine'[r] = new
        /\ \A q \in Runs \ {r} : engine'[q] = engine[q]
    BY <2>4 DEF EngineShape
  <2> QED
    BY <1>2, <2>1, <2>2, <2>5, <2>6 DEF Adds, Keeps, Move, row, n, t
<1> QED
  BY <1>1, <1>2

LEMMA AddsKeepsShape ==
  ASSUME EngineShape, NEW r \in Runs, NEW type, NEW step, NEW to, Adds(r, type, step, to)
  PROVE  EngineShape'
  BY DEF EngineShape, Adds, IsEngine

\* The steps of a run that record an event: what they record, the engine's next step,
\* and where the run goes.
Recorder(r, type, step, to) ==
  \/ /\ at[r] = "turn" /\ type = "TurnStarted" /\ step = NextStep(r) /\ to = "context"
  \/ /\ at[r] = "context" /\ type = "ContextAssembled" /\ step = Step(r)
     /\ to = IF Step(r) \in Mutating THEN "ask" ELSE "start"
  \/ /\ at[r] = "ask" /\ type = "ApprovalRequested" /\ step = Step(r) /\ to = "decide"
  \/ /\ at[r] = "grant" /\ type = "ApprovalGranted" /\ step = Step(r)
     /\ to = IF Unsandboxed(r) THEN "ask_bare" ELSE "start"
  \/ /\ at[r] = "ask_bare" /\ type = "UnsandboxedRequested" /\ step = Step(r) /\ to = "decide_bare"
  \/ /\ at[r] = "grant_bare" /\ type = "UnsandboxedGranted" /\ step = Step(r) /\ to = "start"
  \/ /\ at[r] = "start" /\ type = "ToolStarted" /\ step = Step(r) /\ to = "execute"
  \/ /\ at[r] = "finish" /\ type = "ToolFinished" /\ step = NextStep(r)
     /\ to = IF NextStep(r) = "none" THEN "receipt" ELSE "context"
  \/ /\ at[r] = "report" /\ type = "ReceiptGenerated" /\ step = Step(r) /\ to = "done"

Records(r) ==
  \/ TurnStarted(r) \/ ContextAssembled(r) \/ ApprovalRequested(r) \/ ApprovalGranted(r)
  \/ UnsandboxedRequested(r) \/ UnsandboxedGranted(r) \/ ToolStarted(r) \/ ToolFinished(r)
  \/ ReceiptGenerated(r)

\* What the engine has counted: more only when a tool has ended.
Counts(r, type) == Keeps(r, IF type = "ToolFinished" THEN Finished(r) ELSE engine[r])

LEMMA RecordsRecord ==
  ASSUME EngineShape, NEW r \in Runs, Records(r)
  PROVE  /\ UNCHANGED <<daemonVars, fileVars, effects, faults>>
         /\ \E type, step, to :
              /\ Recorder(r, type, step, to)
              /\ Moves(r, "failed") \/ (Adds(r, type, step, to) /\ Counts(r, type))
<1> DEFINE goal == \E type, step, to :
                     /\ Recorder(r, type, step, to)
                     /\ Moves(r, "failed") \/ (Adds(r, type, step, to) /\ Counts(r, type))
<1>1. IsEngine(engine[r]) /\ engine[r].step = Step(r)
  BY DEF EngineShape, Step
<1>2. \A s : LET e == Begin(engine[r], s)
              IN /\ IsEngine(e) /\ e.step = s /\ e.next = engine[r].next
                 /\ e.changes = engine[r].changes /\ e.statements = engine[r].statements
  BY <1>1, StepWritten, EngineFields
<1>3. LET e == Begin(Finished(r), NextStep(r))
      IN /\ IsEngine(e) /\ e.step = NextStep(r) /\ e.next = engine[r].next
         /\ e.changes = Finished(r).changes /\ e.statements = Finished(r).statements
  BY <1>1, FinishedIsAnEngine, StepWritten, EngineFields
<1>4. CASE TurnStarted(r)
  <2>1. at[r] = "turn" /\ Record(r, "TurnStarted", Begin(engine[r], NextStep(r)), "context")
    BY <1>4 DEF TurnStarted
  <2>2. Moves(r, "failed") \/ (Adds(r, "TurnStarted", NextStep(r), "context") /\ Counts(r, "TurnStarted"))
    BY <1>2, <2>1, Recording DEF Counts, Keeps
  <2>3. Recorder(r, "TurnStarted", NextStep(r), "context")
    BY <2>1 DEF Recorder
  <2> QED
    BY <1>4, <2>2, <2>3 DEF TurnStarted
<1>5. CASE ToolFinished(r)
  <2> DEFINE to == IF NextStep(r) = "none" THEN "receipt" ELSE "context"
  <2>1. at[r] = "finish" /\ Record(r, "ToolFinished", Begin(Finished(r), NextStep(r)), to)
    BY <1>5 DEF ToolFinished
  <2>2. Recorder(r, "ToolFinished", NextStep(r), to)
    BY <2>1 DEF Recorder
  <2> HIDE DEF to
  <2>3. Moves(r, "failed") \/ (Adds(r, "ToolFinished", NextStep(r), to) /\ Counts(r, "ToolFinished"))
    BY <1>3, <2>1, Recording DEF Counts, Keeps
  <2> QED
    BY <1>5, <2>2, <2>3 DEF ToolFinished
<1>6. ASSUME NEW type, NEW to, Record(r, type, engine[r], to), Recorder(r, type, Step(r), to),
             type # "ToolFinished"
      PROVE goal
  BY <1>1, <1>6, Recording DEF Counts, Keeps
<1>7. CASE ContextAssembled(r)
  BY <1>6, <1>7 DEF ContextAssembled, Recorder
<1>8. CASE ApprovalRequested(r)
  BY <1>6, <1>8 DEF ApprovalRequested, Recorder
<1>9. CASE ApprovalGranted(r)
  BY <1>6, <1>9 DEF ApprovalGranted, Recorder
<1>10. CASE UnsandboxedRequested(r)
  BY <1>6, <1>10 DEF UnsandboxedRequested, Recorder
<1>11. CASE UnsandboxedGranted(r)
  BY <1>6, <1>11 DEF UnsandboxedGranted, Recorder
<1>12. CASE ToolStarted(r)
  BY <1>6, <1>12 DEF ToolStarted, Recorder
<1>13. CASE ReceiptGenerated(r)
  BY <1>6, <1>13 DEF ReceiptGenerated, Recorder
<1> QED
  BY <1>4, <1>5, <1>7, <1>8, <1>9, <1>10, <1>11, <1>12, <1>13 DEF Records

--------------------------------------------------------------------------------
(* Approvals.                                                                 *)

\* What the caller allowed of a tool, and the log has.
Cleared(r, t) ==
  /\ config[r].call.auto_approve /\ Recorded(r, "ApprovalGranted", t)
  /\ t = "run_command" /\ machine = "bare"
     => config[r].call.allow_unsandboxed /\ Recorded(r, "UnsandboxedGranted", t)

Bare == {"ask_bare", "decide_bare", "grant_bare"}

\* How far a run's permission goes where it stands.
Permitted(r) ==
  /\ at[r] \in {"new", "register", "turn"} => Step(r) = "none"
  /\ at[r] \in {"context", "start", "execute", "finish"} => Step(r) \in Tools
  /\ at[r] \in {"ask", "decide", "grant"} \cup Bare => Step(r) \in Mutating
  /\ at[r] \in {"grant"} \cup Bare => config[r].call.auto_approve
  /\ at[r] \in Bare => Step(r) = "run_command" /\ Recorded(r, "ApprovalGranted", "run_command")
  /\ at[r] = "grant_bare" => config[r].call.allow_unsandboxed
  /\ at[r] \in {"start", "execute"} /\ Step(r) \in Mutating => Cleared(r, Step(r))

Earned(r) ==
  /\ effects[r] \in Seq(Mutating)
  /\ at[r] = "new" => effects[r] = <<>>
  /\ \A t \in Range(effects[r]) : Cleared(r, t)

Shapes == EngineShape /\ AtShape /\ DOMAIN config = Runs /\ DOMAIN effects = Runs

ApprovalInv == Shapes /\ \A r \in Runs : Permitted(r) /\ Earned(r)

LEMMA RecordedLasts ==
  ASSUME NEW r, NEW type, NEW tool, Recorded(r, type, tool), rows \subseteq rows'
  PROVE  Recorded(r, type, tool)'
  BY DEF Recorded, RowsOf

LEMMA ClearedLasts ==
  ASSUME NEW r \in Runs, NEW t, Cleared(r, t), config'[r] = config[r], UNCHANGED machine, rows \subseteq rows'
  PROVE  Cleared(r, t)'
  BY RecordedLasts DEF Cleared

LEMMA EarnedLasts ==
  ASSUME NEW r \in Runs, Earned(r), at'[r] = "new" => at[r] = "new", effects'[r] = effects[r],
         config'[r] = config[r], UNCHANGED machine, rows \subseteq rows'
  PROVE  Earned(r)'
  BY ClearedLasts DEF Earned

LEMMA OthersArePermitted ==
  ASSUME NEW r \in Runs, Permitted(r), Earned(r), at'[r] = at[r], effects'[r] = effects[r],
         engine'[r].step = engine[r].step, config'[r] = config[r], UNCHANGED machine, rows \subseteq rows'
  PROVE  Permitted(r)' /\ Earned(r)'
<1>1. Step(r)' = Step(r)
  BY DEF Step
<1>2. Permitted(r)'
  BY <1>1, RecordedLasts, ClearedLasts DEF Permitted
<1> QED
  BY <1>2, EarnedLasts

\* Where a run has nothing more to do with a tool, there is nothing to permit.
LEMMA QuietIsPermitted ==
  ASSUME NEW r \in Runs, at'[r] \in {"receipt", "write", "report"} \cup Over
  PROVE  Permitted(r)'
  BY DEF Permitted, Bare, Over

LEMMA RecordingIsPermitted ==
  ASSUME ApprovalInv, NEW r \in Runs, NEW type, NEW step, NEW to,
         Recorder(r, type, step, to), Adds(r, type, step, to), UNCHANGED <<config, machine, effects>>
  PROVE  ApprovalInv'
<1>1. Permitted(r) /\ Earned(r) /\ at' = [at EXCEPT ![r] = to] /\ at[r] # "new" /\ rows \subseteq rows'
  BY DEF ApprovalInv, Adds, Recorder
<1>2. to \in Active \cup Over /\ to # "new"
  BY DEF Recorder, Active, Over
<1>3. Shapes'
  BY <1>1, <1>2, AddsKeepsShape DEF ApprovalInv, Shapes, AtShape
<1>4. at'[r] = to /\ Step(r)' = step /\ \A q \in Runs \ {r} : at'[q] = at[q] /\ engine'[q] = engine[q]
  BY <1>1 DEF Adds, Step, ApprovalInv, Shapes, AtShape
<1>5. step = Step(r) => Recorded(r, type, step)'
  <2>1. RowOf(r, type) \in rows' /\ RowOf(r, type).run = r /\ RowOf(r, type).type = type /\ RowOf(r, type).tool = Step(r)
    BY DEF Adds, RowOf
  <2> QED
    BY <1>4, <2>1 DEF Recorded, RowsOf
<1>6. Permitted(r)'
  <2>1. CASE at[r] \in {"turn", "context", "ask"}
    <3>1. \/ to = "context" /\ step = "list_dir"
          \/ to = "ask" /\ step \in Mutating
          \/ to = "start" /\ step \in Tools \ Mutating
          \/ to = "decide" /\ step \in Mutating
      BY <1>1, <2>1 DEF Recorder, Permitted, NextStep, Tools, Mutating
    <3> QED
      BY <1>4, <3>1 DEF Permitted, Tools, Mutating, Bare
  <2>2. CASE at[r] = "grant"
    <3>1. /\ type = "ApprovalGranted" /\ step = Step(r) /\ step \in Mutating /\ config[r].call.auto_approve
          /\ to = IF Unsandboxed(r) THEN "ask_bare" ELSE "start"
      BY <1>1, <2>2 DEF Recorder, Permitted
    <3>2. CASE Unsandboxed(r)
      <4>1. step = "run_command" /\ Recorded(r, "ApprovalGranted", "run_command")'
        BY <1>4, <1>5, <3>1, <3>2 DEF Unsandboxed, Recorded
      <4> QED
        BY <1>4, <3>1, <3>2, <4>1 DEF Permitted, Bare
    <3>3. CASE ~Unsandboxed(r)
      <4>1. ~(step = "run_command" /\ machine = "bare")
        BY <3>1, <3>3 DEF Unsandboxed
      <4>2. Cleared(r, step)'
        BY <1>5, <3>1, <4>1 DEF Cleared
      <4>3. Cleared(r, Step(r))'
        BY <1>4, <4>2 DEF Cleared, Recorded
      <4> QED
        BY <1>4, <3>1, <3>3, <4>3 DEF Permitted, Bare, Tools, Mutating
    <3> QED
      BY <3>2, <3>3
  <2>3. CASE at[r] = "ask_bare"
    <3>1. /\ to = "decide_bare" /\ step = "run_command" /\ config[r].call.auto_approve
          /\ Recorded(r, "ApprovalGranted", "run_command")
      BY <1>1, <2>3 DEF Recorder, Permitted, Bare
    <3>2. Recorded(r, "ApprovalGranted", "run_command")'
      BY <1>1, <3>1, RecordedLasts
    <3> QED
      BY <1>4, <3>1, <3>2 DEF Permitted, Bare, Mutating, Tools
  <2>4. CASE at[r] = "grant_bare"
    <3>1. /\ to = "start" /\ type = "UnsandboxedGranted" /\ step = Step(r) /\ step = "run_command"
          /\ config[r].call.auto_approve /\ config[r].call.allow_unsandboxed
          /\ Recorded(r, "ApprovalGranted", "run_command")
      BY <1>1, <2>4 DEF Recorder, Permitted, Bare
    <3>2. Recorded(r, "ApprovalGranted", "run_command")'
      BY <1>1, <3>1, RecordedLasts
    <3>3. Cleared(r, "run_command")'
      BY <1>5, <3>1, <3>2 DEF Cleared
    <3>4. Cleared(r, Step(r))'
      BY <1>4, <3>1, <3>3 DEF Cleared, Recorded
    <3> QED
      BY <1>4, <3>1, <3>4 DEF Permitted, Bare, Tools
  <2>5. CASE at[r] = "start"
    <3>1. to = "execute" /\ step = Step(r) /\ step \in Tools /\ (step \in Mutating => Cleared(r, step))
      BY <1>1, <2>5 DEF Recorder, Permitted
    <3>2. step \in Mutating => Cleared(r, Step(r))'
      <4>1. step \in Mutating => Cleared(r, step)'
        BY <1>1, <3>1, ClearedLasts
      <4> QED
        BY <1>4, <4>1 DEF Cleared, Recorded
    <3> QED
      BY <1>4, <3>1, <3>2 DEF Permitted, Bare
  <2>6. CASE at[r] \in {"finish", "report"}
    <3>1. \/ to \in {"receipt", "done"}
          \/ to = "context" /\ step \in Tools
      BY <1>1, <2>6 DEF Recorder, NextStep, Tools
    <3>2. CASE to \in {"receipt", "done"}
      BY <1>4, <3>2, QuietIsPermitted DEF Over
    <3>3. CASE to = "context" /\ step \in Tools
      BY <1>4, <3>3 DEF Permitted, Bare
    <3> QED
      BY <3>1, <3>2, <3>3
  <2> QED
    BY <2>1, <2>2, <2>3, <2>4, <2>5, <2>6 DEF Recorder
<1>7. Earned(r)'
  BY <1>1, <1>2, <1>4, EarnedLasts
<1>8. \A q \in Runs \ {r} : Permitted(q)' /\ Earned(q)'
  BY <1>1, <1>4, OthersArePermitted DEF ApprovalInv
<1> QED
  BY <1>3, <1>6, <1>7, <1>8 DEF ApprovalInv

LEMMA RangeOfAppend ==
  ASSUME NEW S, NEW q \in Seq(S), NEW t \in S
  PROVE  Append(q, t) \in Seq(S) /\ \A x \in Range(Append(q, t)) : x \in Range(q) \/ x = t
<1>1. /\ Append(q, t) \in Seq(S) /\ DOMAIN Append(q, t) = 1 .. Len(q) + 1 /\ DOMAIN q = 1 .. Len(q)
      /\ \A i \in 1 .. Len(q) + 1 : Append(q, t)[i] = IF i = Len(q) + 1 THEN t ELSE q[i]
  OBVIOUS
<1>2. \A x \in Range(Append(q, t)) : \E i \in 1 .. Len(q) + 1 : x = Append(q, t)[i]
  BY <1>1 DEF Range
<1>3. \A i \in 1 .. Len(q) + 1 : i # Len(q) + 1 => q[i] \in Range(q)
  BY <1>1 DEF Range
<1> QED
  BY <1>1, <1>2, <1>3

\* One run moves, without a row; what it does there is its own proof.
LEMMA MoveIsPermitted ==
  ASSUME ApprovalInv, NEW r \in Runs, NEW to, Moves(r, to), at[r] # "new", to \in Active \cup Over,
         UNCHANGED <<config, machine, effects>>, Permitted(r)'
  PROVE  ApprovalInv'
<1>1. Shapes'
  BY DEF ApprovalInv, Shapes, AtShape, EngineShape, IsEngine, Moves
<1>2. /\ at'[r] = to /\ to # "new"
      /\ \A q \in Runs \ {r} : at'[q] = at[q]
  BY DEF ApprovalInv, Shapes, AtShape, Moves, Active, Over
<1>3. Earned(r)'
  BY <1>2, EarnedLasts DEF ApprovalInv, Moves
<1>4. \A q \in Runs \ {r} : Permitted(q)' /\ Earned(q)'
  BY <1>2, OthersArePermitted DEF ApprovalInv, Moves
<1> QED
  BY <1>1, <1>3, <1>4 DEF ApprovalInv

LEMMA ApprovalBegins == Init => ApprovalInv
<1> SUFFICES ASSUME Init PROVE ApprovalInv
  OBVIOUS
<1>1. /\ at = [r \in Runs |-> "new"] /\ effects = [r \in Runs |-> <<>>]
      /\ config = [r \in Runs |-> Unasked]
      /\ engine = [r \in Runs |-> Fresh(1)]
  BY DEF Init
<1>2. IsEngine(Fresh(1)) /\ Fresh(1).step = "none"
  BY DEF IsEngine, Engine, Fresh
<1>3. Shapes
  BY <1>1, <1>2 DEF Shapes, EngineShape, AtShape
<1>4. \A r \in Runs : Permitted(r)
  BY <1>1, <1>2 DEF Permitted, Step, Bare
<1>5. <<>> \in Seq(Mutating) /\ Range(<<>>) = {}
  BY DEF Range
<1>6. \A r \in Runs : Earned(r)
  BY <1>1, <1>5 DEF Earned
<1> QED
  BY <1>3, <1>4, <1>6 DEF ApprovalInv

LEMMA ApprovalRests == ApprovalInv /\ UNCHANGED <<config, machine, effects, at, engine, rows>> => ApprovalInv'
<1> SUFFICES ASSUME ApprovalInv, UNCHANGED <<config, machine, effects, at, engine, rows>> PROVE ApprovalInv'
  OBVIOUS
<1>1. Shapes'
  BY DEF ApprovalInv, Shapes, AtShape, EngineShape, IsEngine
<1>2. \A r \in Runs : Permitted(r)' /\ Earned(r)'
  BY OthersArePermitted DEF ApprovalInv
<1> QED
  BY <1>1, <1>2 DEF ApprovalInv

LEMMA ApprovalStep == ApprovalInv /\ [Next]_vars => ApprovalInv'
<1> SUFFICES ASSUME ApprovalInv, [Next]_vars PROVE ApprovalInv'
  OBVIOUS
<1> USE DEF daemonVars
<1>1. CASE UNCHANGED vars \/ \E s \in Sessions : CreateSession(s)
  BY <1>1, ApprovalRests DEF vars, CreateSession
<1>2. ASSUME NEW r \in Runs, NEW s \in Sessions, NumberRun(r, s) PROVE ApprovalInv'
  <2>1. PICK c \in Configs, id \in Ids, n \in 1 .. Cardinality(rows) + 1 :
          /\ config' = [config EXCEPT ![r] = [session |-> s, id |-> id, call |-> c]]
          /\ engine' = [engine EXCEPT ![r] = Fresh(n)]
    BY <1>2 DEF NumberRun
  <2>2. at[r] = "new" /\ at' = [at EXCEPT ![r] = "register"] /\ UNCHANGED <<rows, machine, effects>>
    BY <1>2 DEF NumberRun, Move
  <2>3. IsEngine(Fresh(n)) /\ Fresh(n).step = "none"
    BY DEF IsEngine, Engine, Fresh
  <2>4. /\ at'[r] = "register" /\ engine'[r] = Fresh(n)
        /\ \A q \in Runs \ {r} : at'[q] = at[q] /\ config'[q] = config[q] /\ engine'[q] = engine[q]
    BY <2>1, <2>2 DEF ApprovalInv, Shapes, EngineShape, AtShape
  <2>5. Shapes'
    BY <2>1, <2>2, <2>3, <2>4 DEF ApprovalInv, Shapes, EngineShape, AtShape, Active, IsEngine
  <2>6. Permitted(r)'
    BY <2>3, <2>4 DEF Permitted, Step, Bare
  <2>7. Earned(r)'
    <3>1. effects'[r] = <<>>
      BY <2>2 DEF ApprovalInv, Earned
    <3>2. <<>> \in Seq(Mutating) /\ Range(<<>>) = {}
      BY DEF Range
    <3> QED
      BY <3>1, <3>2 DEF Earned
  <2>8. \A q \in Runs \ {r} : Permitted(q)' /\ Earned(q)'
    BY <2>2, <2>4, OthersArePermitted DEF ApprovalInv
  <2> QED
    BY <2>5, <2>6, <2>7, <2>8 DEF ApprovalInv
<1>3. ASSUME NEW r \in Runs, Records(r) PROVE ApprovalInv'
  <2>1. PICK type, step, to : Recorder(r, type, step, to) /\ (Moves(r, "failed") \/ Adds(r, type, step, to))
    BY <1>3, RecordsRecord DEF ApprovalInv, Shapes
  <2>2. UNCHANGED <<config, machine, effects>>
    BY <1>3, RecordsRecord DEF ApprovalInv, Shapes
  <2>3. CASE Moves(r, "failed")
    <3>1. at'[r] = "failed" /\ at[r] # "new"
      BY <2>1, <2>3 DEF Moves, Recorder, ApprovalInv, Shapes, AtShape
    <3> QED
      BY <2>2, <2>3, <3>1, QuietIsPermitted, MoveIsPermitted DEF Over
  <2>4. CASE Adds(r, type, step, to)
    BY <2>1, <2>2, <2>4, RecordingIsPermitted
  <2> QED
    BY <2>1, <2>3, <2>4
<1>4. ASSUME NEW r \in Runs, RegisterRun(r) PROVE ApprovalInv'
  <2>1. at[r] = "register" /\ Moves(r, "turn") /\ UNCHANGED <<config, machine, effects>>
    BY <1>4 DEF RegisterRun, Move, Moves
  <2>2. at'[r] = "turn" /\ Step(r)' = "none"
    BY <2>1 DEF ApprovalInv, Shapes, AtShape, Moves, Permitted, Step
  <2>3. Permitted(r)'
    BY <2>2 DEF Permitted, Bare
  <2> QED
    BY <2>1, <2>3, MoveIsPermitted DEF Active
<1>5. ASSUME NEW r \in Runs, Decide(r) \/ DecideUnsandboxed(r) PROVE ApprovalInv'
  <2>1. PICK to : /\ Moves(r, to)
                  /\ \/ to = "refused"
                     \/ at[r] = "decide" /\ to = "grant" /\ config[r].call.auto_approve
                     \/ at[r] = "decide_bare" /\ to = "grant_bare" /\ config[r].call.allow_unsandboxed
    BY <1>5 DEF Decide, DecideUnsandboxed, Move, Moves
  <2>2. at[r] # "new" /\ UNCHANGED <<config, machine, effects, rows, engine>>
    BY <1>5 DEF Decide, DecideUnsandboxed
  <2>3. at'[r] = to /\ Step(r)' = Step(r) /\ Permitted(r)
    BY <2>1, <2>2 DEF ApprovalInv, Shapes, AtShape, Moves, Step
  <2>4. Permitted(r)'
    <3>1. CASE to = "refused"
      BY <2>3, <3>1, QuietIsPermitted DEF Over
    <3>2. CASE at[r] = "decide" /\ to = "grant" /\ config[r].call.auto_approve
      BY <2>2, <2>3, <3>2 DEF Permitted, Bare
    <3>3. CASE at[r] = "decide_bare" /\ to = "grant_bare" /\ config[r].call.allow_unsandboxed
      <4>1. Recorded(r, "ApprovalGranted", "run_command")'
        BY <2>2, <2>3, <3>3, RecordedLasts DEF Permitted, Bare
      <4> QED
        BY <2>2, <2>3, <3>3, <4>1 DEF Permitted, Bare
    <3> QED
      BY <2>1, <3>1, <3>2, <3>3
  <2>5. to \in Active \cup Over
    BY <2>1 DEF Active, Over
  <2> QED
    BY <2>1, <2>2, <2>4, <2>5, MoveIsPermitted
<1>6. ASSUME NEW r \in Runs, Execute(r) PROVE ApprovalInv'
  <2>1. at[r] = "execute" /\ Step(r) \in Tools /\ UNCHANGED <<config, machine, rows>>
    BY <1>6 DEF Execute, ApprovalInv, Permitted
  <2>2. PICK o \in CASE Step(r) = "list_dir" -> ListDir
                     [] Step(r) = "write_file" -> WriteFile
                     [] Step(r) = "run_command" -> RunCommand :
          /\ effects' = IF o.did THEN [effects EXCEPT ![r] = Append(@, Step(r))] ELSE effects
          /\ engine' = [engine EXCEPT ![r] = [@ EXCEPT !.ok = o.ok]]
          /\ at' = [at EXCEPT ![r] = IF o.ended THEN "finish" ELSE "failed"]
    BY <1>6 DEF Execute, Move
  <2>3. o.did => Step(r) \in Mutating
    BY <2>1, <2>2 DEF ListDir, Tools, Mutating
  <2>4. engine'[r] = [engine[r] EXCEPT !.ok = o.ok] /\ DOMAIN engine' = Runs
    BY <2>2 DEF ApprovalInv, Shapes, EngineShape
  <2>5. IsEngine(engine'[r]) /\ engine'[r].step = Step(r)
    BY <2>4, OkWritten, EngineFields DEF ApprovalInv, Shapes, EngineShape, Step
  <2>6. /\ at'[r] \in {"finish", "failed"}
        /\ \A q \in Runs \ {r} : at'[q] = at[q] /\ engine'[q] = engine[q] /\ effects'[q] = effects[q]
    BY <2>2 DEF ApprovalInv, Shapes, EngineShape, AtShape
  <2>7. Shapes'
    BY <2>1, <2>2, <2>4, <2>5, <2>6 DEF ApprovalInv, Shapes, EngineShape, AtShape, Active, Over, IsEngine
  <2>8. Permitted(r)'
    BY <2>1, <2>5, <2>6 DEF Permitted, Bare, Step
  <2>9. Earned(r)'
    <3>1. \A t : Cleared(r, t) => Cleared(r, t)'
      BY <2>1 DEF Cleared, Recorded, RowsOf
    <3>2. CASE ~o.did
      BY <2>2, <2>6, <3>1, <3>2 DEF ApprovalInv, Earned
    <3>3. CASE o.did
      <4>1. effects'[r] = Append(effects[r], Step(r)) /\ effects[r] \in Seq(Mutating) /\ Step(r) \in Mutating
        BY <2>2, <2>3, <3>3 DEF ApprovalInv, Shapes, Earned
      <4>2. Cleared(r, Step(r)) /\ \A t \in Range(effects[r]) : Cleared(r, t)
        BY <2>1, <4>1 DEF ApprovalInv, Permitted, Earned
      <4>3. effects'[r] \in Seq(Mutating) /\ \A t \in Range(effects'[r]) : Cleared(r, t)
        BY <4>1, <4>2, RangeOfAppend
      <4> QED
        BY <2>6, <3>1, <4>3 DEF Earned
    <3> QED
      BY <3>2, <3>3
  <2>10. \A q \in Runs \ {r} : Permitted(q)' /\ Earned(q)'
    BY <2>1, <2>6, OthersArePermitted DEF ApprovalInv
  <2> QED
    BY <2>7, <2>8, <2>9, <2>10 DEF ApprovalInv
<1>7. ASSUME NEW r \in Runs, MakeReceipt(r) \/ WriteReceipt(r) \/ Fail(r) PROVE ApprovalInv'
  <2>1. PICK to \in {"write", "report", "failed"} : Moves(r, to)
    BY <1>7 DEF MakeReceipt, WriteReceipt, Fail, Move, Moves
  <2>2. at[r] # "new" /\ UNCHANGED <<config, machine, effects>>
    BY <1>7 DEF MakeReceipt, WriteReceipt, Fail, Active
  <2>3. at'[r] = to
    BY <2>1, <2>2 DEF ApprovalInv, Shapes, AtShape, Moves
  <2>4. Permitted(r)'
    BY <2>3, QuietIsPermitted DEF Over
  <2> QED
    BY <2>1, <2>2, <2>4, MoveIsPermitted DEF Active, Over
<1>8. CASE Crash
  <2>1. UNCHANGED <<config, machine, rows, engine>>
    BY <1>8 DEF Crash
  <2>2. at' = [r \in Runs |-> IF at[r] \in Active THEN "crashed" ELSE at[r]]
    BY <1>8 DEF Crash
  <2>3. PICK did \in SUBSET {r \in Runs : at[r] = "execute" /\ Step(r) \in Mutating} :
          effects' = [r \in Runs |-> IF r \in did THEN Append(effects[r], Step(r)) ELSE effects[r]]
    BY <1>8 DEF Crash
  <2>4. Shapes'
    BY <2>1, <2>2, <2>3 DEF ApprovalInv, Shapes, EngineShape, AtShape, IsEngine, Over
  <2>5. \A r \in Runs : \A t : Cleared(r, t) => Cleared(r, t)'
    BY <2>1 DEF Cleared, Recorded, RowsOf
  <2>6. ASSUME NEW r \in Runs, at[r] \in Active PROVE Permitted(r)' /\ Earned(r)'
    <3>1. at'[r] = "crashed"
      BY <2>2, <2>6
    <3>2. Permitted(r)'
      BY <3>1, QuietIsPermitted DEF Over
    <3>3. CASE r \notin did
      <4>1. effects'[r] = effects[r]
        BY <2>3, <3>3
      <4> QED
        BY <2>1, <3>1, <3>2, <4>1, EarnedLasts DEF ApprovalInv
    <3>4. CASE r \in did
      <4>1. effects'[r] = Append(effects[r], Step(r)) /\ effects[r] \in Seq(Mutating) /\ Step(r) \in Mutating
        BY <2>3, <3>4 DEF ApprovalInv, Earned
      <4>2. Cleared(r, Step(r)) /\ \A t \in Range(effects[r]) : Cleared(r, t)
        BY <2>3, <3>4, <4>1 DEF ApprovalInv, Permitted, Earned
      <4>3. effects'[r] \in Seq(Mutating) /\ \A t \in Range(effects'[r]) : Cleared(r, t)
        BY <4>1, <4>2, RangeOfAppend
      <4> QED
        BY <2>5, <3>1, <3>2, <4>3 DEF Earned
    <3> QED
      BY <3>2, <3>3, <3>4
  <2>7. ASSUME NEW r \in Runs, at[r] \notin Active PROVE Permitted(r)' /\ Earned(r)'
    <3>1. at'[r] = at[r] /\ r \notin did
      BY <2>2, <2>7 DEF Active
    <3>2. effects'[r] = effects[r]
      BY <2>3, <3>1
    <3> QED
      BY <2>1, <3>1, <3>2, OthersArePermitted DEF ApprovalInv
  <2> QED
    BY <2>4, <2>6, <2>7 DEF ApprovalInv
<1> QED
  BY <1>1, <1>2, <1>3, <1>4, <1>5, <1>6, <1>7, <1>8 DEF Next, RunStep, Records

\* Any number of runs, sessions and faults: what a run did, its caller allowed and its log
\* has as allowed (EffectsWereApproved).
THEOREM EffectsAreApproved == Spec => []EffectsWereApproved
<1>1. ApprovalInv => EffectsWereApproved
  BY DEF ApprovalInv, Earned, Cleared, EffectsWereApproved
<1> QED
  BY <1>1, ApprovalBegins, ApprovalStep, PTL DEF Spec

--------------------------------------------------------------------------------
(* Logs.                                                                      *)

\* The set above a row is smaller than that above any row below it: one of them is least.
LEMMA ARowIsLast ==
  ASSUME NEW S, IsFiniteSet(S), S # {}, \A e \in S : e.seq \in Nat
  PROVE  \E m \in S : \A g \in S : g.seq <= m.seq
<1> DEFINE Above(e) == {g \in S : g.seq > e.seq}
           Family == {Above(e) : e \in S}
<1>1. IsWellFoundedOn(StrictSubsetOrdering(S), FiniteSubsetsOf(S))
  BY FS_StrictSubsetOrderingWellFounded
<1>2. FiniteSubsetsOf(S) = SUBSET S
  BY FS_FiniteSubsetsOfFinite
<1>3. Family \subseteq SUBSET S /\ Family # {}
  OBVIOUS
<1>4. PICK x \in Family : \A y \in Family : ~(<<y, x>> \in StrictSubsetOrdering(S))
  <2> HIDE DEF Family
  <2> QED
    BY <1>1, <1>2, <1>3, WFMin
<1>5. PICK m \in S : x = Above(m)
  OBVIOUS
<1>6. ASSUME NEW g \in S, ~(g.seq <= m.seq) PROVE FALSE
  <2>1. g \in Above(m) /\ g \notin Above(g) /\ Above(g) \in Family
    BY <1>6
  <2>2. Above(g) \subseteq Above(m)
    BY <1>6
  <2>3. Above(g) \in SUBSET S /\ Above(m) \in SUBSET S /\ Above(g) # Above(m)
    BY <2>1
  <2> HIDE DEF Above, Family
  <2>4. <<Above(g), Above(m)>> \in StrictSubsetOrdering(S)
    BY <2>2, <2>3 DEF StrictSubsetOrdering
  <2> QED
    BY <1>4, <1>5, <2>1, <2>4
<1> QED
  BY <1>6

Kinds == EngineShape /\ AtShape /\ DOMAIN config = Runs

\* A row is of a run that has begun, and under its name; no two share a name and a number.
RowsAreOfRuns ==
  /\ IsFiniteSet(rows)
  /\ \A e \in rows : e.run \in Runs /\ e.seq \in Nat \ {0} /\ at[e.run] # "new" /\ e.id = Id(e.run)
  /\ \A e, f \in rows : e.id = f.id /\ e.seq = f.seq => e = f

\* A run's first row starts a chain.
ChainsBegin ==
  /\ \A r \in Runs : at[r] # "new" => engine[r].next \in Nat \ {0}
  /\ \A r \in Runs : at[r] # "new" /\ RowsOf(r) = {} => engine[r].tip = GENESIS_HASH
  /\ \A r \in Runs : RowsOf(r) # {} => \E e \in RowsOf(r) : e.prev = GENESIS_HASH

LogInv == Kinds /\ RowsAreOfRuns /\ ChainsBegin

LEMMA TwoStartsAreNoChain ==
  ASSUME LogInv, NEW a \in rows, NEW b \in rows, a.id = b.id, a.seq < b.seq, b.prev = GENESIS_HASH
  PROVE  ~Chained(b.id)
<1> DEFINE lower == {f \in Log(b.id) : f.seq < b.seq}
<1>1. a \in lower /\ lower \subseteq rows
  BY DEF Log
<1>2. IsFiniteSet(lower) /\ \A e \in lower : e.seq \in Nat
  BY <1>1, FS_Subset DEF LogInv, RowsAreOfRuns
<1>3. \E m \in lower : \A g \in lower : g.seq <= m.seq
  BY <1>1, <1>2, ARowIsLast
<1> DEFINE m == CHOOSE f \in lower : \A g \in lower : g.seq <= f.seq
<1>4. m \in lower
  BY <1>3
<1>5. Before(b) = Hash(m)
  BY <1>1 DEF Before
<1>6. Hash(m) = <<m.run, m.seq>> /\ m.seq # 0
  BY <1>1, <1>4 DEF LogInv, RowsAreOfRuns, Hash
<1> HIDE DEF m
<1>7. Before(b) # GENESIS_HASH
  BY <1>5, <1>6 DEF GENESIS_HASH
<1>8. b \in Log(b.id)
  BY DEF Log
<1> QED
  BY <1>7, <1>8 DEF Chained

LEMMA TwoRunsAreNoChain ==
  ASSUME LogInv, NEW id \in Ids, Cardinality({e.run : e \in Log(id)}) > 1
  PROVE  ~Chained(id)
<1>1. PICK e \in Log(id), f \in Log(id) : e.run # f.run
  <2>1. SUFFICES ASSUME \A e, f \in Log(id) : e.run = f.run PROVE FALSE
    OBVIOUS
  <2>2. CASE Log(id) = {}
    <3>1. {e.run : e \in Log(id)} = {}
      BY <2>2
    <3> QED
      BY <3>1, FS_EmptySet
  <2>3. CASE Log(id) # {}
    <3>1. PICK e \in Log(id) : TRUE
      BY <2>3
    <3>2. {x.run : x \in Log(id)} = {e.run}
      BY <2>1
    <3>3. Cardinality({e.run}) = 1
      BY FS_Singleton
    <3>4. Cardinality({x.run : x \in Log(id)}) = 1
      BY <3>2, <3>3
    <3> QED
      BY <3>4
  <2> QED
    BY <2>2, <2>3
<1>2. PICK a \in RowsOf(e.run), b \in RowsOf(f.run) : a.prev = GENESIS_HASH /\ b.prev = GENESIS_HASH
  <2>1. e.run \in Runs /\ f.run \in Runs /\ RowsOf(e.run) # {} /\ RowsOf(f.run) # {}
    BY DEF Log, RowsOf, LogInv, RowsAreOfRuns
  <2> QED
    BY <2>1 DEF LogInv, ChainsBegin
<1>3. a \in rows /\ b \in rows /\ a.id = id /\ b.id = id /\ a.run # b.run
  BY <1>1 DEF RowsOf, Log, LogInv, RowsAreOfRuns
<1>4. a.seq \in Nat /\ b.seq \in Nat /\ a.seq # b.seq
  BY <1>3 DEF LogInv, RowsAreOfRuns
<1>5. CASE a.seq < b.seq
  BY <1>2, <1>3, <1>5, TwoStartsAreNoChain
<1>6. CASE b.seq < a.seq
  BY <1>2, <1>3, <1>6, TwoStartsAreNoChain
<1> QED
  BY <1>4, <1>5, <1>6

LEMMA LogBegins == Init => LogInv
<1> SUFFICES ASSUME Init PROVE LogInv
  OBVIOUS
<1>1. /\ at = [r \in Runs |-> "new"] /\ rows = {}
      /\ config = [r \in Runs |-> Unasked]
      /\ engine = [r \in Runs |-> Fresh(1)]
  BY DEF Init
<1>2. IsEngine(Fresh(1))
  BY DEF IsEngine, Engine, Fresh
<1>3. Kinds
  BY <1>1, <1>2 DEF Kinds, EngineShape, AtShape
<1> QED
  BY <1>1, <1>3, FS_EmptySet DEF LogInv, RowsAreOfRuns, ChainsBegin, RowsOf

LEMMA LogRests ==
  ASSUME LogInv, Kinds', UNCHANGED <<config, rows>>,
         \A r \in Runs : /\ at'[r] = "new" <=> at[r] = "new"
                         /\ engine'[r].next = engine[r].next /\ engine'[r].tip = engine[r].tip
  PROVE  LogInv'
<1>1. RowsAreOfRuns'
  BY DEF LogInv, RowsAreOfRuns, Id
<1>2. ChainsBegin'
  BY DEF LogInv, ChainsBegin, RowsOf
<1> QED
  BY <1>1, <1>2 DEF LogInv

LEMMA LogGrows ==
  ASSUME LogInv, NEW r \in Runs, NEW type, NEW step, NEW to, Adds(r, type, step, to),
         at[r] # "new", to \in Active \cup Over, UNCHANGED config
  PROVE  LogInv'
<1> DEFINE row == RowOf(r, type)
<1>1. /\ row.id = Id(r) /\ row.run = r /\ row.seq = engine[r].next /\ row.prev = engine[r].tip
      /\ rows' = rows \cup {row}
      /\ \A f \in Log(Id(r)) : f.seq # engine[r].next
  BY DEF RowOf, Adds
<1> HIDE DEF row
<1>2. Kinds'
  BY AddsKeepsShape DEF LogInv, Kinds, AtShape, Adds
<1>3. /\ \A q \in Runs : at'[q] = "new" <=> at[q] = "new"
      /\ \A q \in Runs \ {r} : engine'[q] = engine[q]
  BY DEF Adds, LogInv, Kinds, AtShape, Active, Over
<1>4. RowsAreOfRuns'
  <2>1. IsFiniteSet(rows')
    BY <1>1, FS_AddElement DEF LogInv, RowsAreOfRuns
  <2>2. row.seq \in Nat \ {0}
    BY <1>1 DEF LogInv, ChainsBegin
  <2>3. \A e \in rows' : e.run \in Runs /\ e.seq \in Nat \ {0} /\ at'[e.run] # "new" /\ e.id = Id(e.run)'
    BY <1>1, <1>3, <2>2 DEF LogInv, RowsAreOfRuns, Id
  <2>4. \A e \in rows : e.id = row.id => e.seq # row.seq
    BY <1>1 DEF Log
  <2>5. \A e, f \in rows' : e.id = f.id /\ e.seq = f.seq => e = f
    BY <1>1, <2>4 DEF LogInv, RowsAreOfRuns
  <2> QED
    BY <2>1, <2>3, <2>5 DEF RowsAreOfRuns
<1>5. ChainsBegin'
  <2>1. /\ \A q \in Runs \ {r} : RowsOf(q)' = RowsOf(q)
        /\ RowsOf(r)' = RowsOf(r) \cup {row}
    BY <1>1 DEF RowsOf
  <2>2. engine'[r].next \in Nat \ {0}
    BY DEF Adds, LogInv, ChainsBegin
  <2>3. \E e \in RowsOf(r)' : e.prev = GENESIS_HASH
    BY <1>1, <2>1 DEF LogInv, ChainsBegin
  <2> QED
    BY <1>3, <2>1, <2>2, <2>3 DEF LogInv, ChainsBegin
<1> QED
  BY <1>2, <1>4, <1>5 DEF LogInv

LEMMA LogStep == LogInv /\ [Next]_vars => LogInv'
<1> SUFFICES ASSUME LogInv, [Next]_vars PROVE LogInv'
  OBVIOUS
<1> USE DEF daemonVars
<1>1. CASE UNCHANGED vars \/ \E s \in Sessions : CreateSession(s)
  <2>1. UNCHANGED <<config, rows, at, engine>>
    BY <1>1 DEF vars, CreateSession
  <2>2. Kinds'
    BY <2>1 DEF LogInv, Kinds, EngineShape, AtShape, IsEngine
  <2> QED
    BY <2>1, <2>2, LogRests
<1>2. ASSUME NEW r \in Runs, NEW s \in Sessions, NumberRun(r, s) PROVE LogInv'
  <2>1. PICK c \in Configs, id \in Ids, n \in 1 .. Cardinality(rows) + 1 :
          /\ config' = [config EXCEPT ![r] = [session |-> s, id |-> id, call |-> c]]
          /\ engine' = [engine EXCEPT ![r] = Fresh(n)]
    BY <1>2 DEF NumberRun
  <2>2. at[r] = "new" /\ at' = [at EXCEPT ![r] = "register"] /\ UNCHANGED rows
    BY <1>2 DEF NumberRun, Move
  <2>3. n \in Nat \ {0}
    <3>1. Cardinality(rows) \in Nat
      BY FS_CardinalityType DEF LogInv, RowsAreOfRuns
    <3> QED
      BY <3>1
  <2>4. IsEngine(Fresh(n)) /\ Fresh(n).next = n /\ Fresh(n).tip = GENESIS_HASH
    BY DEF IsEngine, Engine, Fresh
  <2>5. /\ at'[r] = "register" /\ engine'[r] = Fresh(n)
        /\ \A q \in Runs \ {r} : at'[q] = at[q] /\ config'[q] = config[q] /\ engine'[q] = engine[q]
    BY <2>1, <2>2 DEF LogInv, Kinds, EngineShape, AtShape
  <2>6. Kinds'
    BY <2>1, <2>2, <2>4, <2>5 DEF LogInv, Kinds, EngineShape, AtShape, Active, IsEngine
  <2>7. RowsOf(r) = {} /\ \A q \in Runs : RowsOf(q)' = RowsOf(q)
    BY <2>2 DEF LogInv, RowsAreOfRuns, RowsOf
  <2>8. RowsAreOfRuns'
    BY <2>2, <2>5 DEF LogInv, RowsAreOfRuns, Id
  <2>9. ChainsBegin'
    BY <2>3, <2>4, <2>5, <2>7 DEF LogInv, ChainsBegin
  <2> QED
    BY <2>6, <2>8, <2>9 DEF LogInv
<1>3. ASSUME NEW r \in Runs, NEW to, Moves(r, to), at[r] # "new", to \in Active \cup Over, UNCHANGED config PROVE LogInv'
  <2>1. Kinds' /\ \A q \in Runs : at'[q] = "new" <=> at[q] = "new"
    BY <1>3 DEF LogInv, Kinds, EngineShape, AtShape, IsEngine, Moves, Active, Over
  <2> QED
    BY <1>3, <2>1, LogRests DEF Moves
<1>4. ASSUME NEW r \in Runs, Records(r) PROVE LogInv'
  <2>1. PICK type, step, to : Recorder(r, type, step, to) /\ (Moves(r, "failed") \/ Adds(r, type, step, to))
    BY <1>4, RecordsRecord DEF LogInv, Kinds
  <2>2. at[r] # "new" /\ to \in Active \cup Over /\ "failed" \in Active \cup Over /\ UNCHANGED config
    BY <1>4, <2>1, RecordsRecord DEF LogInv, Kinds, Recorder, Active, Over
  <2> QED
    BY <1>3, <2>1, <2>2, LogGrows
<1>5. ASSUME NEW r \in Runs,
             RegisterRun(r) \/ Decide(r) \/ DecideUnsandboxed(r) \/ MakeReceipt(r) \/ WriteReceipt(r) \/ Fail(r)
      PROVE LogInv'
  <2>1. at[r] # "new" /\ UNCHANGED config
    BY <1>5 DEF RegisterRun, Decide, DecideUnsandboxed, MakeReceipt, WriteReceipt, Fail, Active
  <2>2. PICK to \in Active \cup Over : Moves(r, to)
    BY <1>5 DEF RegisterRun, Decide, DecideUnsandboxed, MakeReceipt, WriteReceipt, Fail, Move, Moves, Active, Over
  <2> QED
    BY <1>3, <2>1, <2>2
<1>6. ASSUME NEW r \in Runs, Execute(r) PROVE LogInv'
  <2>1. at[r] = "execute" /\ UNCHANGED <<config, rows>>
    BY <1>6 DEF Execute
  <2>2. PICK ok : /\ engine' = [engine EXCEPT ![r] = [@ EXCEPT !.ok = ok]]
                  /\ \E to \in {"finish", "failed"} : at' = [at EXCEPT ![r] = to]
    <3>1. PICK o \in CASE Step(r) = "list_dir" -> ListDir
                       [] Step(r) = "write_file" -> WriteFile
                       [] Step(r) = "run_command" -> RunCommand :
            /\ engine' = [engine EXCEPT ![r] = [@ EXCEPT !.ok = o.ok]]
            /\ at' = [at EXCEPT ![r] = IF o.ended THEN "finish" ELSE "failed"]
      BY <1>6 DEF Execute, Move
    <3> QED
      BY <3>1
  <2>3. engine'[r] = [engine[r] EXCEPT !.ok = ok] /\ DOMAIN engine' = Runs
    BY <2>2 DEF LogInv, Kinds, EngineShape
  <2>4. IsEngine(engine'[r]) /\ engine'[r].next = engine[r].next /\ engine'[r].tip = engine[r].tip
    BY <2>3, OkWritten, EngineFields DEF LogInv, Kinds, EngineShape
  <2>5. /\ \A q \in Runs : at'[q] = "new" <=> at[q] = "new"
        /\ \A q \in Runs \ {r} : engine'[q] = engine[q]
    BY <2>1, <2>2 DEF LogInv, Kinds, EngineShape, AtShape
  <2>6. Kinds'
    BY <2>1, <2>2, <2>3, <2>4, <2>5 DEF LogInv, Kinds, EngineShape, AtShape, IsEngine, Active, Over
  <2> QED
    BY <2>1, <2>4, <2>5, <2>6, LogRests
<1>7. CASE Crash
  <2>1. at' = [r \in Runs |-> IF at[r] \in Active THEN "crashed" ELSE at[r]] /\ UNCHANGED <<config, rows, engine>>
    BY <1>7 DEF Crash
  <2>2. Kinds' /\ \A q \in Runs : at'[q] = "new" <=> at[q] = "new"
    BY <2>1 DEF LogInv, Kinds, EngineShape, AtShape, IsEngine, Active, Over
  <2> QED
    BY <2>1, <2>2, LogRests
<1> QED
  BY <1>1, <1>2, <1>4, <1>5, <1>6, <1>7 DEF Next, RunStep, Records

\* Any number of runs of one name, sharing any numbers: what they write together is no
\* chain, and its replay says that it needs reconciling (MixedLogIsNoticed).
THEOREM MixedLogsAreNoticed == Spec => []MixedLogIsNoticed
<1>1. LogInv => MixedLogIsNoticed
  BY TwoRunsAreNoChain DEF MixedLogIsNoticed, Replay
<1> QED
  BY <1>1, LogBegins, LogStep, PTL DEF Spec

--------------------------------------------------------------------------------
(* Receipts.                                                                  *)

Announced(r) == \E e \in RowsOf(r) : e.type = "ReceiptGenerated"

\* The file of a run that shares its name with no other is what the run left there.
Filed(r) ==
  /\ Announced(r) => at[r] = "done"
  /\ at[r] # "new" => Id(r) \in Ids
  /\ at[r] = "write" /\ Alone(r) => receipts[Id(r)] = "torn"
  /\ at[r] \in {"report", "done"} /\ Alone(r) => receipts[Id(r)] = r

FileInv == DOMAIN receipts = Ids /\ \A r \in Runs : Filed(r)

LEMMA AloneBefore ==
  ASSUME NEW r \in Runs, Alone(r)', at[r] # "new",
         \A q \in Runs : at[q] # "new" => at'[q] # "new" /\ config'[q] = config[q]
  PROVE  Alone(r)
  BY DEF Alone, Id

LEMMA FiledLasts ==
  ASSUME NEW r \in Runs, Filed(r), at'[r] = at[r], at[r] # "new" => config'[r] = config[r],
         at[r] # "new" /\ Alone(r)' => Alone(r), Announced(r)' => Announced(r),
         at[r] # "new" /\ Alone(r) => receipts'[Id(r)] = receipts[Id(r)]
  PROVE  Filed(r)'
  BY DEF Filed, Id

\* A step that leaves the files alone.
LEMMA FilesRest ==
  ASSUME LogInv, FileInv, UNCHANGED receipts, NEW r \in Runs, at[r] # "done", at[r] # "new",
         \A q \in Runs \ {r} : at'[q] = at[q] /\ RowsOf(q)' = RowsOf(q),
         UNCHANGED config, at'[r] \notin {"new", "write", "report"},
         Announced(r)' => at'[r] = "done",
         at'[r] = "done" => at[r] = "report"
  PROVE  FileInv'
<1>1. \A q \in Runs : at[q] # "new" => at'[q] # "new" /\ config'[q] = config[q]
  OBVIOUS
<1>2. \A q \in Runs \ {r} : Filed(q)'
  <2> TAKE q \in Runs \ {r}
  <2>1. Announced(q)' => Announced(q)
    BY DEF Announced
  <2>2. at[q] # "new" /\ Alone(q)' => Alone(q)
    BY <1>1, AloneBefore
  <2> QED
    BY <1>1, <2>1, <2>2, FiledLasts DEF FileInv
<1>3. Filed(r)'
  <2>1. Alone(r)' => Alone(r)
    BY <1>1, AloneBefore
  <2>2. Id(r)' = Id(r)
    BY DEF Id
  <2> QED
    BY <2>1, <2>2 DEF FileInv, Filed
<1> QED
  BY <1>2, <1>3 DEF FileInv

LEMMA FilesBegin == Init => FileInv
  BY DEF Init, ReceiptsInit, FileInv, Filed, Announced, RowsOf

LEMMA FileStep == LogInv /\ FileInv /\ [Next]_vars => FileInv'
<1> SUFFICES ASSUME LogInv, FileInv, [Next]_vars PROVE FileInv'
  OBVIOUS
<1> USE DEF daemonVars, fileVars
<1>1. CASE UNCHANGED vars \/ \E s \in Sessions : CreateSession(s)
  <2>1. UNCHANGED <<config, rows, at, receipts>>
    BY <1>1 DEF vars, CreateSession
  <2> QED
    BY <2>1 DEF FileInv, Filed, Announced, RowsOf, Alone, Id
<1>2. ASSUME NEW r \in Runs, NEW s \in Sessions, NumberRun(r, s) PROVE FileInv'
  <2>1. PICK c \in Configs, id \in Ids : config' = [config EXCEPT ![r] = [session |-> s, id |-> id, call |-> c]]
    BY <1>2 DEF NumberRun
  <2>2. at[r] = "new" /\ at' = [at EXCEPT ![r] = "register"] /\ UNCHANGED <<rows, receipts>>
    BY <1>2 DEF NumberRun, Move
  <2>3. /\ at'[r] = "register" /\ Id(r)' = id
        /\ \A q \in Runs \ {r} : at'[q] = at[q] /\ config'[q] = config[q]
    BY <2>1, <2>2 DEF LogInv, Kinds, AtShape, Id
  <2>4. ~Announced(r)'
    BY <2>2 DEF Announced, RowsOf, LogInv, RowsAreOfRuns
  <2>5. Filed(r)'
    BY <2>3, <2>4 DEF Filed
  <2>6. \A q \in Runs \ {r} : Filed(q)'
    <3> TAKE q \in Runs \ {r}
    <3>1. Announced(q)' => Announced(q)
      BY <2>2 DEF Announced, RowsOf
    <3>2. at[q] # "new" /\ Alone(q)' => Alone(q)
      BY <2>2, <2>3, AloneBefore
    <3> QED
      BY <2>2, <2>3, <3>1, <3>2, FiledLasts DEF FileInv
  <2> QED
    BY <2>2, <2>5, <2>6 DEF FileInv
<1>3. ASSUME NEW r \in Runs, NEW to, at' = [at EXCEPT ![r] = to], UNCHANGED <<config, rows, receipts>>,
             at[r] \in Active, to \in (Active \cup Over) \ {"write", "report", "done"}
      PROVE FileInv'
  <2>1. at'[r] = to /\ to # "new" /\ \A q \in Runs \ {r} : at'[q] = at[q]
    BY <1>3 DEF LogInv, Kinds, AtShape, Active, Over
  <2>2. at[r] # "done" /\ at[r] # "new"
    BY <1>3 DEF Active
  <2>3. ~Announced(r)' /\ \A q \in Runs : RowsOf(q)' = RowsOf(q)
    BY <1>3, <2>2 DEF FileInv, Filed, Announced, RowsOf
  <2> QED
    BY <1>3, <2>1, <2>2, <2>3, FilesRest
<1>4. ASSUME NEW r \in Runs, Records(r) PROVE FileInv'
  <2>1. PICK type, step, to : Recorder(r, type, step, to) /\ (Moves(r, "failed") \/ Adds(r, type, step, to))
    BY <1>4, RecordsRecord DEF LogInv, Kinds
  <2>2. at[r] \in Active /\ UNCHANGED <<config, receipts>>
    BY <1>4, <2>1, RecordsRecord DEF LogInv, Kinds, Recorder, Active
  <2>3. CASE Moves(r, "failed")
    BY <1>3, <2>2, <2>3 DEF Moves, Over
  <2>4. CASE Adds(r, type, step, to)
    <3>1. /\ to \notin {"new", "write", "report"} /\ (to = "done" <=> type = "ReceiptGenerated")
          /\ to = "done" => at[r] = "report"
          /\ at[r] # "done" /\ at[r] # "new"
      BY <2>1 DEF Recorder
    <3>2. at'[r] = to /\ \A q \in Runs \ {r} : at'[q] = at[q]
      BY <2>4 DEF Adds, LogInv, Kinds, AtShape
    <3>3. /\ \A q \in Runs \ {r} : RowsOf(q)' = RowsOf(q)
          /\ RowsOf(r)' = RowsOf(r) \cup {RowOf(r, type)}
          /\ RowOf(r, type).type = type
      BY <2>4 DEF Adds, RowsOf, RowOf
    <3>4. Announced(r)' => to = "done"
      <4>1. ~Announced(r)
        BY <3>1 DEF FileInv, Filed
      <4> QED
        BY <3>1, <3>3, <4>1 DEF Announced
    <3> QED
      BY <2>2, <3>1, <3>2, <3>3, <3>4, FilesRest
  <2> QED
    BY <2>1, <2>3, <2>4
<1>5. ASSUME NEW r \in Runs, RegisterRun(r) \/ Decide(r) \/ DecideUnsandboxed(r) \/ Fail(r) PROVE FileInv'
  <2>1. at[r] \in Active /\ UNCHANGED <<config, rows, receipts>>
    BY <1>5 DEF RegisterRun, Decide, DecideUnsandboxed, Fail, Active
  <2>2. PICK to \in {"turn", "grant", "grant_bare", "refused", "failed"} : at' = [at EXCEPT ![r] = to]
    BY <1>5 DEF RegisterRun, Decide, DecideUnsandboxed, Fail, Move
  <2>3. to \in (Active \cup Over) \ {"write", "report", "done"}
    BY DEF Active, Over
  <2> QED
    BY <1>3, <2>1, <2>2, <2>3
<1>6. ASSUME NEW r \in Runs, Execute(r) PROVE FileInv'
  <2>1. at[r] = "execute" /\ UNCHANGED <<config, rows, receipts>>
    BY <1>6 DEF Execute
  <2>2. PICK to \in {"finish", "failed"} : at' = [at EXCEPT ![r] = to]
    <3>1. PICK o \in CASE Step(r) = "list_dir" -> ListDir
                       [] Step(r) = "write_file" -> WriteFile
                       [] Step(r) = "run_command" -> RunCommand :
            at' = [at EXCEPT ![r] = IF o.ended THEN "finish" ELSE "failed"]
      BY <1>6 DEF Execute, Move
    <3> QED
      BY <3>1
  <2>3. to \in (Active \cup Over) \ {"write", "report", "done"} /\ at[r] \in Active
    BY <2>1 DEF Active, Over
  <2> QED
    BY <1>3, <2>1, <2>2, <2>3
<1>7. ASSUME NEW r \in Runs, MakeReceipt(r) \/ WriteReceipt(r) PROVE FileInv'
  <2>1. /\ at[r] \in {"receipt", "write"} /\ UNCHANGED <<config, rows>>
        /\ \E to \in {"write", "report"} : at' = [at EXCEPT ![r] = to]
    BY <1>7 DEF MakeReceipt, WriteReceipt, Move
  <2>2. PICK c : /\ receipts' = [receipts EXCEPT ![Id(r)] = c]
                 /\ \/ at' = [at EXCEPT ![r] = "write"] /\ c = "torn"
                    \/ /\ at' = [at EXCEPT ![r] = "report"] /\ at[r] = "write"
                       /\ c = r \/ (c = "torn" /\ receipts[Id(r)] # "torn")
    <3>1. CASE MakeReceipt(r)
      BY <3>1 DEF MakeReceipt, OpenReceipt, Move
    <3>2. CASE WriteReceipt(r)
      BY <3>2 DEF WriteReceipt, FillReceipt, Move
    <3> QED
      BY <1>7, <3>1, <3>2
  <2>3. /\ \A q \in Runs \ {r} : at'[q] = at[q]
        /\ at'[r] \in {"write", "report"} /\ Id(r)' = Id(r) /\ Id(r) \in Ids
        /\ \A q \in Runs : at[q] # "new" => at'[q] # "new" /\ config'[q] = config[q]
    BY <2>1 DEF LogInv, Kinds, AtShape, Id, FileInv, Filed
  <2>4. \A q \in Runs : Announced(q)' <=> Announced(q)
    BY <2>1 DEF Announced, RowsOf
  <2>5. receipts'[Id(r)] = c /\ DOMAIN receipts' = Ids /\ \A id \in Ids \ {Id(r)} : receipts'[id] = receipts[id]
    BY <2>2, <2>3 DEF FileInv
  <2>6. Filed(r)'
    <3>1. ~Announced(r)' /\ (Alone(r)' => Alone(r))
      BY <2>1, <2>3, <2>4, AloneBefore DEF FileInv, Filed
    <3>2. CASE at' = [at EXCEPT ![r] = "write"] /\ c = "torn"
      <4>1. at'[r] = "write"
        BY <3>2 DEF LogInv, Kinds, AtShape
      <4> QED
        BY <2>3, <2>5, <3>1, <3>2, <4>1 DEF Filed
    <3>3. CASE /\ at' = [at EXCEPT ![r] = "report"] /\ at[r] = "write"
               /\ c = r \/ (c = "torn" /\ receipts[Id(r)] # "torn")
      <4>1. at'[r] = "report"
        BY <3>3 DEF LogInv, Kinds, AtShape
      <4>2. Alone(r) => c = r
        BY <3>3 DEF FileInv, Filed
      <4> QED
        BY <2>3, <2>5, <3>1, <4>1, <4>2 DEF Filed
    <3> QED
      BY <2>2, <3>2, <3>3
  <2>7. \A q \in Runs \ {r} : Filed(q)'
    <3> TAKE q \in Runs \ {r}
    <3>1. at[q] # "new" /\ Alone(q)' => Alone(q)
      BY <2>3, AloneBefore
    <3>2. at[q] # "new" /\ Alone(q) => Id(q) # Id(r) /\ Id(q) \in Ids
      BY <2>1 DEF Alone, FileInv, Filed
    <3>3. at[q] # "new" /\ Alone(q) => receipts'[Id(q)] = receipts[Id(q)]
      BY <2>5, <3>2
    <3> QED
      BY <2>1, <2>3, <2>4, <3>1, <3>3, FiledLasts DEF FileInv
  <2> QED
    BY <2>5, <2>6, <2>7 DEF FileInv
<1>8. CASE Crash
  <2>1. /\ at' = [r \in Runs |-> IF at[r] \in Active THEN "crashed" ELSE at[r]]
        /\ UNCHANGED <<config, rows, receipts>>
    BY <1>8 DEF Crash
  <2>2. \A r \in Runs : /\ Announced(r)' <=> Announced(r)
                        /\ at'[r] = "crashed" \/ at'[r] = at[r]
                        /\ at[r] = "done" => at'[r] = "done"
                        /\ at[r] # "new" => at'[r] # "new" /\ config'[r] = config[r]
                        /\ at[r] = "new" => at'[r] = "new"
    BY <2>1 DEF Announced, RowsOf, Active
  <2>3. ASSUME NEW r \in Runs PROVE Filed(r)'
    <3>1. at[r] # "new" /\ Alone(r)' => Alone(r)
      BY <2>2, AloneBefore
    <3>2. CASE at'[r] = at[r]
      BY <2>1, <2>2, <3>1, <3>2, FiledLasts DEF FileInv
    <3>3. CASE at'[r] = "crashed" /\ at[r] # "new"
      BY <2>1, <2>2, <3>3 DEF FileInv, Filed, Id
    <3> QED
      BY <2>2, <3>2, <3>3
  <2> QED
    BY <2>1, <2>3 DEF FileInv
<1> QED
  BY <1>1, <1>2, <1>4, <1>5, <1>6, <1>7, <1>8 DEF Next, RunStep, Records

\* Any number of runs, names and faults: a receipt whose event is in a log is in its file,
\* unless two runs have one name (AnnouncedReceiptIsThere).
THEOREM AnnouncedReceiptsAreThere == Spec => []AnnouncedReceiptIsThere
<1>1. FileInv => AnnouncedReceiptIsThere
  BY DEF FileInv, Filed, Announced, AnnouncedReceiptIsThere, Recorded
<1> QED
  BY <1>1, LogBegins, LogStep, FilesBegin, FileStep, PTL DEF Spec

--------------------------------------------------------------------------------
(* Replays.                                                                   *)

\* A run's rows are numbered and chained one after the other, up to its tip.
Linked(r) ==
  /\ \A e \in RowsOf(r) : e.seq < engine[r].next
  /\ RowsOf(r) # {} => \E f \in RowsOf(r) : f.seq = engine[r].next - 1 /\ engine[r].tip = Hash(f)
  /\ \A e \in RowsOf(r) :
       \/ e.prev = GENESIS_HASH /\ (\A f \in RowsOf(r) : f.seq >= e.seq)
       \/ \E f \in RowsOf(r) : f.seq = e.seq - 1 /\ e.prev = Hash(f)

\* The last row that replaying goes by.
Last(r, mark) ==
  \E e \in RowsOf(r) : /\ Mark(e.type) = mark
                       /\ \A f \in RowsOf(r) : Mark(f.type) # "none" => f.seq <= e.seq

Ended(r) == Cardinality(FinishedEffects(r))

\* What a run has done is at most one effect ahead of what its log has the end of, and
\* only behind a row that says a tool is running.
Ahead(r) ==
  /\ at[r] \in {"decide", "decide_bare", "refused"} => Last(r, "WaitingForApproval")
  /\ at[r] \in {"execute", "finish"} => Last(r, "RunningTool")
  /\ at[r] \notin {"finish", "failed", "crashed"} => Len(effects[r]) <= Ended(r)
  /\ Len(effects[r]) > Ended(r) => Last(r, "RunningTool")
  /\ at[r] = "finish" => Len(effects[r]) <= IF Step(r) \in Mutating THEN Ended(r) + 1 ELSE Ended(r)

ReplayInv == \A r \in Runs : Linked(r) /\ Ahead(r)

LEMMA LoneLog ==
  ASSUME LogInv, NEW r \in Runs, at[r] # "new", Alone(r)
  PROVE  Log(Id(r)) = RowsOf(r)
<1>1. \A e \in rows : e.id = Id(r) => e.run = r
  BY DEF LogInv, RowsAreOfRuns, Alone
<1>2. \A e \in rows : e.run = r => e.id = Id(r)
  BY DEF LogInv, RowsAreOfRuns
<1> QED
  BY <1>1, <1>2 DEF Log, RowsOf

LEMMA NumbersDiffer ==
  ASSUME LogInv, NEW r \in Runs, NEW e \in RowsOf(r), NEW f \in RowsOf(r)
  PROVE  e.seq \in Nat /\ (e.seq = f.seq => e = f)
  BY DEF LogInv, RowsAreOfRuns, RowsOf

LEMMA LoneLogIsChained ==
  ASSUME LogInv, NEW r \in Runs, at[r] # "new", Alone(r), Linked(r)
  PROVE  Chained(Id(r))
<1> SUFFICES ASSUME NEW e \in RowsOf(r) PROVE e.prev = Before(e)
  BY LoneLog DEF Chained
<1> DEFINE lower == {f \in RowsOf(r) : f.seq < e.seq}
<1>1. Log(e.id) = RowsOf(r)
  BY LoneLog DEF LogInv, RowsAreOfRuns, RowsOf
<1>2. Before(e) = IF lower = {} THEN GENESIS_HASH
                  ELSE Hash(CHOOSE f \in lower : \A g \in lower : g.seq <= f.seq)
  BY <1>1 DEF Before
<1>3. CASE e.prev = GENESIS_HASH /\ (\A f \in RowsOf(r) : f.seq >= e.seq)
  <2>1. lower = {}
    BY <1>3, NumbersDiffer
  <2> QED
    BY <1>2, <1>3, <2>1
<1>4. ASSUME NEW f \in RowsOf(r), f.seq = e.seq - 1, e.prev = Hash(f) PROVE e.prev = Before(e)
  <2>1. f \in lower /\ \A g \in lower : g.seq <= f.seq
    BY <1>4, NumbersDiffer
  <2>2. \A h \in lower : (\A g \in lower : g.seq <= h.seq) => h = f
    <3> TAKE h \in lower
    <3> HAVE \A g \in lower : g.seq <= h.seq
    <3>1. h \in RowsOf(r) /\ h.seq <= f.seq /\ f.seq <= h.seq
      BY <2>1
    <3> QED
      BY <3>1, NumbersDiffer
  <2>3. f = CHOOSE h \in lower : \A g \in lower : g.seq <= h.seq
    BY <2>1, <2>2
  <2> QED
    BY <1>2, <1>4, <2>1, <2>3
<1> QED
  BY <1>3, <1>4 DEF Linked

LEMMA ReplayIsTheLast ==
  ASSUME LogInv, NEW r \in Runs, at[r] # "new", Alone(r), Linked(r), NEW mark, mark # "none", Last(r, mark)
  PROVE  Replay(Id(r)) = mark
<1> DEFINE marks == {e \in RowsOf(r) : Mark(e.type) # "none"}
           c == CHOOSE e \in marks : \A f \in marks : f.seq <= e.seq
<1>1. PICK e \in marks : Mark(e.type) = mark /\ \A f \in marks : f.seq <= e.seq
  BY DEF Last
<1>2. \A h \in marks : (\A f \in marks : f.seq <= h.seq) => h = e
  <2> TAKE h \in marks
  <2> HAVE \A f \in marks : f.seq <= h.seq
  <2>1. h \in RowsOf(r) /\ e \in RowsOf(r) /\ h.seq <= e.seq /\ e.seq <= h.seq
    BY <1>1
  <2> QED
    BY <2>1, NumbersDiffer
<1>3. c = e
  BY <1>1, <1>2
<1>4. Replay(Id(r)) = Mark(c.type)
  BY <1>1, LoneLog, LoneLogIsChained DEF Replay
<1> QED
  BY <1>1, <1>3, <1>4

LEMMA ReplaysAreHonest == LogInv /\ ReplayInv => ReplayIsHonest
<1> SUFFICES ASSUME LogInv, ReplayInv, NEW r \in Runs, at[r] # "new", Alone(r)
             PROVE  /\ Len(effects[r]) > Cardinality(FinishedEffects(r)) => Replay(Id(r)) = "RunningTool"
                    /\ at[r] = "refused" => Replay(Id(r)) = "WaitingForApproval"
                    /\ Replay(Id(r)) # "NeedsReconciliation"
  BY DEF ReplayIsHonest
<1>1. Linked(r) /\ Ahead(r)
  BY DEF ReplayInv
<1>2. Len(effects[r]) > Cardinality(FinishedEffects(r)) => Replay(Id(r)) = "RunningTool"
  BY <1>1, ReplayIsTheLast DEF Ahead, Ended
<1>3. at[r] = "refused" => Replay(Id(r)) = "WaitingForApproval"
  BY <1>1, ReplayIsTheLast DEF Ahead
<1>4. Replay(Id(r)) # "NeedsReconciliation"
  <2>1. Replay(Id(r)) = "Queued" \/ \E type : Replay(Id(r)) = Mark(type)
    BY <1>1, LoneLogIsChained DEF Replay
  <2>2. \A type : Mark(type) # "NeedsReconciliation"
    BY DEF Mark
  <2> QED
    BY <2>1, <2>2
<1> QED
  BY <1>2, <1>3, <1>4

--------------------------------------------------------------------------------

LEMMA RunRests ==
  ASSUME NEW r \in Runs, Linked(r), Ahead(r), RowsOf(r)' = RowsOf(r), at'[r] = at[r],
         engine'[r].next = engine[r].next, engine'[r].tip = engine[r].tip,
         engine'[r].step = engine[r].step, effects'[r] = effects[r]
  PROVE  Linked(r)' /\ Ahead(r)'
<1>1. Linked(r)'
  BY DEF Linked, Hash
<1>2. FinishedEffects(r)' = FinishedEffects(r)
  BY DEF FinishedEffects
<1>3. \A mark : Last(r, mark) => Last(r, mark)'
  BY DEF Last, Mark
<1>4. Ahead(r)'
  BY <1>2, <1>3 DEF Ahead, Ended, Step
<1> QED
  BY <1>1, <1>4

\* A run that goes on without a row, and does nothing.
LEMMA RunMoves ==
  ASSUME NEW r \in Runs, Linked(r), Ahead(r), RowsOf(r)' = RowsOf(r), engine'[r] = engine[r],
         effects'[r] = effects[r],
         at'[r] \notin {"decide", "decide_bare", "execute", "finish"},
         at'[r] = "refused" => at[r] \in {"decide", "decide_bare"},
         at'[r] \in {"failed", "crashed"} \/ at[r] \notin {"finish", "failed", "crashed"}
  PROVE  Linked(r)' /\ Ahead(r)'
<1>1. Linked(r)'
  BY DEF Linked, Hash
<1>2. FinishedEffects(r)' = FinishedEffects(r)
  BY DEF FinishedEffects
<1>3. \A mark : Last(r, mark) => Last(r, mark)'
  BY DEF Last, Mark
<1>4. Ahead(r)'
  BY <1>2, <1>3 DEF Ahead, Ended
<1> QED
  BY <1>1, <1>4

LEMMA RunRecords ==
  ASSUME LogInv, ApprovalInv, NEW r \in Runs, Linked(r), Ahead(r),
         NEW type, NEW step, NEW to, Recorder(r, type, step, to), Adds(r, type, step, to), UNCHANGED effects
  PROVE  Linked(r)' /\ Ahead(r)'
<1> DEFINE row == RowOf(r, type)
<1>1. /\ row.seq = engine[r].next /\ row.prev = engine[r].tip /\ row.type = type /\ row.tool = Step(r)
      /\ RowsOf(r)' = RowsOf(r) \cup {row} /\ row.run = r
  BY DEF RowOf, Adds, RowsOf
<1>2. /\ at'[r] = to /\ engine'[r].next = row.seq + 1 /\ engine'[r].tip = Hash(row)
      /\ at[r] # "new" /\ engine[r].next \in Nat \ {0}
      /\ \A e \in RowsOf(r) : e.seq \in Nat
      /\ Len(effects[r]) \in Nat /\ effects'[r] = effects[r]
  <2>1. engine'[r].next = engine[r].next + 1 /\ engine'[r].tip = <<r, engine[r].next>>
    BY DEF Adds
  <2>2. at'[r] = to
    BY DEF Adds, LogInv, Kinds, AtShape
  <2>3. at[r] # "new"
    BY DEF Recorder
  <2>4. engine[r].next \in Nat \ {0} /\ \A e \in RowsOf(r) : e.seq \in Nat
    BY <2>3 DEF LogInv, ChainsBegin, RowsAreOfRuns, RowsOf
  <2>5. Len(effects[r]) \in Nat
    BY DEF ApprovalInv, Earned
  <2> QED
    BY <1>1, <2>1, <2>2, <2>3, <2>4, <2>5 DEF Hash
<1> HIDE DEF row
<1>3. \A e \in RowsOf(r) : e.seq < row.seq
  BY <1>1 DEF Linked
<1>4. Linked(r)'
  <2>1. \A e \in RowsOf(r)' : e.seq < engine'[r].next
    BY <1>1, <1>2, <1>3
  <2>2. \E f \in RowsOf(r)' : f.seq = engine'[r].next - 1 /\ engine'[r].tip = Hash(f)
    BY <1>1, <1>2
  <2>3. ASSUME NEW e \in RowsOf(r)'
        PROVE \/ e.prev = GENESIS_HASH /\ (\A f \in RowsOf(r)' : f.seq >= e.seq)
              \/ \E f \in RowsOf(r)' : f.seq = e.seq - 1 /\ e.prev = Hash(f)
    <3>1. CASE e \in RowsOf(r)
      <4>1. CASE e.prev = GENESIS_HASH /\ (\A f \in RowsOf(r) : f.seq >= e.seq)
        <5>1. row.seq >= e.seq
          BY <1>1, <1>2, <1>3, <3>1
        <5> QED
          BY <1>1, <4>1, <5>1
      <4>2. CASE \E f \in RowsOf(r) : f.seq = e.seq - 1 /\ e.prev = Hash(f)
        BY <1>1, <4>2
      <4> QED
        BY <3>1, <4>1, <4>2 DEF Linked
    <3>2. CASE e = row
      <4>1. CASE RowsOf(r) = {}
        <5>1. e.prev = GENESIS_HASH
          BY <1>1, <1>2, <3>2, <4>1 DEF LogInv, ChainsBegin
        <5>2. \A f \in RowsOf(r)' : f.seq >= e.seq
          BY <1>1, <1>2, <3>2, <4>1
        <5> QED
          BY <5>1, <5>2
      <4>2. CASE RowsOf(r) # {}
        BY <1>1, <3>2, <4>2 DEF Linked
      <4> QED
        BY <4>1, <4>2
    <3> QED
      BY <1>1, <2>3, <3>1, <3>2
  <2> QED
    BY <2>1, <2>2, <2>3 DEF Linked, Hash
<1>5. Mark(type) # "none" => Last(r, Mark(type))'
  <2>1. \A f \in RowsOf(r)' : f.seq <= row.seq
    BY <1>1, <1>2, <1>3
  <2>2. row \in RowsOf(r)' /\ row.type = type
    BY <1>1
  <2>3. Mark(row.type) = Mark(type)
    BY <2>2
  <2>4. \A f \in RowsOf(r)' : Mark(f.type) # "none" => f.seq <= row.seq
    BY <2>1
  <2> QED
    BY <2>2, <2>3, <2>4, Zenon DEF Last
<1>6. /\ IsFiniteSet(FinishedEffects(r)) /\ Ended(r) \in Nat
      /\ row \notin FinishedEffects(r)
  <2>1. FinishedEffects(r) \subseteq rows /\ row \notin FinishedEffects(r)
    BY <1>1, <1>2, <1>3 DEF FinishedEffects, RowsOf
  <2> QED
    BY <2>1, FS_Subset, FS_CardinalityType DEF LogInv, RowsAreOfRuns, Ended
<1>7. IF type = "ToolFinished" /\ Step(r) \in Mutating THEN Ended(r)' = Ended(r) + 1 ELSE Ended(r)' = Ended(r)
  <2>1. FinishedEffects(r)' = IF type = "ToolFinished" /\ Step(r) \in Mutating
                              THEN FinishedEffects(r) \cup {row} ELSE FinishedEffects(r)
    BY <1>1 DEF FinishedEffects
  <2> QED
    BY <1>6, <2>1, FS_AddElement DEF Ended
<1>8. Len(effects[r]) <= Ended(r)'
  BY <1>2, <1>6, <1>7 DEF Ahead, Recorder
<1>9. /\ to \in {"decide", "decide_bare"} => Last(r, "WaitingForApproval")'
      /\ to = "execute" => Last(r, "RunningTool")'
      /\ to \notin {"refused", "finish", "failed", "crashed"}
  <2>1. \/ to \in {"decide", "decide_bare"} /\ Mark(type) = "WaitingForApproval"
        \/ to = "execute" /\ Mark(type) = "RunningTool"
        \/ to \in {"context", "ask", "start", "ask_bare", "receipt", "done"}
    BY DEF Recorder, Mark
  <2> QED
    BY <1>5, <2>1
<1>10. Ahead(r)'
  BY <1>2, <1>6, <1>7, <1>8, <1>9 DEF Ahead
<1> QED
  BY <1>4, <1>10

\* A tool comes to an end, or is cut off, with its effect or without.
LEMMA RunActs ==
  ASSUME LogInv, ApprovalInv, NEW r \in Runs, Linked(r), Ahead(r), at[r] = "execute",
         RowsOf(r)' = RowsOf(r), engine'[r].next = engine[r].next, engine'[r].tip = engine[r].tip,
         engine'[r].step = engine[r].step,
         \/ effects'[r] = effects[r]
         \/ effects'[r] = Append(effects[r], Step(r)) /\ Step(r) \in Mutating,
         at'[r] \in {"finish", "failed", "crashed"}
  PROVE  Linked(r)' /\ Ahead(r)'
<1>1. Linked(r)'
  BY DEF Linked, Hash
<1>2. Ended(r)' = Ended(r) /\ Ended(r) \in Nat
  <2>1. FinishedEffects(r)' = FinishedEffects(r) /\ FinishedEffects(r) \subseteq rows
    BY DEF FinishedEffects, RowsOf
  <2> QED
    BY <2>1, FS_Subset, FS_CardinalityType DEF LogInv, RowsAreOfRuns, Ended
<1>3. Last(r, "RunningTool")'
  <2>1. Last(r, "RunningTool")
    BY DEF Ahead
  <2> QED
    BY <2>1 DEF Last, Mark
<1>4. Len(effects'[r]) <= IF Step(r) \in Mutating THEN Ended(r) + 1 ELSE Ended(r)
  <2>1. effects[r] \in Seq(Mutating) /\ Len(effects[r]) \in Nat /\ Len(effects[r]) <= Ended(r)
    BY DEF ApprovalInv, Earned, Ahead
  <2>2. Step(r) \in Mutating => Len(Append(effects[r], Step(r))) = Len(effects[r]) + 1
    BY <2>1
  <2> QED
    BY <1>2, <2>1, <2>2
<1>5. Step(r)' = Step(r)
  BY DEF Step
<1>6. Ahead(r)'
  BY <1>2, <1>3, <1>4, <1>5 DEF Ahead
<1> QED
  BY <1>1, <1>6

LEMMA ReplayBegins == Init => ReplayInv
<1> SUFFICES ASSUME Init, NEW r \in Runs PROVE Linked(r) /\ Ahead(r)
  BY DEF ReplayInv
<1>1. at[r] = "new" /\ effects[r] = <<>> /\ RowsOf(r) = {}
  BY DEF Init, RowsOf
<1>2. FinishedEffects(r) = {}
  BY <1>1 DEF FinishedEffects
<1>3. Ended(r) = 0 /\ Len(effects[r]) = 0
  BY <1>1, <1>2, FS_EmptySet DEF Ended
<1> QED
  BY <1>1, <1>3 DEF Linked, Ahead

LEMMA ReplayStep == LogInv /\ ApprovalInv /\ ReplayInv /\ [Next]_vars => ReplayInv'
<1> SUFFICES ASSUME LogInv, ApprovalInv, ReplayInv, [Next]_vars PROVE ReplayInv'
  OBVIOUS
<1> USE DEF daemonVars
<1>1. CASE UNCHANGED vars \/ \E s \in Sessions : CreateSession(s)
  <2>1. UNCHANGED <<rows, at, engine, effects>>
    BY <1>1 DEF vars, CreateSession
  <2>2. \A r \in Runs : RowsOf(r)' = RowsOf(r)
    BY <2>1 DEF RowsOf
  <2> QED
    BY <2>1, <2>2, RunRests DEF ReplayInv
\* The other runs of a step of one.
<1>2. ASSUME NEW r \in Runs, NEW q \in Runs \ {r}, RowsOf(q)' = RowsOf(q), at'[q] = at[q],
             engine'[q] = engine[q], effects'[q] = effects[q]
      PROVE Linked(q)' /\ Ahead(q)'
  BY <1>2, RunRests DEF ReplayInv
<1>3. ASSUME NEW r \in Runs, NEW s \in Sessions, NumberRun(r, s) PROVE ReplayInv'
  <2>1. PICK n : engine' = [engine EXCEPT ![r] = Fresh(n)]
    BY <1>3 DEF NumberRun
  <2>2. at[r] = "new" /\ at' = [at EXCEPT ![r] = "register"] /\ UNCHANGED <<rows, effects>>
    BY <1>3 DEF NumberRun, Move
  <2>3. at'[r] = "register" /\ \A q \in Runs \ {r} : at'[q] = at[q] /\ engine'[q] = engine[q]
    BY <2>1, <2>2 DEF LogInv, Kinds, EngineShape, AtShape
  <2>4. \A q \in Runs : RowsOf(q)' = RowsOf(q)
    BY <2>2 DEF RowsOf
  <2>5. RowsOf(r) = {}
    BY <2>2 DEF RowsOf, LogInv, RowsAreOfRuns
  <2>6. FinishedEffects(r)' = {}
    BY <2>4, <2>5 DEF FinishedEffects
  <2>7. effects'[r] = <<>>
    BY <2>2 DEF ApprovalInv, Earned
  <2>8. Ended(r)' = 0 /\ Len(effects'[r]) = 0
    BY <2>6, <2>7, FS_EmptySet DEF Ended
  <2>9. Linked(r)' /\ Ahead(r)'
    BY <2>3, <2>4, <2>5, <2>8 DEF Linked, Ahead
  <2>10. \A q \in Runs \ {r} : Linked(q)' /\ Ahead(q)'
    BY <1>2, <2>2, <2>3, <2>4
  <2> QED
    BY <2>9, <2>10 DEF ReplayInv
<1>4. ASSUME NEW r \in Runs, NEW to, Moves(r, to), UNCHANGED effects,
             to \notin {"decide", "decide_bare", "execute", "finish"},
             to = "refused" => at[r] \in {"decide", "decide_bare"},
             to = "failed" \/ at[r] \notin {"finish", "failed", "crashed"}
      PROVE ReplayInv'
  <2>1. /\ at'[r] = to /\ (\A q \in Runs \ {r} : at'[q] = at[q])
        /\ UNCHANGED <<rows, engine, effects>>
    BY <1>4 DEF Moves, LogInv, Kinds, AtShape
  <2>2. \A q \in Runs : RowsOf(q)' = RowsOf(q)
    BY <2>1 DEF RowsOf
  <2>3. Linked(r)' /\ Ahead(r)'
    BY <1>4, <2>1, <2>2, RunMoves DEF ReplayInv
  <2>4. \A q \in Runs \ {r} : Linked(q)' /\ Ahead(q)'
    BY <1>2, <2>1, <2>2
  <2> QED
    BY <2>3, <2>4 DEF ReplayInv
<1>5. ASSUME NEW r \in Runs, Records(r) PROVE ReplayInv'
  <2>1. PICK type, step, to : Recorder(r, type, step, to) /\ (Moves(r, "failed") \/ Adds(r, type, step, to))
    BY <1>5, RecordsRecord DEF LogInv, Kinds
  <2>2. UNCHANGED effects
    BY <1>5, RecordsRecord DEF LogInv, Kinds
  <2>3. CASE Moves(r, "failed")
    BY <1>4, <2>2, <2>3
  <2>4. CASE Adds(r, type, step, to)
    <3>1. Linked(r)' /\ Ahead(r)'
      BY <2>1, <2>2, <2>4, RunRecords DEF ReplayInv
    <3>2. \A q \in Runs \ {r} : at'[q] = at[q] /\ engine'[q] = engine[q] /\ RowsOf(q)' = RowsOf(q)
      BY <2>4 DEF Adds, LogInv, Kinds, AtShape, RowsOf, RowOf
    <3>3. \A q \in Runs \ {r} : Linked(q)' /\ Ahead(q)'
      BY <1>2, <2>2, <3>2
    <3> QED
      BY <3>1, <3>3 DEF ReplayInv
  <2> QED
    BY <2>1, <2>3, <2>4
<1>6. ASSUME NEW r \in Runs,
             RegisterRun(r) \/ Decide(r) \/ DecideUnsandboxed(r) \/ MakeReceipt(r) \/ WriteReceipt(r) \/ Fail(r)
      PROVE ReplayInv'
  <2>1. UNCHANGED effects
    BY <1>6 DEF RegisterRun, Decide, DecideUnsandboxed, MakeReceipt, WriteReceipt, Fail
  <2>2. PICK to : /\ Moves(r, to)
                  /\ \/ to = "turn" /\ at[r] = "register"
                     \/ to \in {"grant", "grant_bare", "refused"} /\ at[r] \in {"decide", "decide_bare"}
                     \/ to \in {"write", "report"} /\ at[r] \in {"receipt", "write"}
                     \/ to = "failed"
    BY <1>6 DEF RegisterRun, Decide, DecideUnsandboxed, MakeReceipt, WriteReceipt, Fail, Move, Moves
  <2> QED
    BY <1>4, <2>1, <2>2
<1>7. ASSUME NEW r \in Runs, Execute(r) PROVE ReplayInv'
  <2>1. at[r] = "execute" /\ UNCHANGED rows /\ Step(r) \in Tools
    BY <1>7 DEF Execute, ApprovalInv, Permitted
  <2>2. PICK o \in CASE Step(r) = "list_dir" -> ListDir
                     [] Step(r) = "write_file" -> WriteFile
                     [] Step(r) = "run_command" -> RunCommand :
          /\ effects' = IF o.did THEN [effects EXCEPT ![r] = Append(@, Step(r))] ELSE effects
          /\ engine' = [engine EXCEPT ![r] = [@ EXCEPT !.ok = o.ok]]
          /\ at' = [at EXCEPT ![r] = IF o.ended THEN "finish" ELSE "failed"]
    BY <1>7 DEF Execute, Move
  <2>3. o.did => Step(r) \in Mutating
    BY <2>1, <2>2 DEF ListDir, Tools, Mutating
  <2>4. engine'[r] = [engine[r] EXCEPT !.ok = o.ok]
    BY <2>2 DEF LogInv, Kinds, EngineShape
  <2>5. /\ engine'[r].next = engine[r].next /\ engine'[r].tip = engine[r].tip
        /\ engine'[r].step = engine[r].step
    BY <2>4, OkWritten, EngineFields DEF LogInv, Kinds, EngineShape
  <2>6. /\ at'[r] \in {"finish", "failed"}
        /\ \A q \in Runs \ {r} : at'[q] = at[q] /\ engine'[q] = engine[q] /\ effects'[q] = effects[q]
    BY <2>2 DEF ApprovalInv, Shapes, LogInv, Kinds, EngineShape, AtShape
  <2>7. \/ effects'[r] = effects[r]
        \/ effects'[r] = Append(effects[r], Step(r)) /\ Step(r) \in Mutating
    BY <2>2, <2>3 DEF ApprovalInv, Shapes
  <2>8. \A q \in Runs : RowsOf(q)' = RowsOf(q)
    BY <2>1 DEF RowsOf
  <2>9. Linked(r)' /\ Ahead(r)'
    BY <2>1, <2>5, <2>6, <2>7, <2>8, RunActs DEF ReplayInv
  <2>10. \A q \in Runs \ {r} : Linked(q)' /\ Ahead(q)'
    BY <1>2, <2>6, <2>8
  <2> QED
    BY <2>9, <2>10 DEF ReplayInv
<1>8. CASE Crash
  <2>1. /\ at' = [r \in Runs |-> IF at[r] \in Active THEN "crashed" ELSE at[r]]
        /\ UNCHANGED <<rows, engine>>
    BY <1>8 DEF Crash
  <2>2. PICK did \in SUBSET {r \in Runs : at[r] = "execute" /\ Step(r) \in Mutating} :
          effects' = [r \in Runs |-> IF r \in did THEN Append(effects[r], Step(r)) ELSE effects[r]]
    BY <1>8 DEF Crash
  <2>3. ASSUME NEW r \in Runs PROVE Linked(r)' /\ Ahead(r)'
    <3>1. RowsOf(r)' = RowsOf(r) /\ engine'[r] = engine[r] /\ Linked(r) /\ Ahead(r)
      BY <2>1 DEF RowsOf, ReplayInv
    <3>2. CASE at[r] = "execute"
      <4>1. at'[r] = "crashed"
        BY <2>1, <3>2 DEF Active
      <4>2. \/ effects'[r] = effects[r]
            \/ effects'[r] = Append(effects[r], Step(r)) /\ Step(r) \in Mutating
        BY <2>2
      <4> QED
        BY <3>1, <3>2, <4>1, <4>2, RunActs
    <3>3. CASE at[r] # "execute"
      <4>1. effects'[r] = effects[r]
        BY <2>2, <3>3
      <4>2. CASE at[r] \in Active
        <5>1. at'[r] = "crashed"
          BY <2>1, <4>2
        <5> QED
          BY <3>1, <4>1, <5>1, RunMoves
      <4>3. CASE at[r] \notin Active
        <5>1. at'[r] = at[r]
          BY <2>1, <4>3
        <5> QED
          BY <3>1, <4>1, <5>1, RunRests
      <4> QED
        BY <4>2, <4>3
    <3> QED
      BY <3>2, <3>3
  <2> QED
    BY <2>3 DEF ReplayInv
<1> QED
  BY <1>1, <1>3, <1>5, <1>6, <1>7, <1>8 DEF Next, RunStep, Records

\* Any number of runs and faults: what replaying a run's own log says is so
\* (ReplayIsHonest).
THEOREM HonestReplays == Spec => []ReplayIsHonest
<1> QED
  BY ReplaysAreHonest, ApprovalBegins, ApprovalStep, LogBegins, LogStep, ReplayBegins, ReplayStep, PTL DEF Spec

--------------------------------------------------------------------------------
(* What a receipt says.                                                       *)

\* The engine's counts are those of the run's effects, but for one that has just ended or
\* was cut off.
Counted(r) ==
  LET e == engine[r]
      changed == Cardinality(Did(r, "write_file"))
      ran == Cardinality(Did(r, "run_command"))
  IN /\ e.changes \in Nat /\ e.statements \in Seq({Backend[machine]})
     /\ at[r] \notin {"finish", "failed", "crashed"} => e.changes = changed /\ Len(e.statements) = ran
     /\ at[r] = "finish" =>
          /\ changed = IF Step(r) = "write_file" THEN e.changes + 1 ELSE e.changes
          /\ ran = IF Step(r) = "run_command" THEN Len(e.statements) + 1 ELSE Len(e.statements)

\* Nothing is done, and nothing but its announcement recorded, once a receipt is signed.
Attested(r) ==
  LET s == signed[r]
  IN s # NoReceipt =>
       /\ at[r] \in {"write", "report"} \cup Over
       /\ \A e \in RowsOf(r) : Hash(e) \in s.events \/ e.type = "ReceiptGenerated"
       /\ s.changes = Cardinality(Did(r, "write_file"))
       /\ Len(s.statements) = Cardinality(Did(r, "run_command"))
       /\ (s.label = "full_access") <=> (Did(r, "run_command") # {} /\ machine = "bare")

CountInv ==
  /\ machine \in {"sandboxed", "bare", "fake"}
  /\ DOMAIN signed = Runs
  /\ \A r \in Runs : Counted(r) /\ Attested(r)

LEMMA DidIsFinite ==
  ASSUME ApprovalInv, NEW r \in Runs, NEW tool
  PROVE  IsFiniteSet(Did(r, tool)) /\ Cardinality(Did(r, tool)) \in Nat
<1>1. effects[r] \in Seq(Mutating)
  BY DEF ApprovalInv, Earned
<1>2. Len(effects[r]) \in Nat /\ Did(r, tool) \subseteq 1 .. Len(effects[r])
  BY <1>1 DEF Did
<1>3. IsFiniteSet(1 .. Len(effects[r]))
  BY <1>2, FS_Interval
<1> QED
  BY <1>2, <1>3, FS_Subset, FS_CardinalityType

LEMMA DidOneMore ==
  ASSUME ApprovalInv, NEW r \in Runs, NEW t \in Mutating, effects'[r] = Append(effects[r], t), NEW tool
  PROVE  Cardinality(Did(r, tool)') = Cardinality(Did(r, tool)) + (IF t = tool THEN 1 ELSE 0)
<1>1. effects[r] \in Seq(Mutating)
  BY DEF ApprovalInv, Earned
<1> DEFINE n == Len(effects[r]) + 1
<1>2. /\ DOMAIN effects[r] = 1 .. n - 1 /\ DOMAIN effects'[r] = 1 .. n /\ n \in Nat \ {0}
      /\ effects'[r][n] = t /\ \A i \in 1 .. n - 1 : effects'[r][i] = effects[r][i]
  BY <1>1
<1> HIDE DEF n
<1>3. Did(r, tool)' = Did(r, tool) \cup (IF t = tool THEN {n} ELSE {})
  <2>1. \A i : i \in Did(r, tool)' <=> (i \in 1 .. n /\ effects'[r][i] = tool)
    BY <1>2 DEF Did
  <2>2. \A i : i \in Did(r, tool) <=> (i \in 1 .. n - 1 /\ effects[r][i] = tool)
    BY <1>2 DEF Did
  <2>3. \A i : i \in 1 .. n <=> (i \in 1 .. n - 1 \/ i = n)
    BY <1>2
  <2> QED
    BY <1>2, <2>1, <2>2, <2>3
<1>4. n \notin Did(r, tool)
  BY <1>2 DEF Did
<1>5. IsFiniteSet(Did(r, tool)) /\ Cardinality(Did(r, tool)) \in Nat
  BY DidIsFinite
<1>6. CASE t = tool
  <2>1. Did(r, tool)' = Did(r, tool) \cup {n}
    BY <1>3, <1>6
  <2>2. Cardinality(Did(r, tool) \cup {n}) = Cardinality(Did(r, tool)) + 1
    BY <1>4, <1>5, FS_AddElement
  <2> QED
    BY <1>6, <2>1, <2>2
<1>7. CASE t # tool
  <2>1. Did(r, tool)' = Did(r, tool)
    BY <1>3, <1>7
  <2> QED
    BY <1>5, <1>7, <2>1
<1> QED
  BY <1>6, <1>7

LEMMA CountRests ==
  ASSUME NEW r \in Runs, Counted(r), at'[r] = at[r], engine'[r].changes = engine[r].changes,
         engine'[r].statements = engine[r].statements, Step(r)' = Step(r),
         effects'[r] = effects[r], UNCHANGED machine
  PROVE  Counted(r)'
<1>1. \A tool : Did(r, tool)' = Did(r, tool)
  BY DEF Did
<1> QED
  BY <1>1 DEF Counted

LEMMA AttestedRests ==
  ASSUME NEW r \in Runs, Attested(r), at'[r] = at[r] \/ at'[r] \in {"write", "report"} \cup Over,
         RowsOf(r)' = RowsOf(r), effects'[r] = effects[r], UNCHANGED machine, signed'[r] = signed[r]
  PROVE  Attested(r)'
<1>1. \A tool : Did(r, tool)' = Did(r, tool)
  BY DEF Did
<1> QED
  BY <1>1 DEF Attested, Hash, Over

LEMMA CountBegins == Init => CountInv
<1> SUFFICES ASSUME Init PROVE CountInv
  OBVIOUS
<1>1. machine \in {"sandboxed", "bare", "fake"} /\ signed = [r \in Runs |-> NoReceipt]
  BY TaskAssumption DEF Init
<1>2. ASSUME NEW r \in Runs PROVE Counted(r) /\ Attested(r)
  <2>1. at[r] = "new" /\ effects[r] = <<>> /\ engine[r] = Fresh(1) /\ signed[r] = NoReceipt
    BY DEF Init
  <2>2. Fresh(1).changes = 0 /\ Fresh(1).statements = <<>>
    BY DEF Fresh
  <2>3. \A tool : Did(r, tool) = {}
    BY <2>1 DEF Did
  <2>4. \A tool : Cardinality(Did(r, tool)) = 0
    BY <2>3, FS_EmptySet
  <2>5. <<>> \in Seq({Backend[machine]}) /\ Len(<<>>) = 0
    OBVIOUS
  <2>6. engine[r].changes = 0 /\ engine[r].statements \in Seq({Backend[machine]}) /\ Len(engine[r].statements) = 0
    BY <2>1, <2>2, <2>5
  <2>7. Counted(r)
    BY <2>1, <2>4, <2>6 DEF Counted
  <2>8. Attested(r)
    BY <2>1 DEF Attested
  <2> QED
    BY <2>7, <2>8
<1> QED
  BY <1>1, <1>2 DEF CountInv

\* observed_isolation_label, over the statements of one kind of runner.
LEMMA LabelIsTheMachines ==
  ASSUME machine \in {"sandboxed", "bare", "fake"}, NEW r \in Runs, engine[r].statements \in Seq({Backend[machine]})
  PROVE  (Label(r) = "full_access") <=> (Len(engine[r].statements) # 0 /\ machine = "bare")
<1> DEFINE s == engine[r].statements
<1>1. /\ DOMAIN s = 1 .. Len(s) /\ Len(s) \in Nat
      /\ \A i \in 1 .. Len(s) : s[i] = Backend[machine]
  OBVIOUS
<1>2. Backend[machine] = "none" <=> machine = "bare"
  BY DEF Backend
<1>3. "none" \in Range(s) <=> (Len(s) # 0 /\ machine = "bare")
  <2>1. "none" \in Range(s) <=> \E i \in 1 .. Len(s) : s[i] = "none"
    BY <1>1 DEF Range
  <2>2. Len(s) # 0 => 1 \in 1 .. Len(s)
    BY <1>1
  <2>3. Len(s) = 0 => 1 .. Len(s) = {}
    OBVIOUS
  <2> QED
    BY <1>1, <1>2, <2>1, <2>2, <2>3
<1> QED
  BY <1>3 DEF Label

LEMMA CountStep == ApprovalInv /\ CountInv /\ [Next]_vars => CountInv'
<1> SUFFICES ASSUME ApprovalInv, CountInv, [Next]_vars PROVE CountInv'
  OBVIOUS
<1> USE DEF daemonVars, fileVars
<1>1. CASE UNCHANGED vars \/ \E s \in Sessions : CreateSession(s)
  <2>1. UNCHANGED <<machine, rows, at, engine, effects, signed>>
    BY <1>1 DEF vars, CreateSession
  <2>2. \A r \in Runs : RowsOf(r)' = RowsOf(r) /\ Step(r)' = Step(r)
    BY <2>1 DEF RowsOf, Step
  <2>3. \A r \in Runs : Counted(r)' /\ Attested(r)'
    BY <2>1, <2>2, CountRests, AttestedRests DEF CountInv
  <2> QED
    BY <2>1, <2>3 DEF CountInv
\* The other runs of a step of one.
<1>2. ASSUME NEW r \in Runs, NEW q \in Runs \ {r}, RowsOf(q)' = RowsOf(q), at'[q] = at[q],
             engine'[q] = engine[q], effects'[q] = effects[q], signed'[q] = signed[q], UNCHANGED machine
      PROVE Counted(q)' /\ Attested(q)'
  BY <1>2, CountRests, AttestedRests DEF CountInv, Step
<1>3. ASSUME NEW r \in Runs, NEW s \in Sessions, NumberRun(r, s) PROVE CountInv'
  <2>1. PICK n : engine' = [engine EXCEPT ![r] = Fresh(n)]
    BY <1>3 DEF NumberRun
  <2>2. at[r] = "new" /\ at' = [at EXCEPT ![r] = "register"] /\ UNCHANGED <<rows, effects, signed, machine>>
    BY <1>3 DEF NumberRun, Move
  <2>3. /\ at'[r] = "register" /\ engine'[r] = Fresh(n)
        /\ \A q \in Runs \ {r} : at'[q] = at[q] /\ engine'[q] = engine[q]
    BY <2>1, <2>2 DEF ApprovalInv, Shapes, EngineShape, AtShape
  <2>4. \A q \in Runs : RowsOf(q)' = RowsOf(q)
    BY <2>2 DEF RowsOf
  <2>5. Fresh(n).changes = 0 /\ Fresh(n).statements = <<>>
    BY DEF Fresh
  <2>6. effects'[r] = <<>> /\ DOMAIN <<>> = {}
    BY <2>2 DEF ApprovalInv, Earned
  <2>7. \A tool : Did(r, tool)' = {}
    BY <2>6 DEF Did
  <2>8. <<>> \in Seq({Backend[machine]'}) /\ Len(<<>>) = 0
    OBVIOUS
  <2>9. Counted(r)'
    <3>1. /\ engine'[r].changes = 0 /\ engine'[r].statements \in Seq({Backend[machine]'})
          /\ Len(engine'[r].statements) = 0
      BY <2>3, <2>5, <2>8
    <3>2. \A tool : Cardinality(Did(r, tool)') = 0
      BY <2>7, FS_EmptySet
    <3> QED
      BY <2>3, <3>1, <3>2 DEF Counted
  <2>10. Attested(r)'
    BY <2>2 DEF CountInv, Attested, Over
  <2>11. \A q \in Runs \ {r} : Counted(q)' /\ Attested(q)'
    BY <1>2, <2>2, <2>3, <2>4
  <2> QED
    BY <2>2, <2>9, <2>10, <2>11 DEF CountInv
<1>4. ASSUME NEW r \in Runs, NEW to, Moves(r, to), UNCHANGED <<effects, machine, signed>>, at[r] \in Active,
             to # "finish", to \in {"failed", "crashed"} \/ at[r] # "finish",
             at[r] \in {"write", "report"} => to \in {"write", "report"} \cup Over
      PROVE CountInv'
  <2>1. /\ at'[r] = to /\ (\A q \in Runs \ {r} : at'[q] = at[q])
        /\ UNCHANGED <<rows, engine, effects>>
    BY <1>4 DEF Moves, ApprovalInv, Shapes, AtShape
  <2>2. \A q \in Runs : RowsOf(q)' = RowsOf(q)
    BY <2>1 DEF RowsOf
  <2>3. \A tool : Did(r, tool)' = Did(r, tool)
    BY <1>4 DEF Did
  <2>4. Counted(r)'
    BY <1>4, <2>1, <2>3 DEF CountInv, Counted, Active
  <2>5. Attested(r)'
    <3>1. CASE at[r] \in {"write", "report"}
      BY <1>4, <2>1, <2>2, <3>1, AttestedRests DEF CountInv
    <3>2. CASE at[r] \notin {"write", "report"}
      BY <1>4, <3>2 DEF CountInv, Attested, Active, Over
    <3> QED
      BY <3>1, <3>2
  <2>6. \A q \in Runs \ {r} : Counted(q)' /\ Attested(q)'
    BY <1>2, <1>4, <2>1, <2>2
  <2> QED
    BY <1>4, <2>4, <2>5, <2>6 DEF CountInv
<1>5. ASSUME NEW r \in Runs, Records(r) PROVE CountInv'
  <2>1. PICK type, step, to : /\ Recorder(r, type, step, to)
                              /\ Moves(r, "failed") \/ (Adds(r, type, step, to) /\ Counts(r, type))
    BY <1>5, RecordsRecord DEF ApprovalInv, Shapes
  <2>2. UNCHANGED <<effects, machine, signed>>
    BY <1>5, RecordsRecord DEF ApprovalInv, Shapes
  <2>3. at[r] \in Active
    BY <2>1 DEF Recorder, Active
  <2>4. CASE Moves(r, "failed")
    BY <1>4, <2>2, <2>3, <2>4 DEF Over
  <2>5. CASE Adds(r, type, step, to) /\ Counts(r, type)
    <3>1. /\ at'[r] = to
          /\ \A q \in Runs \ {r} : at'[q] = at[q] /\ engine'[q] = engine[q] /\ RowsOf(q)' = RowsOf(q)
          /\ RowsOf(r)' = RowsOf(r) \cup {RowOf(r, type)} /\ RowOf(r, type).type = type
      BY <2>5 DEF Adds, ApprovalInv, Shapes, AtShape, RowsOf, RowOf
    <3>2. \A tool : Did(r, tool)' = Did(r, tool)
      BY <2>2 DEF Did
    <3>3. to \notin {"finish", "failed", "crashed"} /\ at[r] \notin {"failed", "crashed"}
      BY <2>1 DEF Recorder
    <3>4. IsEngine(engine[r]) /\ Counted(r)
      BY DEF CountInv, ApprovalInv, Shapes, EngineShape
    <3>5. Counted(r)'
      <4>1. CASE type = "ToolFinished"
        <5>1. at[r] = "finish"
          BY <2>1, <4>1 DEF Recorder
        <5>2. /\ engine'[r].changes = IF Step(r) = "write_file" THEN engine[r].changes + 1 ELSE engine[r].changes
              /\ engine'[r].statements = IF Step(r) = "run_command"
                                         THEN Append(engine[r].statements, Backend[machine]) ELSE engine[r].statements
          BY <2>5, <3>4, <4>1, FinishedIsAnEngine DEF Counts, Keeps
        <5>3. \A q \in Seq({Backend[machine]}) :
                /\ Append(q, Backend[machine]) \in Seq({Backend[machine]})
                /\ Len(Append(q, Backend[machine])) = Len(q) + 1
          OBVIOUS
        <5>4. engine[r].changes \in Nat /\ engine[r].statements \in Seq({Backend[machine]})
          BY <3>4 DEF Counted
        <5>5. engine'[r].changes \in Nat /\ engine'[r].statements \in Seq({Backend[machine]})
          BY <5>2, <5>3, <5>4
        <5>6. /\ engine'[r].changes = Cardinality(Did(r, "write_file"))
              /\ Len(engine'[r].statements) = Cardinality(Did(r, "run_command"))
          BY <3>4, <5>1, <5>2, <5>3, <5>4 DEF Counted
        <5> QED
          BY <2>2, <3>1, <3>2, <3>3, <5>5, <5>6 DEF Counted
      <4>2. CASE type # "ToolFinished"
        <5>1. at[r] # "finish"
          BY <2>1, <4>2 DEF Recorder
        <5>2. engine'[r].changes = engine[r].changes /\ engine'[r].statements = engine[r].statements
          BY <2>5, <4>2 DEF Counts, Keeps
        <5> QED
          BY <2>2, <3>1, <3>2, <3>3, <3>4, <5>1, <5>2 DEF Counted
      <4> QED
        BY <4>1, <4>2
    <3>6. Attested(r)'
      <4>1. CASE at[r] = "report"
        <5>1. to = "done" /\ type = "ReceiptGenerated"
          BY <2>1, <4>1 DEF Recorder
        <5>2. Attested(r)
          BY DEF CountInv
        <5> QED
          BY <2>2, <3>1, <3>2, <5>1, <5>2 DEF Attested, Over, Hash
      <4>2. CASE at[r] # "report"
        <5>1. at[r] \notin {"write", "report"} \cup Over
          BY <2>1, <4>2 DEF Recorder, Over
        <5> QED
          BY <2>2, <5>1 DEF CountInv, Attested
      <4> QED
        BY <4>1, <4>2
    <3>7. \A q \in Runs \ {r} : Counted(q)' /\ Attested(q)'
      BY <1>2, <2>2, <3>1
    <3> QED
      BY <2>2, <3>5, <3>6, <3>7 DEF CountInv
  <2> QED
    BY <2>1, <2>4, <2>5
<1>6. ASSUME NEW r \in Runs,
             RegisterRun(r) \/ Decide(r) \/ DecideUnsandboxed(r) \/ WriteReceipt(r) \/ Fail(r)
      PROVE CountInv'
  <2>1. UNCHANGED <<effects, machine, signed>>
    BY <1>6 DEF RegisterRun, Decide, DecideUnsandboxed, WriteReceipt, Fail
  <2>2. PICK to : /\ Moves(r, to) /\ at[r] \in Active
                  /\ \/ to = "turn" /\ at[r] = "register"
                     \/ to \in {"grant", "grant_bare", "refused"} /\ at[r] \in {"decide", "decide_bare"}
                     \/ to = "report" /\ at[r] = "write"
                     \/ to = "failed"
    BY <1>6 DEF RegisterRun, Decide, DecideUnsandboxed, WriteReceipt, Fail, Move, Moves, Active
  <2> QED
    BY <1>4, <2>1, <2>2 DEF Over
<1>7. ASSUME NEW r \in Runs, MakeReceipt(r) PROVE CountInv'
  <2> DEFINE receipt == [events |-> {Hash(e) : e \in RowsOf(r)}, label |-> Label(r), changes |-> engine[r].changes,
                         statements |-> engine[r].statements, evidence |-> engine[r].evidence]
  <2>1. /\ at[r] = "receipt" /\ at' = [at EXCEPT ![r] = "write"]
        /\ signed' = [signed EXCEPT ![r] = receipt]
        /\ UNCHANGED <<machine, rows, engine, effects>>
    BY <1>7 DEF MakeReceipt, Move
  <2>2. /\ receipt.events = {Hash(e) : e \in RowsOf(r)} /\ receipt.label = Label(r)
        /\ receipt.changes = engine[r].changes /\ receipt.statements = engine[r].statements
    OBVIOUS
  <2> HIDE DEF receipt
  <2>3. /\ at'[r] = "write" /\ signed'[r] = receipt /\ DOMAIN signed' = Runs
        /\ \A q \in Runs \ {r} : at'[q] = at[q] /\ signed'[q] = signed[q]
    BY <2>1 DEF ApprovalInv, Shapes, AtShape, CountInv
  <2>4. (\A tool : Did(r, tool)' = Did(r, tool)) /\ \A q \in Runs : RowsOf(q)' = RowsOf(q)
    BY <2>1 DEF Did, RowsOf
  <2>5. /\ engine[r].changes = Cardinality(Did(r, "write_file"))
        /\ Len(engine[r].statements) = Cardinality(Did(r, "run_command"))
        /\ engine[r].statements \in Seq({Backend[machine]})
    BY <2>1 DEF CountInv, Counted
  <2>6. Counted(r)'
    BY <2>1, <2>3, <2>4 DEF CountInv, Counted
  <2>7. (Label(r) = "full_access") <=> (Did(r, "run_command") # {} /\ machine = "bare")
    <3>1. Len(engine[r].statements) # 0 <=> Did(r, "run_command") # {}
      BY <2>5, DidIsFinite, FS_EmptySet
    <3> QED
      BY <2>5, <3>1, LabelIsTheMachines DEF CountInv
  <2>8. Attested(r)'
    BY <2>1, <2>2, <2>3, <2>4, <2>5, <2>7 DEF Attested, Hash
  <2>9. \A q \in Runs \ {r} : Counted(q)' /\ Attested(q)'
    BY <1>2, <2>1, <2>3, <2>4
  <2> QED
    BY <2>1, <2>3, <2>6, <2>8, <2>9 DEF CountInv
<1>8. ASSUME NEW r \in Runs, Execute(r) PROVE CountInv'
  <2>1. at[r] = "execute" /\ UNCHANGED <<rows, machine, signed>> /\ Step(r) \in Tools
    BY <1>8 DEF Execute, ApprovalInv, Permitted
  <2>2. PICK o \in CASE Step(r) = "list_dir" -> ListDir
                     [] Step(r) = "write_file" -> WriteFile
                     [] Step(r) = "run_command" -> RunCommand :
          /\ effects' = IF o.did THEN [effects EXCEPT ![r] = Append(@, Step(r))] ELSE effects
          /\ engine' = [engine EXCEPT ![r] = [@ EXCEPT !.ok = o.ok]]
          /\ at' = [at EXCEPT ![r] = IF o.ended THEN "finish" ELSE "failed"]
    BY <1>8 DEF Execute, Move
  <2>3. /\ o.did => Step(r) \in Mutating
        /\ o.ended /\ Step(r) \in Mutating => o.did
    BY <2>1, <2>2 DEF ListDir, WriteFile, RunCommand, Tools, Mutating
  <2>4. engine'[r] = [engine[r] EXCEPT !.ok = o.ok]
    BY <2>2 DEF ApprovalInv, Shapes, EngineShape
  <2>5. /\ engine'[r].changes = engine[r].changes /\ engine'[r].statements = engine[r].statements
        /\ engine'[r].step = engine[r].step
    BY <2>4, OkWritten, EngineFields DEF ApprovalInv, Shapes, EngineShape
  <2>6. /\ at'[r] = IF o.ended THEN "finish" ELSE "failed"
        /\ \A q \in Runs \ {r} : at'[q] = at[q] /\ engine'[q] = engine[q] /\ effects'[q] = effects[q]
    BY <2>2 DEF ApprovalInv, Shapes, EngineShape, AtShape
  <2>7. /\ o.did => effects'[r] = Append(effects[r], Step(r))
        /\ ~o.did => effects'[r] = effects[r]
    BY <2>2 DEF ApprovalInv, Shapes
  <2>8. \A q \in Runs : RowsOf(q)' = RowsOf(q)
    BY <2>1 DEF RowsOf
  <2>9. Attested(r)'
    BY <2>1 DEF CountInv, Attested, Over
  <2>10. Counted(r)
    BY DEF CountInv
  <2>11. Counted(r)'
    <3>1. CASE o.did
      <4>1. Step(r) \in Mutating /\ \A tool : Cardinality(Did(r, tool)') = Cardinality(Did(r, tool)) + (IF Step(r) = tool THEN 1 ELSE 0)
        BY <2>3, <2>7, <3>1, DidOneMore
      <4>2. Step(r)' = Step(r)
        BY <2>5 DEF Step
      <4>3. /\ Cardinality(Did(r, "write_file")') = engine[r].changes + (IF Step(r) = "write_file" THEN 1 ELSE 0)
            /\ Cardinality(Did(r, "run_command")') = Len(engine[r].statements) + (IF Step(r) = "run_command" THEN 1 ELSE 0)
        BY <2>1, <2>10, <4>1 DEF Counted
      <4>4. engine[r].changes \in Nat /\ Len(engine[r].statements) \in Nat
        BY <2>10 DEF Counted
      <4>5. CASE Step(r) = "write_file"
        BY <2>1, <2>5, <2>6, <2>10, <4>2, <4>3, <4>4, <4>5 DEF Counted
      <4>6. CASE Step(r) = "run_command"
        BY <2>1, <2>5, <2>6, <2>10, <4>2, <4>3, <4>4, <4>6 DEF Counted
      <4> QED
        BY <4>1, <4>5, <4>6 DEF Mutating, Tools
    <3>2. CASE ~o.did
      <4>1. \A tool : Did(r, tool)' = Did(r, tool)
        BY <2>7, <3>2 DEF Did
      <4>2. o.ended => Step(r) # "write_file" /\ Step(r) # "run_command"
        BY <2>1, <2>3, <3>2 DEF Tools, Mutating
      <4>3. Step(r)' = Step(r)
        BY <2>5 DEF Step
      <4> QED
        BY <2>1, <2>5, <2>6, <2>10, <4>1, <4>2, <4>3 DEF Counted
    <3> QED
      BY <3>1, <3>2
  <2>12. \A q \in Runs \ {r} : Counted(q)' /\ Attested(q)'
    BY <1>2, <2>1, <2>6, <2>8
  <2> QED
    BY <2>1, <2>9, <2>11, <2>12 DEF CountInv
<1>9. CASE Crash
  <2>1. /\ at' = [r \in Runs |-> IF at[r] \in Active THEN "crashed" ELSE at[r]]
        /\ UNCHANGED <<rows, engine, machine, signed>>
    BY <1>9 DEF Crash
  <2>2. PICK did \in SUBSET {r \in Runs : at[r] = "execute" /\ Step(r) \in Mutating} :
          effects' = [r \in Runs |-> IF r \in did THEN Append(effects[r], Step(r)) ELSE effects[r]]
    BY <1>9 DEF Crash
  <2>3. ASSUME NEW r \in Runs PROVE Counted(r)' /\ Attested(r)'
    <3>1. /\ RowsOf(r)' = RowsOf(r) /\ engine'[r] = engine[r] /\ Step(r)' = Step(r) /\ signed'[r] = signed[r]
          /\ Counted(r) /\ Attested(r)
      BY <2>1 DEF RowsOf, Step, CountInv
    <3>2. CASE at[r] \in Active
      <4>1. at'[r] = "crashed"
        BY <2>1, <3>2
      <4>2. Counted(r)'
        BY <2>1, <3>1, <4>1 DEF Counted
      <4>3. CASE at[r] = "execute"
        <5>1. signed'[r] = NoReceipt
          BY <3>1, <4>3 DEF Attested, Over
        <5> QED
          BY <4>2, <5>1 DEF Attested
      <4>4. CASE at[r] # "execute"
        <5>1. effects'[r] = effects[r]
          BY <2>2, <4>4
        <5> QED
          BY <2>1, <3>1, <4>1, <4>2, <5>1, AttestedRests DEF Over
      <4> QED
        BY <3>1, <4>1, <4>2, <4>3, <4>4 DEF Attested
    <3>3. CASE at[r] \notin Active
      <4>1. at'[r] = at[r] /\ effects'[r] = effects[r]
        BY <2>1, <2>2, <3>3 DEF Active
      <4> QED
        BY <2>1, <3>1, <4>1, CountRests, AttestedRests
    <3> QED
      BY <3>2, <3>3
  <2> QED
    BY <2>1, <2>3 DEF CountInv
<1> QED
  BY <1>1, <1>3, <1>5, <1>6, <1>7, <1>8, <1>9 DEF Next, RunStep, Records

\* Any number of runs and faults: a receipt has the events, the effects and the label of
\* its run (ReceiptIsTheRun).
THEOREM ReceiptsAreTheRuns == Spec => []ReceiptIsTheRun
<1>1. CountInv => ReceiptIsTheRun
  BY DEF CountInv, Attested, ReceiptIsTheRun
<1> QED
  BY <1>1, ApprovalBegins, ApprovalStep, CountBegins, CountStep, PTL DEF Spec
--------------------------------------------------------------------------------
(* Types.                                                                     *)

DaemonTypes ==
  /\ machine \in Machines
  /\ runs \in [Sessions -> Seq(Ids)]
  /\ session \in [Sessions -> {"unmade", "open", "gone"}]
  /\ \A r \in Runs :
       config[r] \in IF at[r] = "new" THEN {Unasked} ELSE [session : Sessions, id : Ids, call : Configs]
  /\ faults \in 0 .. MaxFaults

\* A run's number is above all it has recorded.
RowTypes ==
  /\ rows \subseteq Row
  /\ \A r \in Runs : engine[r].step \in Tools \cup {"none"} /\ engine[r].tip \in Hashes
  /\ \A e \in rows : e.seq < engine[e.run].next

\* A file has been written if it is there, and holds what a run of its name signed.
FileTypes ==
  /\ clock \in Nat
  /\ written \in [Ids -> 0 .. clock]
  /\ DOMAIN signed = Runs
  /\ \A id \in Ids :
       /\ receipts[id] \in {"absent", "torn"} \cup {r \in Runs : at[r] # "new" /\ Id(r) = id /\ signed[r] # NoReceipt}
       /\ receipts[id] = "absent" <=> written[id] = 0
  /\ \A r \in Runs : at[r] = "write" => signed[r] # NoReceipt

LEMMA DaemonRests ==
  ASSUME DaemonTypes, UNCHANGED daemonVars, \A r \in Runs : at'[r] = "new" <=> at[r] = "new",
         faults' \in 0 .. MaxFaults
  PROVE  DaemonTypes'
  BY DEF DaemonTypes, daemonVars, Unasked

LEMMA DaemonStep == LogInv /\ DaemonTypes /\ [Next]_vars => DaemonTypes'
<1> SUFFICES ASSUME LogInv, DaemonTypes, [Next]_vars PROVE DaemonTypes'
  OBVIOUS
<1>1. CASE UNCHANGED vars
  <2>1. UNCHANGED <<daemonVars, at, faults>>
    BY <1>1 DEF vars, daemonVars
  <2> QED
    BY <2>1, DaemonRests DEF DaemonTypes
<1>2. ASSUME NEW s \in Sessions, CreateSession(s) PROVE DaemonTypes'
  <2>1. session' = [session EXCEPT ![s] = "open"] /\ UNCHANGED <<machine, runs, config, at, faults>>
    BY <1>2 DEF CreateSession
  <2> QED
    BY <2>1 DEF DaemonTypes, Unasked
<1>3. ASSUME NEW r \in Runs, NEW s \in Sessions, NumberRun(r, s) PROVE DaemonTypes'
  <2>1. PICK c \in Configs, id \in Ids : config' = [config EXCEPT ![r] = [session |-> s, id |-> id, call |-> c]]
    BY <1>3 DEF NumberRun
  <2>2. at' = [at EXCEPT ![r] = "register"] /\ UNCHANGED <<machine, runs, session, faults>>
    BY <1>3 DEF NumberRun, Move
  <2>3. /\ at'[r] = "register" /\ config'[r] = [session |-> s, id |-> id, call |-> c]
        /\ \A q \in Runs \ {r} : at'[q] = at[q] /\ config'[q] = config[q]
    BY <2>1, <2>2 DEF LogInv, Kinds, AtShape
  <2>4. ASSUME NEW q \in Runs
        PROVE config'[q] \in IF at'[q] = "new" THEN {Unasked} ELSE [session : Sessions, id : Ids, call : Configs]
    <3>1. CASE q = r
      <4>1. at'[q] # "new" /\ config'[q] = [session |-> s, id |-> id, call |-> c]
        BY <2>3, <3>1
      <4>2. [session |-> s, id |-> id, call |-> c] \in [session : Sessions, id : Ids, call : Configs]
        OBVIOUS
      <4> QED
        BY <4>1, <4>2, Zenon
    <3>2. CASE q # r
      BY <2>3, <3>2 DEF DaemonTypes
    <3> QED
      BY <3>1, <3>2
  <2> QED
    BY <2>2, <2>4 DEF DaemonTypes
<1>4. ASSUME NEW r \in Runs, RegisterRun(r) PROVE DaemonTypes'
  <2>1. /\ at[r] = "register" /\ at' = [at EXCEPT ![r] = "turn"]
        /\ runs' = [runs EXCEPT ![config[r].session] = Append(@, Id(r))]
        /\ UNCHANGED <<machine, session, config, faults>>
    BY <1>4 DEF RegisterRun, Move
  <2>2. config[r].session \in Sessions /\ Id(r) \in Ids
    BY <2>1 DEF DaemonTypes, Id
  <2>3. runs' \in [Sessions -> Seq(Ids)]
    BY <2>1, <2>2 DEF DaemonTypes
  <2>4. \A q \in Runs : at'[q] = "new" <=> at[q] = "new"
    BY <2>1 DEF LogInv, Kinds, AtShape
  <2> QED
    BY <2>1, <2>3, <2>4 DEF DaemonTypes, Unasked
<1>5. ASSUME NEW r \in Runs, NEW to, at' = [at EXCEPT ![r] = to], at[r] # "new", to # "new",
             UNCHANGED daemonVars, faults' \in 0 .. MaxFaults
      PROVE DaemonTypes'
  <2>1. \A q \in Runs : at'[q] = "new" <=> at[q] = "new"
    BY <1>5 DEF LogInv, Kinds, AtShape
  <2> QED
    BY <1>5, <2>1, DaemonRests
<1>6. ASSUME NEW r \in Runs, Records(r) PROVE DaemonTypes'
  <2>1. PICK type, step, to : Recorder(r, type, step, to) /\ (Moves(r, "failed") \/ Adds(r, type, step, to))
    BY <1>6, RecordsRecord DEF LogInv, Kinds
  <2>2. at[r] # "new" /\ to # "new" /\ UNCHANGED <<daemonVars, faults>>
    BY <1>6, <2>1, RecordsRecord DEF LogInv, Kinds, Recorder
  <2>3. at' = [at EXCEPT ![r] = "failed"] \/ at' = [at EXCEPT ![r] = to]
    BY <2>1 DEF Moves, Adds
  <2> QED
    BY <1>5, <2>2, <2>3 DEF DaemonTypes
<1>7. ASSUME NEW r \in Runs,
             Decide(r) \/ DecideUnsandboxed(r) \/ Execute(r) \/ MakeReceipt(r) \/ WriteReceipt(r) \/ Fail(r)
      PROVE DaemonTypes'
  <2>1. at[r] # "new" /\ UNCHANGED daemonVars /\ faults' \in 0 .. MaxFaults
    BY <1>7, TaskAssumption
       DEF Decide, DecideUnsandboxed, Execute, MakeReceipt, WriteReceipt, Fail, Fault, Active, DaemonTypes
  <2>2. PICK to \in Active \cup Over : at' = [at EXCEPT ![r] = to]
    <3>1. CASE Execute(r)
      <4>1. PICK o \in CASE Step(r) = "list_dir" -> ListDir
                         [] Step(r) = "write_file" -> WriteFile
                         [] Step(r) = "run_command" -> RunCommand :
              at' = [at EXCEPT ![r] = IF o.ended THEN "finish" ELSE "failed"]
        BY <3>1 DEF Execute, Move
      <4> QED
        BY <4>1 DEF Active, Over
    <3> QED
      BY <1>7, <3>1 DEF Decide, DecideUnsandboxed, MakeReceipt, WriteReceipt, Fail, Move, Active, Over
  <2>3. to # "new"
    BY DEF Active, Over
  <2> QED
    BY <1>5, <2>1, <2>2, <2>3
<1>8. CASE Crash
  <2>1. /\ at' = [r \in Runs |-> IF at[r] \in Active THEN "crashed" ELSE at[r]]
        /\ session' = [s \in Sessions |-> IF session[s] = "open" THEN "gone" ELSE session[s]]
        /\ faults < MaxFaults /\ faults' = faults + 1 /\ UNCHANGED <<machine, runs, config>>
    BY <1>8 DEF Crash, Fault
  <2>2. \A q \in Runs : at'[q] = "new" <=> at[q] = "new"
    BY <2>1 DEF Active
  <2>3. session' \in [Sessions -> {"unmade", "open", "gone"}]
    BY <2>1 DEF DaemonTypes
  <2>4. faults' \in 0 .. MaxFaults
    BY <2>1, TaskAssumption DEF DaemonTypes
  <2> QED
    BY <2>1, <2>2, <2>3, <2>4 DEF DaemonTypes, Unasked
<1> QED
  BY <1>1, <1>2, <1>3, <1>4, <1>6, <1>7, <1>8 DEF Next, RunStep, Records

LEMMA RowsRest ==
  ASSUME LogInv, RowTypes, UNCHANGED rows,
         \A r \in Runs : /\ RowsOf(r) # {} => engine'[r].next = engine[r].next
                         /\ engine'[r].step \in Tools \cup {"none"} /\ engine'[r].tip \in Hashes
  PROVE  RowTypes'
  BY DEF RowTypes, LogInv, RowsAreOfRuns, RowsOf

LEMMA RowsBegin == Init => RowTypes
  BY DEF Init, RowTypes, Fresh, Hashes

LEMMA RowStep == LogInv /\ DaemonTypes /\ RowTypes /\ [Next]_vars => RowTypes'
<1> SUFFICES ASSUME LogInv, DaemonTypes, RowTypes, [Next]_vars PROVE RowTypes'
  OBVIOUS
<1>1. ASSUME UNCHANGED <<rows, engine>> PROVE RowTypes'
  BY <1>1 DEF RowTypes
<1>2. ASSUME NEW r \in Runs, NEW s \in Sessions, NumberRun(r, s) PROVE RowTypes'
  <2>1. PICK n \in 1 .. Cardinality(rows) + 1 : engine' = [engine EXCEPT ![r] = Fresh(n)]
    BY <1>2 DEF NumberRun
  <2>2. at[r] = "new" /\ UNCHANGED rows
    BY <1>2 DEF NumberRun
  <2>3. RowsOf(r) = {}
    BY <2>2 DEF LogInv, RowsAreOfRuns, RowsOf
  <2>4. engine'[r].step = "none" /\ engine'[r].tip = GENESIS_HASH /\ \A q \in Runs \ {r} : engine'[q] = engine[q]
    BY <2>1 DEF Fresh, LogInv, Kinds, EngineShape
  <2> QED
    BY <2>2, <2>3, <2>4, RowsRest DEF RowTypes, Hashes
<1>3. ASSUME NEW r \in Runs, Records(r) PROVE RowTypes'
  <2>1. PICK type, step, to : Recorder(r, type, step, to) /\ (Moves(r, "failed") \/ Adds(r, type, step, to))
    BY <1>3, RecordsRecord DEF LogInv, Kinds
  <2>2. CASE Moves(r, "failed")
    BY <1>1, <2>2 DEF Moves
  <2>3. CASE Adds(r, type, step, to)
    <3> DEFINE row == RowOf(r, type)
    <3>1. at[r] # "new" /\ type \in Types /\ step \in Tools \cup {"none"}
      BY <2>1 DEF Recorder, Types, Step, NextStep, RowTypes, Tools
    <3>2. Id(r) \in Ids
      BY <3>1 DEF DaemonTypes, Id
    <3>3. engine[r].next \in Nat /\ <<r, engine[r].next>> \in Hashes
      BY <3>1 DEF LogInv, ChainsBegin, Hashes
    <3>4. row \in Row /\ row.run = r /\ row.seq = engine[r].next
      BY <3>1, <3>2, <3>3 DEF RowOf, Row, RowTypes, Step
    <3> HIDE DEF row
    <3>5. /\ rows' = rows \cup {row} /\ \A q \in Runs \ {r} : engine'[q] = engine[q]
          /\ engine'[r].step = step /\ engine'[r].next = engine[r].next + 1
          /\ engine'[r].tip = <<r, engine[r].next>>
      BY <2>3 DEF Adds, row
    <3>6. \A e \in rows' : e.seq < engine'[e.run].next
      <4> TAKE e \in rows'
      <4>1. CASE e = row
        BY <3>3, <3>4, <3>5, <4>1
      <4>2. CASE e \in rows /\ e.run = r
        <5>1. e.seq \in Nat /\ e.seq < engine[r].next
          BY <4>2 DEF RowTypes, LogInv, RowsAreOfRuns
        <5> QED
          BY <3>3, <3>5, <4>2, <5>1
      <4>3. CASE e \in rows /\ e.run # r
        BY <3>5, <4>3 DEF RowTypes, LogInv, RowsAreOfRuns
      <4> QED
        BY <3>5, <4>1, <4>2, <4>3
    <3> QED
      BY <3>1, <3>3, <3>4, <3>5, <3>6 DEF RowTypes
  <2> QED
    BY <2>1, <2>2, <2>3
<1>4. ASSUME NEW r \in Runs, Execute(r) PROVE RowTypes'
  <2>1. PICK ok : engine' = [engine EXCEPT ![r] = [@ EXCEPT !.ok = ok]]
    BY <1>4 DEF Execute
  <2>2. engine'[r] = [engine[r] EXCEPT !.ok = ok] /\ \A q \in Runs \ {r} : engine'[q] = engine[q]
    BY <2>1 DEF LogInv, Kinds, EngineShape
  <2>3. /\ engine'[r].next = engine[r].next /\ engine'[r].tip = engine[r].tip
        /\ engine'[r].step = engine[r].step
    BY <2>2, OkWritten, EngineFields DEF LogInv, Kinds, EngineShape
  <2>4. UNCHANGED rows
    BY <1>4 DEF Execute
  <2> QED
    BY <2>2, <2>3, <2>4, RowsRest DEF RowTypes
<1>5. UNCHANGED vars \/ (\E s \in Sessions : CreateSession(s)) \/ Crash => UNCHANGED <<rows, engine>>
  BY DEF vars, CreateSession, Crash
<1>6. ASSUME NEW r \in Runs,
             RegisterRun(r) \/ Decide(r) \/ DecideUnsandboxed(r) \/ MakeReceipt(r) \/ WriteReceipt(r) \/ Fail(r)
      PROVE UNCHANGED <<rows, engine>>
  BY <1>6 DEF RegisterRun, Decide, DecideUnsandboxed, MakeReceipt, WriteReceipt, Fail
<1> QED
  BY <1>1, <1>2, <1>3, <1>4, <1>5, <1>6 DEF Next, RunStep, Records

LEMMA HeldFilesRest ==
  ASSUME FileTypes, UNCHANGED fileVars,
         \A r \in Runs : /\ at[r] # "new" => at'[r] # "new" /\ config'[r] = config[r]
                         /\ at'[r] = "write" => at[r] = "write"
  PROVE  FileTypes'
<1>1. UNCHANGED <<receipts, written, clock, signed>>
  BY DEF fileVars
<1>2. \A r \in Runs : at[r] # "new" => Id(r)' = Id(r)
  BY DEF Id
<1> QED
  BY <1>1, <1>2 DEF FileTypes

LEMMA HeldFilesBegin == Init => FileTypes
  BY DEF Init, ReceiptsInit, FileTypes

LEMMA HeldFileStep == LogInv /\ FileInv /\ FileTypes /\ [Next]_vars => FileTypes'
<1> SUFFICES ASSUME LogInv, FileInv, FileTypes, [Next]_vars PROVE FileTypes'
  OBVIOUS
<1>1. CASE UNCHANGED vars \/ \E s \in Sessions : CreateSession(s)
  <2>1. UNCHANGED <<fileVars, at, config>>
    BY <1>1 DEF vars, CreateSession, fileVars
  <2> QED
    BY <2>1, HeldFilesRest
<1>2. ASSUME NEW r \in Runs, NEW s \in Sessions, NumberRun(r, s) PROVE FileTypes'
  <2>1. PICK c \in Configs, id \in Ids : config' = [config EXCEPT ![r] = [session |-> s, id |-> id, call |-> c]]
    BY <1>2 DEF NumberRun
  <2>2. at[r] = "new" /\ at' = [at EXCEPT ![r] = "register"] /\ UNCHANGED fileVars
    BY <1>2 DEF NumberRun, Move
  <2>3. at'[r] = "register" /\ \A q \in Runs \ {r} : at'[q] = at[q] /\ config'[q] = config[q]
    BY <2>1, <2>2 DEF LogInv, Kinds, AtShape
  <2> QED
    BY <2>2, <2>3, HeldFilesRest
<1>3. ASSUME NEW r \in Runs, NEW to, at' = [at EXCEPT ![r] = to], to \notin {"new", "write"},
             UNCHANGED <<fileVars, config>>
      PROVE FileTypes'
  <2>1. at'[r] = to /\ \A q \in Runs \ {r} : at'[q] = at[q]
    BY <1>3 DEF LogInv, Kinds, AtShape
  <2> QED
    BY <1>3, <2>1, HeldFilesRest
<1>4. ASSUME NEW r \in Runs, Records(r) PROVE FileTypes'
  <2>1. PICK type, step, to : Recorder(r, type, step, to) /\ (Moves(r, "failed") \/ Adds(r, type, step, to))
    BY <1>4, RecordsRecord DEF LogInv, Kinds
  <2>2. to \notin {"new", "write"} /\ UNCHANGED <<daemonVars, fileVars>>
    BY <1>4, <2>1, RecordsRecord DEF LogInv, Kinds, Recorder
  <2>3. at' = [at EXCEPT ![r] = "failed"] \/ at' = [at EXCEPT ![r] = to]
    BY <2>1 DEF Moves, Adds
  <2> QED
    BY <1>3, <2>2, <2>3 DEF daemonVars
<1>5. ASSUME NEW r \in Runs, RegisterRun(r) \/ Decide(r) \/ DecideUnsandboxed(r) \/ Execute(r) \/ Fail(r)
      PROVE FileTypes'
  <2>1. UNCHANGED <<fileVars, config>>
    BY <1>5 DEF RegisterRun, Decide, DecideUnsandboxed, Execute, Fail, daemonVars
  <2>2. PICK to \in {"turn", "grant", "grant_bare", "refused", "finish", "failed"} : at' = [at EXCEPT ![r] = to]
    <3>1. CASE Execute(r)
      <4>1. PICK o \in CASE Step(r) = "list_dir" -> ListDir
                         [] Step(r) = "write_file" -> WriteFile
                         [] Step(r) = "run_command" -> RunCommand :
              at' = [at EXCEPT ![r] = IF o.ended THEN "finish" ELSE "failed"]
        BY <3>1 DEF Execute, Move
      <4> QED
        BY <4>1
    <3> QED
      BY <1>5, <3>1 DEF RegisterRun, Decide, DecideUnsandboxed, Fail, Move
  <2> QED
    BY <1>3, <2>1, <2>2
<1>6. ASSUME NEW r \in Runs, NEW c, at[r] # "new", UNCHANGED <<config, rows>>,
             receipts' = [receipts EXCEPT ![Id(r)] = c], Touch(Id(r)),
             c \in {r, "torn"}, c = r => signed'[r] # NoReceipt,
             DOMAIN signed' = Runs, \A q \in Runs : signed[q] # NoReceipt => signed'[q] # NoReceipt,
             \A q \in Runs : at[q] # "new" => at'[q] # "new",
             \A q \in Runs : at'[q] = "write" => signed'[q] # NoReceipt
      PROVE FileTypes'
  <2>1. Id(r) \in Ids /\ DOMAIN receipts = Ids /\ \A q \in Runs : Id(q)' = Id(q)
    BY <1>6 DEF FileInv, Filed, Id
  <2>2. receipts'[Id(r)] = c /\ \A id \in Ids \ {Id(r)} : receipts'[id] = receipts[id]
    BY <1>6, <2>1
  <2>3. /\ clock' = clock + 1 /\ written'[Id(r)] = clock + 1 /\ written' \in [Ids -> 0 .. clock']
        /\ \A id \in Ids \ {Id(r)} : written'[id] = written[id]
    BY <1>6, <2>1 DEF Touch, FileTypes
  <2>4. c # "absent"
    BY <1>6, ReceiptsAssumption
  <2>5. clock' \in Nat /\ clock + 1 # 0
    BY <2>3 DEF FileTypes
  <2>6. ASSUME NEW id \in Ids
        PROVE /\ receipts'[id] \in {"absent", "torn"}
                                    \cup {q \in Runs : at'[q] # "new" /\ Id(q)' = id /\ signed'[q] # NoReceipt}
              /\ receipts'[id] = "absent" <=> written'[id] = 0
    <3>1. CASE id = Id(r)
      BY <1>6, <2>1, <2>2, <2>3, <2>4, <2>5, <3>1
    <3>2. CASE id # Id(r)
      BY <1>6, <2>1, <2>2, <2>3, <3>2 DEF FileTypes
    <3> QED
      BY <3>1, <3>2
  <2> QED
    BY <1>6, <2>3, <2>5, <2>6 DEF FileTypes
<1>7. ASSUME NEW r \in Runs, MakeReceipt(r) PROVE FileTypes'
  <2> DEFINE receipt == [events |-> {Hash(e) : e \in RowsOf(r)}, label |-> Label(r), changes |-> engine[r].changes,
                         statements |-> engine[r].statements, evidence |-> engine[r].evidence]
  <2>1. /\ at[r] = "receipt" /\ at' = [at EXCEPT ![r] = "write"] /\ UNCHANGED <<config, rows>>
        /\ signed' = [signed EXCEPT ![r] = receipt]
        /\ receipts' = [receipts EXCEPT ![Id(r)] = "torn"] /\ Touch(Id(r))
    BY <1>7 DEF MakeReceipt, OpenReceipt, Move, daemonVars
  <2>2. receipt # NoReceipt
    BY DEF NoReceipt, Label
  <2> HIDE DEF receipt
  <2>3. DOMAIN signed' = Runs /\ signed'[r] = receipt /\ \A q \in Runs \ {r} : signed'[q] = signed[q]
    BY <2>1 DEF FileTypes
  <2>4. at'[r] = "write" /\ \A q \in Runs \ {r} : at'[q] = at[q]
    BY <2>1 DEF LogInv, Kinds, AtShape
  <2>5. \A q \in Runs : at'[q] = "write" => signed'[q] # NoReceipt
    BY <2>2, <2>3, <2>4 DEF FileTypes
  <2> QED
    BY <1>6, <2>1, <2>2, <2>3, <2>4, <2>5
<1>8. ASSUME NEW r \in Runs, WriteReceipt(r) PROVE FileTypes'
  <2>1. /\ at[r] = "write" /\ at' = [at EXCEPT ![r] = "report"] /\ UNCHANGED <<config, rows, signed>>
        /\ \E c \in {r, "torn"} : receipts' = [receipts EXCEPT ![Id(r)] = c]
        /\ Touch(Id(r))
    BY <1>8 DEF WriteReceipt, FillReceipt, Move, daemonVars
  <2>2. at'[r] = "report" /\ \A q \in Runs \ {r} : at'[q] = at[q]
    BY <2>1 DEF LogInv, Kinds, AtShape
  <2>3. signed[r] # NoReceipt /\ DOMAIN signed = Runs
    BY <2>1 DEF FileTypes
  <2>4. \A q \in Runs : at'[q] = "write" => signed'[q] # NoReceipt
    BY <2>1, <2>2 DEF FileTypes
  <2> QED
    BY <1>6, <2>1, <2>2, <2>3, <2>4
<1>9. CASE Crash
  <2>1. /\ at' = [r \in Runs |-> IF at[r] \in Active THEN "crashed" ELSE at[r]]
        /\ UNCHANGED <<config, fileVars>>
    BY <1>9 DEF Crash
  <2> QED
    BY <2>1, HeldFilesRest
<1> QED
  BY <1>1, <1>2, <1>4, <1>5, <1>7, <1>8, <1>9 DEF Next, RunStep, Records

LEMMA TypesBegin == Init => DaemonTypes
<1> SUFFICES ASSUME Init PROVE DaemonTypes
  OBVIOUS
<1>1. 0 \in 0 .. MaxFaults
  BY TaskAssumption
<1> QED
  BY <1>1 DEF Init, DaemonTypes

\* The record of effects is a function, whatever its values are.
EffectsShape == effects = [r \in Runs |-> effects[r]]

LEMMA EffectsStep == EffectsShape /\ [Next]_vars => EffectsShape'
<1> SUFFICES ASSUME EffectsShape, [Next]_vars PROVE EffectsShape'
  OBVIOUS
<1>1. CASE UNCHANGED effects
  BY <1>1 DEF EffectsShape
<1>2. ASSUME NEW r \in Runs, Execute(r) PROVE EffectsShape'
  <2>1. PICK o : effects' = IF o.did THEN [effects EXCEPT ![r] = Append(@, Step(r))] ELSE effects
    BY <1>2 DEF Execute
  <2> QED
    BY <2>1 DEF EffectsShape
<1>3. CASE Crash
  <2>1. PICK did : effects' = [r \in Runs |-> IF r \in did THEN Append(effects[r], Step(r)) ELSE effects[r]]
    BY <1>3 DEF Crash
  <2> QED
    BY <2>1 DEF EffectsShape
<1>4. ASSUME NEW r \in Runs, RunStep(r) \/ Fail(r), ~Execute(r) PROVE UNCHANGED effects
  BY <1>4 DEF RunStep, RegisterRun, TurnStarted, ContextAssembled, ApprovalRequested, Decide, ApprovalGranted,
              UnsandboxedRequested, DecideUnsandboxed, UnsandboxedGranted, ToolStarted, ToolFinished,
              MakeReceipt, WriteReceipt, ReceiptGenerated, Fail
<1>5. UNCHANGED vars \/ (\E s \in Sessions : CreateSession(s)) \/ (\E r \in Runs, s \in Sessions : NumberRun(r, s))
      => UNCHANGED effects
  BY DEF vars, CreateSession, NumberRun
<1> QED
  BY <1>1, <1>2, <1>3, <1>4, <1>5 DEF Next

\* Any sessions, runs and faults: the variables keep their types, a run's next number is
\* above all it has recorded, and a file holds what a run of its name signed (TypeOK).
THEOREM TypeCorrect == Spec => []TypeOK
<1>1. ApprovalInv /\ EffectsShape /\ LogInv /\ DaemonTypes /\ RowTypes /\ FileTypes => TypeOK
  <2> SUFFICES ASSUME ApprovalInv, EffectsShape, LogInv, DaemonTypes, RowTypes, FileTypes PROVE TypeOK
    OBVIOUS
  <2>1. \A r \in Runs : \A e \in RowsOf(r) : e.id = Id(r) /\ e.seq < engine[r].next
    BY DEF RowsOf, LogInv, RowsAreOfRuns, RowTypes
  <2>2. effects \in [Runs -> Seq(Mutating)]
    BY DEF ApprovalInv, Earned, EffectsShape
  <2> QED
    BY <2>1, <2>2 DEF TypeOK, LogInv, Kinds, AtShape, DaemonTypes, RowTypes, FileTypes
<1>2. Init => EffectsShape
  BY DEF Init, EffectsShape
<1> QED
  BY <1>1, <1>2, EffectsStep, ApprovalBegins, ApprovalStep, LogBegins, LogStep, FilesBegin, FileStep, TypesBegin, DaemonStep,
     RowsBegin, RowStep, HeldFilesBegin, HeldFileStep, PTL DEF Spec
================================================================================

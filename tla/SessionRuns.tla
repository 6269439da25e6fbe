------------------------------ MODULE SessionRuns ------------------------------
(***************************************************************************)
(* The event store (crates/store) and the daemon's numbering of a session's *)
(* events (crates/daemon/src/server.rs).                                    *)
(*                                                                          *)
(* A session owns runs.  Every run appends its events to one table shared   *)
(* by all sessions, and a session's events are meant to be numbered         *)
(* 1, 2, 3, ... across all of its runs.  The number a run starts from is    *)
(* read from the store, the run is then registered with its session, and    *)
(* only after that does it record: three separate critical sections.        *)
(***************************************************************************)
EXTENDS Integers, Sequences, FiniteSets

CONSTANTS
  Sessions,       \* session ids
  Runs,           \* run ids: no two runs start in one millisecond
  MaxRunEvents,   \* bound: events one run records
  OneRunAtATime   \* TRUE when a session's runs never overlap

ASSUME RunsAssumption ==
  /\ MaxRunEvents \in Nat \ {0}
  /\ OneRunAtATime \in BOOLEAN

FirstEventSequence == 1
NoSession == "none"

ASSUME NoSessionAssumption == NoSession \notin Sessions

VARIABLES
  rows,      \* the events table, in the order of the INSERTs
  sessions,  \* the ids in the daemon's in-memory map
  runs,      \* SessionInfo.runs: the runs each session has registered
  phase,     \* where run_task stands, per run
  owner,     \* the session a run was started for
  counter    \* the engine's sequence_counter, per run

storeVars == <<rows, sessions, runs, phase, owner, counter>>

Event == [run : Runs, seq : Nat]
Phase == {"new", "numbered", "recording", "over"}

\* The run list of a session names this run.
Registered(s, r) == \E i \in DOMAIN runs[s] : runs[s][i] = r

\* The stored events a session's run list reaches.
SessionEvents(s) == {e \in {rows[i] : i \in DOMAIN rows} : Registered(s, e.run)}

\* DaemonServer::next_session_sequence: one past the highest stored sequence
\* of any of the session's runs.
IsNextSequence(s, n) ==
  /\ \A e \in SessionEvents(s) : e.seq < n
  /\ IF SessionEvents(s) = {} THEN n = FirstEventSequence
                              ELSE \E e \in SessionEvents(s) : n = e.seq + 1

--------------------------------------------------------------------------------

StoreInit ==
  /\ rows = <<>>
  /\ sessions = {}
  /\ runs = [s \in Sessions |-> <<>>]
  /\ phase = [r \in Runs |-> "new"]
  /\ owner = [r \in Runs |-> NoSession]
  /\ counter = [r \in Runs |-> 0]

\* DaemonServer::create_session.
CreateSession(s) ==
  /\ s \notin sessions
  /\ sessions' = sessions \cup {s}
  /\ UNCHANGED <<rows, runs, phase, owner, counter>>

\* The session has a run between its numbering and its return.
Busy(s) == \E r \in Runs : owner[r] = s /\ phase[r] \in {"numbered", "recording"}

\* run_task, first half: look the session up and read the number to start at.
\* The run list and the store are read under two locks; nothing this run does
\* comes between them.
NumberRun(r, s) ==
  /\ phase[r] = "new"
  /\ s \in sessions
  /\ OneRunAtATime => ~Busy(s)
  /\ \E n \in 1 .. Len(rows) + 1 :
       /\ IsNextSequence(s, n)
       /\ counter' = [counter EXCEPT ![r] = n]
  /\ owner' = [owner EXCEPT ![r] = s]
  /\ phase' = [phase EXCEPT ![r] = "numbered"]
  /\ UNCHANGED <<rows, sessions, runs>>

\* DaemonServer::register_run: the run joins its session before it records.
RegisterRun(r) ==
  /\ phase[r] = "numbered"
  /\ runs' = [runs EXCEPT ![owner[r]] = Append(@, r)]
  /\ phase' = [phase EXCEPT ![r] = "recording"]
  /\ UNCHANGED <<rows, sessions, owner, counter>>

\* OrchestrationEngine::record_event over EventStore::append_event: one row,
\* published on the live feed inside the same store lock, so the feed carries
\* the rows in table order.
RecordEvent(r) ==
  /\ phase[r] = "recording"
  /\ Cardinality({i \in DOMAIN rows : rows[i].run = r}) < MaxRunEvents
  /\ rows' = Append(rows, [run |-> r, seq |-> counter[r]])
  /\ counter' = [counter EXCEPT ![r] = @ + 1]
  /\ UNCHANGED <<sessions, runs, phase, owner>>

\* run_task returns: its receipt is written, or a step or an INSERT failed.
EndRun(r) ==
  /\ phase[r] = "recording"
  /\ phase' = [phase EXCEPT ![r] = "over"]
  /\ UNCHANGED <<rows, sessions, runs, owner, counter>>

StoreNext ==
  \/ \E s \in Sessions : CreateSession(s)
  \/ \E r \in Runs, s \in Sessions : NumberRun(r, s)
  \/ \E r \in Runs : RegisterRun(r) \/ RecordEvent(r) \/ EndRun(r)
================================================================================

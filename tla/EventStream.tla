------------------------------ MODULE EventStream ------------------------------
(***************************************************************************)
(* The daemon's IPC connections (crates/daemon/src/ipc.rs): the handshake,   *)
(* the bounded write queue with its pump, and one stream_events task per     *)
(* SubscribeEvents command, over the store and the sessions of SessionRuns.  *)
(*                                                                           *)
(* The live feed is the tokio broadcast channel inside EventStore.  It       *)
(* carries the rows in table order, so a receiver is a position in `rows`:   *)
(* the rows it has consumed.  A receiver more than FeedCapacity rows behind  *)
(* is told Lagged and continues from the oldest row the channel still holds. *)
(***************************************************************************)
EXTENDS SessionRuns

CONSTANTS
  Conns,          \* connections
  Streams,        \* stream_events tasks
  FeedCapacity,   \* EVENT_BROADCAST_CAPACITY
  QueueDepth,     \* WRITE_QUEUE_DEPTH, and one more: the frame the pump is writing
  ResumePoints,   \* values of resume_after_sequence a client sends
  ReadsMayFail    \* TRUE when a query of the store may return an error

ASSUME StreamAssumption ==
  /\ FeedCapacity \in Nat \ {0}
  /\ QueueDepth \in Nat \ {0}
  /\ ReadsMayFail \in BOOLEAN
  /\ ResumePoints \subseteq Nat

NoConn == "none"
ASSUME NoConnAssumption == NoConn \notin Conns

VARIABLES
  client,    \* the peer of a connection: "away", "connected" or "gone"
  shaken,    \* shook_hands, per connection
  reader,    \* serve_connection's read loop: "reading" or "ended"
  pump,      \* the writer task: "writing" or "ended"
  queue,     \* the write queue, per connection
  at,        \* where a stream_events task stands
  conn,      \* the connection a task writes to
  session,   \* the session it follows
  resume,    \* the resume_after_sequence it was given
  last,      \* its cursor, last_sent
  pos,       \* its place in the live feed
  known,     \* the run list it last read, held across the store lock
  batch,     \* stored events read and not yet handled
  sent       \* the events it has put on the write queue, in order

connVars == <<client, shaken, reader, pump, queue>>
taskVars == <<at, conn, session, resume, last, pos, known, batch, sent>>
vars == <<storeVars, connVars, taskVars>>

\* A write-queue entry: an event of a stream, or a control frame.
Control == [kind |-> "control"]
Frame(t, e) == [kind |-> "event", stream |-> t, event |-> e]
FrameType == [kind : {"event"}, stream : Streams, event : Event]

At == {"idle", "subscribed", "reading", "sending", "live", "ended"}

\* The task holds a receiver and has not returned.
Active(t) == at[t] \in {"subscribed", "reading", "sending", "live"}

--------------------------------------------------------------------------------
(* The connection.                                                            *)

Connect(c) ==
  /\ client[c] = "away"
  /\ client' = [client EXCEPT ![c] = "connected"]
  /\ UNCHANGED <<storeVars, shaken, reader, pump, queue, taskVars>>

\* The reader takes a frame: the client is there and the loop is running.
Serving(c) == client[c] = "connected" /\ reader[c] = "reading"

\* The queue takes one more frame, its pump still alive.
CanSend(c) == pump[c] = "writing" /\ Len(queue[c]) < QueueDepth

Reply(c) == queue' = [queue EXCEPT ![c] = Append(@, Control)]

\* HandshakeRequest: negotiate decides, and a refused later handshake closes
\* the connection to commands again.
Handshake(c) ==
  /\ Serving(c)
  /\ CanSend(c)
  /\ \E accepted \in BOOLEAN : shaken' = [shaken EXCEPT ![c] = accepted]
  /\ Reply(c)
  /\ UNCHANGED <<storeVars, client, reader, pump, taskVars>>

\* A command before a handshake, an undeclared or unserved command, or a
\* payload that does not parse: answered with an ErrorResponse.
Refuse(c) ==
  /\ Serving(c)
  /\ CanSend(c)
  /\ Reply(c)
  /\ UNCHANGED <<storeVars, client, shaken, reader, pump, taskVars>>

\* SubscribeEvents: a new stream_events task, which first takes the live feed.
Subscribe(c, t, s, from) ==
  /\ Serving(c)
  /\ shaken[c]
  /\ at[t] = "idle"
  /\ at' = [at EXCEPT ![t] = "subscribed"]
  /\ conn' = [conn EXCEPT ![t] = c]
  /\ session' = [session EXCEPT ![t] = s]
  /\ resume' = [resume EXCEPT ![t] = from]
  /\ last' = [last EXCEPT ![t] = from]
  /\ pos' = [pos EXCEPT ![t] = Len(rows)]
  /\ UNCHANGED <<storeVars, connVars, known, batch, sent>>

HangUp(c) ==
  /\ client[c] = "connected"
  /\ client' = [client EXCEPT ![c] = "gone"]
  /\ UNCHANGED <<storeVars, shaken, reader, pump, queue, taskVars>>

\* read_frame fails on a frame that is too long or does not parse: the loop ends
\* and drops its sender, with the client still there.
BadFrame(c) ==
  /\ Serving(c)
  /\ reader' = [reader EXCEPT ![c] = "ended"]
  /\ UNCHANGED <<storeVars, client, shaken, pump, queue, taskVars>>

\* read_frame returns None or an error once the client is gone, or the answer
\* cannot be sent: the loop ends and drops its sender.
ReaderEnds(c) ==
  /\ reader[c] = "reading"
  /\ client[c] = "gone"
  /\ reader' = [reader EXCEPT ![c] = "ended"]
  /\ UNCHANGED <<storeVars, client, shaken, pump, queue, taskVars>>

PumpWrites(c) ==
  /\ pump[c] = "writing"
  /\ client[c] = "connected"
  /\ queue[c] # <<>>
  /\ queue' = [queue EXCEPT ![c] = Tail(@)]
  /\ UNCHANGED <<storeVars, client, shaken, reader, pump, taskVars>>

\* write_frame fails on a closed peer, and the queue is dropped with the pump.
PumpFails(c) ==
  /\ pump[c] = "writing"
  /\ client[c] = "gone"
  /\ queue[c] # <<>>
  /\ pump' = [pump EXCEPT ![c] = "ended"]
  /\ queue' = [queue EXCEPT ![c] = <<>>]
  /\ UNCHANGED <<storeVars, client, shaken, reader, taskVars>>

\* queue.recv returns None: every sender, the reader's and each task's, is gone.
PumpDrains(c) ==
  /\ pump[c] = "writing"
  /\ queue[c] = <<>>
  /\ reader[c] = "ended"
  /\ \A t \in Streams : conn[t] = c => ~Active(t)
  /\ pump' = [pump EXCEPT ![c] = "ended"]
  /\ UNCHANGED <<storeVars, client, shaken, reader, queue, taskVars>>

--------------------------------------------------------------------------------
(* stream_events.                                                             *)

\* The session is unknown: one ErrorResponse, and the task is over.
NoSuchSession(t) ==
  /\ at[t] = "subscribed"
  /\ session[t] \notin sessions
  /\ \/ CanSend(conn[t]) /\ Reply(conn[t])
     \/ pump[conn[t]] = "ended" /\ UNCHANGED queue
  /\ at' = [at EXCEPT ![t] = "ended"]
  /\ UNCHANGED <<storeVars, client, shaken, reader, pump, conn, session, resume, last,
                 pos, known, batch, sent>>

\* session_events_after, first lock: a copy of the session's run list.
ReadRuns(t) ==
  /\ at[t] = "subscribed"
  /\ session[t] \in sessions
  /\ at' = [at EXCEPT ![t] = "reading"]
  /\ known' = [known EXCEPT ![t] = {r \in Runs : Registered(session[t], r)}]
  /\ UNCHANGED <<storeVars, connVars, conn, session, resume, last, pos, batch, sent>>

\* session_events_after, second lock: the stored events of those runs.  A query
\* that fails yields no event of its run (unwrap_or_default), and no error.
ReadStore(t) ==
  /\ at[t] = "reading"
  /\ at' = [at EXCEPT ![t] = "sending"]
  /\ \E failed \in SUBSET known[t] :
       /\ ReadsMayFail \/ failed = {}
       /\ batch' = [batch EXCEPT ![t] =
            {e \in {rows[i] : i \in DOMAIN rows} :
               e.run \in known[t] \ failed /\ e.seq > last[t]}]
  /\ UNCHANGED <<storeVars, connVars, conn, session, resume, last, pos, known, sent>>

\* forward: one event onto the queue, the cursor moved past it.
Forward(t, e) ==
  /\ CanSend(conn[t])
  /\ queue' = [queue EXCEPT ![conn[t]] = Append(@, Frame(t, e))]
  /\ sent' = [sent EXCEPT ![t] = Append(@, e)]
  /\ last' = [last EXCEPT ![t] = e.seq]

\* The next event of the sorted read, sent unless the cursor has passed it.
SendStored(t) ==
  /\ at[t] = "sending"
  /\ \E e \in batch[t] :
       /\ \A f \in batch[t] : e.seq <= f.seq
       /\ batch' = [batch EXCEPT ![t] = @ \ {e}]
       /\ IF e.seq > last[t] THEN Forward(t, e) ELSE UNCHANGED <<queue, sent, last>>
  /\ UNCHANGED <<storeVars, client, shaken, reader, pump, at, conn, session, resume,
                 pos, known>>

\* Mutant: the live feed is taken after the stored replay was read.
GoLive_FeedTakenLate(t) ==
  /\ at[t] = "sending"
  /\ batch[t] = {}
  /\ at' = [at EXCEPT ![t] = "live"]
  /\ pos' = [pos EXCEPT ![t] = Len(rows)]
  /\ UNCHANGED <<storeVars, connVars, conn, session, resume, last, known, batch, sent>>

\* The read is exhausted, and the task turns to the live feed.
GoLive(t) ==
  /\ at[t] = "sending"
  /\ batch[t] = {}
  /\ at' = [at EXCEPT ![t] = "live"]
  /\ UNCHANGED <<storeVars, connVars, conn, session, resume, last, pos, known, batch, sent>>

Lagging(t) == Len(rows) - pos[t] > FeedCapacity

\* Mutant: no de-duplication of what the replay already sent.
RecvLive_NoCursor(t) ==
  /\ at[t] = "live"
  /\ pos[t] < Len(rows)
  /\ ~Lagging(t)
  /\ pos' = [pos EXCEPT ![t] = @ + 1]
  /\ LET e == rows[pos[t] + 1]
     IN  IF Registered(session[t], e.run) THEN Forward(t, e) ELSE UNCHANGED <<queue, sent, last>>
  /\ UNCHANGED <<storeVars, client, shaken, reader, pump, at, conn, session, resume,
                 known, batch>>

\* live.recv returns the next row: sent if its run is one of the session's at
\* this moment and the cursor has not passed it.
RecvLive(t) ==
  /\ at[t] = "live"
  /\ pos[t] < Len(rows)
  /\ ~Lagging(t)
  /\ pos' = [pos EXCEPT ![t] = @ + 1]
  /\ LET e == rows[pos[t] + 1]
     IN  IF Registered(session[t], e.run) /\ e.seq > last[t]
         THEN Forward(t, e)
         ELSE UNCHANGED <<queue, sent, last>>
  /\ UNCHANGED <<storeVars, client, shaken, reader, pump, at, conn, session, resume,
                 known, batch>>

\* Mutant: a lag skips what was missed.
RecvLagged_Skips(t) ==
  /\ at[t] = "live"
  /\ Lagging(t)
  /\ pos' = [pos EXCEPT ![t] = Len(rows) - FeedCapacity]
  /\ UNCHANGED <<storeVars, connVars, at, conn, session, resume, last, known, batch, sent>>

\* Mutant: a lag ends the stream.
RecvLagged_GivesUp(t) ==
  /\ at[t] = "live"
  /\ Lagging(t)
  /\ at' = [at EXCEPT ![t] = "ended"]
  /\ UNCHANGED <<storeVars, connVars, conn, session, resume, last, pos, known, batch, sent>>

\* live.recv reports Lagged: the receiver moves to the oldest row held, and the
\* task reads the session's run list to go back to the store.
RecvLagged(t) ==
  /\ at[t] = "live"
  /\ Lagging(t)
  /\ pos' = [pos EXCEPT ![t] = Len(rows) - FeedCapacity]
  /\ at' = [at EXCEPT ![t] = "reading"]
  /\ known' = [known EXCEPT ![t] = {r \in Runs : Registered(session[t], r)}]
  /\ UNCHANGED <<storeVars, connVars, conn, session, resume, last, batch, sent>>

\* A send on a queue whose pump is gone fails, which ends the task.  A task with
\* nothing to send never finds out.
HasFrame(t) ==
  \/ at[t] = "sending" /\ \E e \in batch[t] : e.seq > last[t]
  \/ /\ at[t] = "live"
     /\ pos[t] < Len(rows)
     /\ ~Lagging(t)
     /\ LET e == rows[pos[t] + 1] IN Registered(session[t], e.run) /\ e.seq > last[t]

\* Mutant: the failed send is retried for ever.
SendFails_Retried(t) == HasFrame(t) /\ pump[conn[t]] = "ended" /\ UNCHANGED vars

SendFails(t) ==
  /\ HasFrame(t)
  /\ pump[conn[t]] = "ended"
  /\ at' = [at EXCEPT ![t] = "ended"]
  /\ UNCHANGED <<storeVars, connVars, conn, session, resume, last, pos, known, batch, sent>>

--------------------------------------------------------------------------------

Init ==
  /\ StoreInit
  /\ client = [c \in Conns |-> "away"]
  /\ shaken = [c \in Conns |-> FALSE]
  /\ reader = [c \in Conns |-> "reading"]
  /\ pump = [c \in Conns |-> "writing"]
  /\ queue = [c \in Conns |-> <<>>]
  /\ at = [t \in Streams |-> "idle"]
  /\ conn = [t \in Streams |-> NoConn]
  /\ session = [t \in Streams |-> NoSession]
  /\ resume = [t \in Streams |-> 0]
  /\ last = [t \in Streams |-> 0]
  /\ pos = [t \in Streams |-> 0]
  /\ known = [t \in Streams |-> {}]
  /\ batch = [t \in Streams |-> {}]
  /\ sent = [t \in Streams |-> <<>>]

StoreStep == StoreNext /\ UNCHANGED <<connVars, taskVars>>

ConnStep(c) ==
  \/ Connect(c) \/ Handshake(c) \/ Refuse(c) \/ HangUp(c)
  \/ BadFrame(c) \/ ReaderEnds(c) \/ PumpWrites(c) \/ PumpFails(c) \/ PumpDrains(c)
  \/ \E t \in Streams, s \in Sessions, from \in ResumePoints : Subscribe(c, t, s, from)

TaskStep(t) ==
  \/ NoSuchSession(t) \/ ReadRuns(t) \/ ReadStore(t) \/ SendStored(t)
  \/ GoLive(t) \/ RecvLive(t) \/ RecvLagged(t) \/ SendFails(t)

Next ==
  \/ StoreStep
  \/ \E c \in Conns : ConnStep(c)
  \/ \E t \in Streams : TaskStep(t)

Spec == Init /\ [][Next]_vars

\* tokio polls every task that can run; nothing obliges a client or a run to act.
\* A task waiting for room in the queue is woken in turn (the channel's semaphore
\* is fair), so its sends are strongly fair against the others'.
Fairness ==
  /\ \A t \in Streams : SF_vars(TaskStep(t))
  /\ \A c \in Conns : WF_vars(ReaderEnds(c)) /\ WF_vars(PumpWrites(c))
                      /\ WF_vars(PumpFails(c)) /\ WF_vars(PumpDrains(c))

FairSpec == Spec /\ Fairness
--------------------------------------------------------------------------------
(* Properties.                                                                *)

\* The variables of the store, the connections and the stream tasks keep their
\* types, and a task that has started names a real connection and session.
TypeOK ==
  /\ rows \in Seq(Event)
  /\ sessions \subseteq Sessions
  /\ runs \in [Sessions -> Seq(Runs)]
  /\ phase \in [Runs -> Phase]
  /\ owner \in [Runs -> Sessions \cup {NoSession}]
  /\ counter \in [Runs -> Nat]
  /\ client \in [Conns -> {"away", "connected", "gone"}]
  /\ shaken \in [Conns -> BOOLEAN]
  /\ reader \in [Conns -> {"reading", "ended"}]
  /\ pump \in [Conns -> {"writing", "ended"}]
  /\ queue \in [Conns -> Seq({Control} \cup FrameType)]
  /\ at \in [Streams -> At]
  /\ conn \in [Streams -> Conns \cup {NoConn}]
  /\ session \in [Streams -> Sessions \cup {NoSession}]
  /\ resume \in [Streams -> Nat]
  /\ last \in [Streams -> Nat]
  /\ pos \in [Streams -> Nat]
  /\ known \in [Streams -> SUBSET Runs]
  /\ batch \in [Streams -> SUBSET Event]
  /\ sent \in [Streams -> Seq(Event)]
  /\ \A t \in Streams : at[t] # "idle" => conn[t] \in Conns /\ session[t] \in Sessions

\* A session's stored events carry the numbers 1, 2, 3, ... without a gap, each
\* later in the table than the one before, however many runs recorded them
\* (next_session_sequence, register_run and record_event taken together).
ContiguousNumbering ==
  \A s \in Sessions :
    /\ \A i, j \in DOMAIN rows :
         i < j /\ Registered(s, rows[i].run) /\ Registered(s, rows[j].run)
         => rows[i].seq < rows[j].seq
    /\ \A e \in SessionEvents(s) :
         \A n \in FirstEventSequence .. e.seq : \E f \in SessionEvents(s) : f.seq = n

\* The events a stream has sent are stored events of its session, and they are
\* exactly those numbered resume + 1, resume + 2, ...: nothing lost between the
\* stored replay, the live feed and a lag, nothing twice, nothing out of order.
GaplessDelivery ==
  \A t \in Streams : \A k \in DOMAIN sent[t] :
    /\ sent[t][k] \in SessionEvents(session[t])
    /\ sent[t][k].seq = resume[t] + k

\* A stream that waits at the end of the live feed has sent every stored event of
\* its session after the resume point, whichever run recorded it.
NothingLeftBehind ==
  \A t \in Streams :
    at[t] = "live" /\ pos[t] = Len(rows)
    => \A e \in SessionEvents(session[t]) :
         e.seq > resume[t] => \E k \in DOMAIN sent[t] : sent[t][k] = e

\* The stream implements the log its subscribers are promised.
Log == INSTANCE SessionLog WITH
  Nobody <- NoSession,
  length <- [s \in Sessions |-> Cardinality(SessionEvents(s))],
  following <- session,
  cursor <- last

\* Every step of the store, the connections and the streams is an append, a
\* subscription or the delivery of the next entry of the session's log.
ImplementsSessionLog == Log!LogSpec

ClientGone(t) == \E c \in Conns : conn[t] = c /\ client[c] = "gone"

\* Received by the client: sent, and no longer on the write queue.
Received(t, n) ==
  /\ \E k \in DOMAIN sent[t] : sent[t][k].seq = n
  /\ \A c \in Conns : conn[t] = c =>
       \A i \in DOMAIN queue[c] :
         LET f == queue[c][i] IN
         f.kind = "event" => ~(f.stream = t /\ f.event.seq = n)

Numbers == FirstEventSequence .. MaxRunEvents * Cardinality(Runs)

\* Every stored event after the resume point reaches a subscriber that stays.
EveryEventArrives ==
  \A t \in Streams, n \in Numbers :
    /\ Active(t) /\ resume[t] < n
    /\ \E e \in SessionEvents(session[t]) : e.seq = n
    ~> Received(t, n) \/ ClientGone(t)

\* A stream whose client has hung up ends once more of its session's events are
\* stored than the write queue takes: those go in before the first write fails, and
\* the send of the next one fails.  With fewer it may wait on the feed for ever.
HungUpStreamEnds ==
  \A t \in Streams :
    /\ Active(t) /\ ClientGone(t)
    /\ Cardinality({e \in SessionEvents(session[t]) : last[t] < e.seq}) > QueueDepth
    ~> at[t] = "ended"
--------------------------------------------------------------------------------
(* The inductive invariant behind ContiguousNumbering, GaplessDelivery and      *)
(* NothingLeftBehind, for sessions whose runs do not overlap.                   *)

\* A run list names exactly the session's runs that have got past registration,
\* and only those have rows.
Membership ==
  /\ \A r \in Runs : phase[r] # "new" => owner[r] \in Sessions
  /\ \A s \in Sessions, r \in Runs :
       Registered(s, r) <=> owner[r] = s /\ phase[r] \in {"recording", "over"}
  /\ \A i \in DOMAIN rows : phase[rows[i].run] \in {"recording", "over"}

OneBusyRun ==
  \A q, r \in Runs :
    /\ phase[q] \in {"numbered", "recording"} /\ phase[r] \in {"numbered", "recording"}
    /\ owner[q] = owner[r]
    => q = r

\* A busy run's counter is one past the last event of its session.
CounterIsNext ==
  \A r \in Runs : phase[r] \in {"numbered", "recording"} =>
    /\ counter[r] >= FirstEventSequence
    /\ \A e \in SessionEvents(owner[r]) : e.seq < counter[r]
    /\ \/ counter[r] = FirstEventSequence
       \/ \E e \in SessionEvents(owner[r]) : e.seq = counter[r] - 1

\* The cursor counts what was sent, and the feed is never read past its end.
CursorCounts ==
  \A t \in Streams :
    /\ at[t] = "idle" => sent[t] = <<>>
    /\ last[t] = resume[t] + Len(sent[t])
    /\ pos[t] <= Len(rows)

\* Between the two locks of a read: the run list held covers every row the
\* receiver has consumed, and a run that joined since comes after all of them.
ReadingIsSafe(t) ==
  at[t] = "reading" =>
    /\ \A r \in known[t] : Registered(session[t], r)
    /\ \A i \in 1 .. pos[t] :
         Registered(session[t], rows[i].run) => rows[i].run \in known[t]
    /\ \A r \in Runs : Registered(session[t], r) /\ r \notin known[t]
                        => \A q \in known[t] : phase[q] = "over"
    /\ \A e, f \in SessionEvents(session[t]) :
         e.run \in known[t] /\ f.run \notin known[t] => e.seq < f.seq

\* While a read is being sent: every consumed row is sent or in hand, and what is
\* in hand has no hole.
SendingIsSafe(t) ==
  at[t] = "sending" =>
    /\ batch[t] \subseteq SessionEvents(session[t])
    /\ \A i \in 1 .. pos[t] :
         Registered(session[t], rows[i].run) => rows[i].seq <= last[t] \/ rows[i] \in batch[t]
    /\ \A b \in batch[t], e \in SessionEvents(session[t]) :
         last[t] < e.seq /\ e.seq <= b.seq => e \in batch[t]

LiveIsSafe(t) ==
  at[t] = "live" =>
    \A i \in 1 .. pos[t] : Registered(session[t], rows[i].run) => rows[i].seq <= last[t]

StoreInv == Membership /\ OneBusyRun /\ CounterIsNext /\ ContiguousNumbering

TasksSafe == \A t \in Streams : ReadingIsSafe(t) /\ SendingIsSafe(t) /\ LiveIsSafe(t)

IInv == TypeOK /\ StoreInv /\ CursorCounts /\ TasksSafe /\ GaplessDelivery
================================================================================

----------------------------- MODULE ClientSession -----------------------------
(***************************************************************************)
(* A window's view of a session (apps/vitna-desktop/src: client/client.ts,    *)
(* client/useSession.ts, run/reducer.ts), the other end of EventStream.  What *)
(* the daemon promises is taken from SessionLog: a stream gives the entries   *)
(* after the number it was asked for, one by one; except that a query of the  *)
(* store that fails counts as nothing to send (ipc.rs, session_events_after), *)
(* so a stream may pass over entries.  Every subscription of a window adds a  *)
(* stream to its one connection, and those before go on.                      *)
(***************************************************************************)
EXTENDS Naturals, Sequences, SequencesExt

CONSTANTS
  MaxEvents,   \* bound: how long the session's log grows
  MaxStreams,  \* bound: how many subscriptions there are
  MaxMishaps   \* bound: failed queries of the store, and failed sends

ASSUME ClientSessionAssumption == {MaxEvents, MaxStreams, MaxMishaps} \subseteq Nat

VARIABLES
  events,    \* how many entries the log has
  streams,   \* where each stream of the connection is
  wire,      \* numbers sent to the window and not received yet
  view,      \* SessionView: lastSequence, 0 for null, and gap.after and gap.received
  applied,   \* the events the view is the fold of
  effect,    \* gap.after as the effect last saw it, 0 for undefined
  mishaps

sessionVars == <<events, streams, wire, view, applied, effect, mishaps>>

NoGap == [after |-> 0, received |-> 0]
Mishap == mishaps < MaxMishaps /\ mishaps' = mishaps + 1

--------------------------------------------------------------------------------
(* The daemon (EventStream).                                                  *)

Record ==
  /\ events < MaxEvents
  /\ events' = events + 1
  /\ UNCHANGED <<streams, wire, view, applied, effect, mishaps>>

DeliverNext(t) ==
  /\ streams[t] < events
  /\ streams' = [streams EXCEPT ![t] = @ + 1]
  /\ wire' = Append(wire, streams[t] + 1)
  /\ UNCHANGED <<events, view, applied, effect, mishaps>>

\* The entries of a run are passed over.
PassOver(t) ==
  /\ streams[t] < events
  /\ Mishap
  /\ streams' = [streams EXCEPT ![t] = @ + 1]
  /\ UNCHANGED <<events, wire, view, applied, effect>>

--------------------------------------------------------------------------------
(* The window.                                                                *)

\* Mutant: an event that skips ahead is applied.
Admit_Any(n) ==
  IF view.last # 0 /\ n <= view.last
  THEN UNCHANGED <<view, applied>>
  ELSE view' = [last |-> n, gap |-> NoGap] /\ applied' = Append(applied, n)

\* admit: a number at or below the last one is a replay; one that skips ahead leaves a
\* gap; the first may be any.
Admit(n) ==
  IF view.last # 0 /\ n <= view.last
  THEN UNCHANGED <<view, applied>>
  ELSE IF view.last # 0 /\ n > view.last + 1
  THEN /\ view' = IF view.gap # NoGap /\ view.gap.received <= n THEN view
                  ELSE [view EXCEPT !.gap = [after |-> view.last, received |-> n]]
       /\ UNCHANGED applied
  ELSE view' = [last |-> n, gap |-> NoGap] /\ applied' = Append(applied, n)

\* VitnaClient.receive, onEnvelope, sessionReducer.
Receive ==
  /\ wire # <<>>
  /\ Admit(Head(wire))
  /\ wire' = Tail(wire)
  /\ UNCHANGED <<events, streams, effect, mishaps>>

\* The effect on gap.after, run after a rendering if it changed: several events may have
\* been received since the last.  It asks for what is missing, and a request that cannot
\* be sent is told of and not made again.
Rendered ==
  /\ view.gap.after # effect
  /\ effect' = view.gap.after
  /\ \/ view.gap.after = 0 /\ UNCHANGED <<streams, mishaps>>
     \/ /\ view.gap.after # 0 /\ Len(streams) < MaxStreams
        /\ streams' = Append(streams, view.gap.after)
        /\ UNCHANGED mishaps
     \/ view.gap.after # 0 /\ Mishap /\ UNCHANGED streams
  /\ UNCHANGED <<events, wire, view, applied>>

--------------------------------------------------------------------------------

\* start: connected, with the first subscription made, from the beginning.
SessionInit ==
  /\ events = 0
  /\ streams = <<0>>
  /\ wire = <<>>
  /\ view = [last |-> 0, gap |-> NoGap]
  /\ applied = <<>>
  /\ effect = 0 /\ mishaps = 0

SessionNext ==
  \/ Record
  \/ \E t \in DOMAIN streams : DeliverNext(t) \/ PassOver(t)
  \/ Receive \/ Rendered

--------------------------------------------------------------------------------
(* Properties.                                                                *)

\* "The session layer resubscribes from the last applied sequence, and the stream
\* continues in order" (reducer.ts:14): whatever the streams of the connection
\* interleave, the view is the fold of entries in order with none missing between them;
\* and after one mishap no gap stays open once everything sent is received and rendered.
ViewCatchesUp ==
  /\ \A i \in DOMAIN applied : applied[i] = applied[1] + i - 1
  /\ /\ wire = <<>> /\ effect = view.gap.after
     /\ \A t \in DOMAIN streams : streams[t] = events
     => view.gap = NoGap \/ mishaps > 1
================================================================================

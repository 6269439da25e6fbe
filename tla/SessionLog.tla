------------------------------- MODULE SessionLog ------------------------------
(***************************************************************************)
(* What a session's event stream promises its subscribers: each session is a *)
(* log that only grows, numbered 1, 2, 3, ..., and a subscriber that names   *)
(* the last number it holds is given the following entries one by one, each  *)
(* once, none missing, never ahead of the log.                               *)
(***************************************************************************)
EXTENDS Naturals

CONSTANTS Sessions, Streams, ResumePoints, Nobody

VARIABLES
  length,     \* entries in each session's log
  following,  \* the session a stream follows
  cursor      \* the last number the stream has delivered

logVars == <<length, following, cursor>>

LogInit ==
  /\ length = [s \in Sessions |-> 0]
  /\ following = [t \in Streams |-> Nobody]
  /\ cursor = [t \in Streams |-> 0]

Append(s) ==
  /\ length' = [length EXCEPT ![s] = @ + 1]
  /\ UNCHANGED <<following, cursor>>

Attach(t, s, from) ==
  /\ following[t] = Nobody
  /\ following' = [following EXCEPT ![t] = s]
  /\ cursor' = [cursor EXCEPT ![t] = from]
  /\ UNCHANGED length

Deliver(t) ==
  /\ following[t] \in Sessions
  /\ cursor[t] < length[following[t]]
  /\ cursor' = [cursor EXCEPT ![t] = @ + 1]
  /\ UNCHANGED <<length, following>>

LogNext ==
  \/ \E s \in Sessions : Append(s)
  \/ \E t \in Streams, s \in Sessions, from \in ResumePoints : Attach(t, s, from)
  \/ \E t \in Streams : Deliver(t)

LogSpec == LogInit /\ [][LogNext]_logVars
================================================================================

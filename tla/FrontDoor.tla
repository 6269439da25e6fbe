------------------------------- MODULE FrontDoor -------------------------------
(***************************************************************************)
(* Who may use vitna app (crates/app-server/src/admission.rs; lib.rs         *)
(* launch_url; api.rs handle and start_session): the launch code in the       *)
(* address of a window, its one exchange for a session within two minutes,    *)
(* and the checks every request passes before a handler sees it.  Requests    *)
(* are answered at the same time, and the body of each is awaited between the *)
(* checks and the exchange.                                                  *)
(***************************************************************************)
EXTENDS Naturals, FiniteSets

CONSTANTS
  Windows,   \* windows opened from the terminal: each has a launch code of its own
  Requests,  \* requests; the token a session request is answered with is named after it
  Arrivals,  \* what a request says of where it comes from
  CodeTTL,   \* LAUNCH_CODE_TTL
  MaxTime    \* bound: when the clock stops

ASSUME FrontDoorAssumption ==
  /\ CodeTTL \in Nat \ {0} /\ MaxTime \in Nat
  /\ Windows \cap Requests = {} /\ "none" \notin Windows \cup Requests
  /\ Arrivals \subseteq [local : BOOLEAN, host : BOOLEAN, path : {"page", "api", "session"},
                         method : {"GET", "POST"}, origin : BOOLEAN]

VARIABLES
  now,      \* the clock, which only goes forward
  codes,    \* launch_codes: the window and the instant its code stops working
  opened,   \* Auxiliary: when each window was opened, 0 if it was not
  sessions, \* tokens of the sessions there are
  request,  \* each request: where it came from, what it carries, and how far it is
  granted   \* Auxiliary: each token's window, and when its code was exchanged

doorVars == <<now, codes, opened, sessions, request, granted>>

Unsent == [from |-> "nowhere", carries |-> "none", at |-> "unsent"]
Reply(r, at) == request' = [request EXCEPT ![r].at = at]

\* retain(|_, until| *until > now)
Working(cs) == {c \in cs : c[2] > now}

--------------------------------------------------------------------------------

Tick ==
  /\ now < MaxTime
  /\ now' = now + 1
  /\ UNCHANGED <<codes, opened, sessions, request, granted>>

\* Launcher::url: a code for a window, and the expired ones go.
LaunchUrl(w) ==
  /\ opened[w] = 0
  /\ opened' = [opened EXCEPT ![w] = now]
  /\ codes' = Working(codes) \cup {<<w, now + CodeTTL>>}
  /\ UNCHANGED <<now, sessions, request, granted>>

\* handle: the checks in their order, and what a request that fails one is told.
Admission(from, carries) ==
  IF ~from.local THEN "not_local"
  ELSE IF ~from.host THEN "wrong_host"
  ELSE IF from.path = "page" THEN (IF from.method = "GET" THEN "page" ELSE "not_allowed")
  ELSE IF from.method # "POST" THEN "method"
  ELSE IF ~from.origin THEN "wrong_origin"
  ELSE IF from.path = "session" THEN "body"
  ELSE IF carries \in sessions THEN "handled"
  ELSE "no_session"

\* A request comes in, with the code of a window or the token of a session, or with
\* neither; it may be a copy of an earlier one.
Arrive(r) ==
  /\ request[r] = Unsent
  /\ \E from \in Arrivals, carries \in {w \in Windows : opened[w] # 0} \cup sessions \cup {"none"} :
       request' = [request EXCEPT ![r] =
         [from |-> from.path, carries |-> carries, at |-> Admission(from, carries)]]
  /\ UNCHANGED <<now, codes, opened, sessions, granted>>

\* Mutant: the code is looked up and stays.
StartSession_Keeps(r) ==
  /\ request[r].at = "body"
  /\ IF \E c \in codes : c[1] = request[r].carries /\ c[2] > now
     THEN Reply(r, "granted") /\ granted' = granted \cup {<<r, request[r].carries, now>>}
     ELSE Reply(r, "launch_code") /\ UNCHANGED granted
  /\ codes' = Working(codes)
  /\ UNCHANGED <<now, opened, sessions>>

\* start_session, when the body is in: the code is removed whether it still works or
\* not, and the expired ones go.
StartSession(r) ==
  /\ request[r].at = "body"
  /\ IF \E c \in codes : c[1] = request[r].carries /\ c[2] > now
     THEN Reply(r, "granted") /\ granted' = granted \cup {<<r, request[r].carries, now>>}
     ELSE Reply(r, "launch_code") /\ UNCHANGED granted
  /\ codes' = Working({c \in codes : c[1] # request[r].carries})
  /\ UNCHANGED <<now, opened, sessions>>

\* json_body: too large, not JSON, or the client hung up.
BadBody(r) ==
  /\ request[r].at = "body"
  /\ Reply(r, "bad_request")
  /\ UNCHANGED <<now, codes, opened, sessions, granted>>

\* The session is entered under its token after the lock on the codes is released.
InsertSession(r) ==
  /\ request[r].at = "granted"
  /\ Reply(r, "session")
  /\ sessions' = sessions \cup {r}
  /\ UNCHANGED <<now, codes, opened, granted>>

--------------------------------------------------------------------------------

\* The first window is opened when the server starts.
DoorInit ==
  /\ now = 1
  /\ codes = {} /\ sessions = {} /\ granted = {}
  /\ opened = [w \in Windows |-> 0]
  /\ request = [r \in Requests |-> Unsent]

DoorNext ==
  \/ Tick
  \/ \E w \in Windows : LaunchUrl(w)
  \/ \E r \in Requests : Arrive(r) \/ StartSession(r) \/ BadBody(r) \/ InsertSession(r)

--------------------------------------------------------------------------------
(* Properties.                                                                *)

\* "valid for two minutes and a single exchange" (lib.rs): however many requests carry a
\* window's code, at most one is given a session, and in time.
OneSessionPerWindow ==
  /\ \A g \in granted :
       /\ opened[g[2]] # 0 /\ g[3] < opened[g[2]] + CodeTTL
       /\ \A h \in granted : h[2] = g[2] => h = g
  /\ \A t \in sessions : \E x \in granted : x[1] = t
================================================================================

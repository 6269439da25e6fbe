-------------------------------- MODULE Launch --------------------------------
(***************************************************************************)
(* Starting daemons and finding one (crates/daemon/src/launch.rs, main.rs,   *)
(* ipc.rs serve; crates/protocol/src/endpoint.rs; apps/vitna-tui/src/link.rs) *)
(* on a machine with Unix sockets.  Several daemons may be started at once,   *)
(* each may be killed at any step, and the file a killed one leaves behind is *)
(* in the way of the next.  Clients look for a daemon meanwhile.              *)
(*                                                                           *)
(* That daemons of one account come to hold one key is DeviceKey's subject;   *)
(* here a daemon opens its store and its key in one step, or fails to.        *)
(***************************************************************************)
EXTENDS Naturals, Sequences

CONSTANTS
  Daemons,      \* processes started as vitna-coded or vitna serve
  Clients,      \* processes that look for one
  Environments  \* which of "runtime" (XDG_RUNTIME_DIR) and "home" (HOME) may be set

ASSUME LaunchAssumption ==
  /\ "none" \notin Daemons
  /\ Environments \subseteq SUBSET {"runtime", "home"}

VARIABLES
  daemon,  \* each daemon: how far it is, its endpoint, and why it failed
  socket,  \* who bound the file at each endpoint, "none" if there is no file
  look,    \* each client: the endpoints it has still to try, and what it found
  stays    \* Auxiliary: of each look, the endpoints reachable since it began

launchVars == <<daemon, socket, look, stays>>

Endpoints == {"runtime", "home"}

Starting == {"resolved", "opened", "made", "cleared", "bound", "guarded"}

Fail(d, why) == daemon' = [daemon EXCEPT ![d] = [@ EXCEPT !.at = "failed", !.why = why]]
Advance(d, at) == daemon' = [daemon EXCEPT ![d].at = at]

\* A file that a living process bound: a connection to it is taken, at once or by the
\* backlog.
Listens(e) == socket[e] # "none" /\ daemon[socket[e]].at \in {"bound", "guarded", "serving"}

\* socket_dir.
Preferred(env) == IF "runtime" \in env THEN "runtime" ELSE "home"

\* candidates: the preferred endpoint, then the other declared one.
Candidates(env) ==
  IF env = {} THEN <<>>
  ELSE IF env = {"runtime", "home"} THEN <<"runtime", "home">>
  ELSE <<Preferred(env)>>

--------------------------------------------------------------------------------
(* A daemon.                                                                  *)

\* Launch::resolve: the endpoint asked for, or else the one for this environment.
Resolve(d) ==
  /\ daemon[d].at = "off"
  /\ \E env \in Environments, asked \in Endpoints \cup {"default"} :
       IF asked = "default" /\ env = {}
       THEN Fail(d, "no_endpoint")
       ELSE IF "home" \notin env
       THEN Fail(d, "no_store")
       ELSE daemon' = [daemon EXCEPT ![d] =
              [@ EXCEPT !.at = "resolved", !.endpoint = IF asked = "default" THEN Preferred(env) ELSE asked]]
  /\ UNCHANGED <<socket, look, stays>>

\* open_default: the store, the journal of the runner and the key.
OpenStore(d) ==
  /\ daemon[d].at = "resolved"
  /\ Advance(d, "opened") \/ Fail(d, "no_store")
  /\ UNCHANGED <<socket, look, stays>>

\* serve: the directory, for its owner only.
MakeDirectory(d) ==
  /\ daemon[d].at = "opened"
  /\ Advance(d, "made") \/ Fail(d, "no_directory")
  /\ UNCHANGED <<socket, look, stays>>

\* "A stale socket from a killed daemon refuses binds forever": whatever is there goes,
\* the socket of a living daemon too.
RemoveStale(d) ==
  /\ daemon[d].at = "made"
  /\ Advance(d, "cleared")
  /\ socket' = [socket EXCEPT ![daemon[d].endpoint] = "none"]
  /\ stays' = [c \in Clients |-> stays[c] \ {daemon[d].endpoint}]
  /\ UNCHANGED look

Bound(d, e) == Advance(d, "bound") /\ socket' = [socket EXCEPT ![e] = d]

\* Mutant: a daemon that cannot bind cleans up the file on its way out.
Bind_CleansUp(d) ==
  LET e == daemon[d].endpoint IN
  /\ daemon[d].at = "cleared"
  /\ IF socket[e] = "none"
     THEN Bound(d, e)
     ELSE Fail(d, "in_use") /\ socket' = [socket EXCEPT ![e] = "none"]
  /\ UNCHANGED <<look, stays>>

\* bind refuses a path where there is a file.
Bind(d) ==
  LET e == daemon[d].endpoint IN
  /\ daemon[d].at = "cleared"
  /\ IF socket[e] = "none" THEN Bound(d, e) ELSE Fail(d, "in_use") /\ UNCHANGED socket
  /\ UNCHANGED <<look, stays>>

\* set_permissions, by name: the file may be another daemon's by now, or gone.
Guard(d) ==
  /\ daemon[d].at = "bound"
  /\ IF socket[daemon[d].endpoint] = "none" THEN Fail(d, "no_file") ELSE Advance(d, "guarded")
  /\ UNCHANGED <<socket, look, stays>>

\* on_ready says it is listening, and it accepts from now on.
Announce(d) ==
  /\ daemon[d].at = "guarded"
  /\ Advance(d, "serving")
  /\ UNCHANGED <<socket, look, stays>>

\* The file stays.
Kill(d) ==
  /\ daemon[d].at \in Starting \cup {"serving"}
  /\ daemon' = [daemon EXCEPT ![d] = [@ EXCEPT !.at = "killed", !.why = daemon[d].at]]
  /\ stays' = [c \in Clients |-> {e \in stays[c] : socket[e] # d}]
  /\ UNCHANGED <<socket, look>>

--------------------------------------------------------------------------------
(* A client.                                                                  *)

NotFound == [left |-> <<>>, to |-> "none", found |-> "absent"]
Connected(e) == [left |-> <<>>, to |-> socket[e], found |-> "connected"]

\* link::probe.
LookFor(c) ==
  /\ look[c].found = "not_asked"
  /\ \E env \in Environments :
       /\ look' = [look EXCEPT ![c] =
            IF env = {} THEN NotFound ELSE [@ EXCEPT !.left = Candidates(env), !.found = "looking"]]
       /\ stays' = [stays EXCEPT ![c] = {e \in Endpoints : e \in env /\ Listens(e)}]
  /\ UNCHANGED <<daemon, socket>>

\* Mutant: only the first endpoint is tried.
Try_First(c) ==
  /\ look[c].found = "looking"
  /\ LET e == Head(look[c].left) IN
       look' = [look EXCEPT ![c] = IF Listens(e) THEN Connected(e) ELSE NotFound]
  /\ UNCHANGED <<daemon, socket, stays>>

\* The next endpoint: a connection, or the one after it.
Try(c) ==
  /\ look[c].found = "looking"
  /\ LET e == Head(look[c].left)
         rest == Tail(look[c].left) IN
       look' = [look EXCEPT ![c] =
         IF Listens(e) THEN Connected(e) ELSE IF rest = <<>> THEN NotFound ELSE [@ EXCEPT !.left = rest]]
  /\ UNCHANGED <<daemon, socket, stays>>

\* The handshake with the daemon that took the connection, whatever the file is now: it
\* accepts, or refuses, or says nothing for three seconds.
Handshake(c) ==
  /\ look[c].found = "connected"
  /\ \E f \in {"open", "trouble"} :
       /\ f = "open" => daemon[look[c].to].at = "serving"
       /\ look' = [look EXCEPT ![c].found = f]
  /\ UNCHANGED <<daemon, socket, stays>>

--------------------------------------------------------------------------------

LaunchInit ==
  /\ daemon = [d \in Daemons |-> [at |-> "off", endpoint |-> "none", why |-> "none"]]
  /\ socket = [e \in Endpoints |-> "none"]
  /\ look = [c \in Clients |-> [left |-> <<>>, to |-> "none", found |-> "not_asked"]]
  /\ stays = [c \in Clients |-> {}]

Start(d) ==
  \/ Resolve(d) \/ OpenStore(d) \/ MakeDirectory(d) \/ RemoveStale(d)
  \/ Bind(d) \/ Guard(d) \/ Announce(d)

LaunchNext ==
  \/ \E d \in Daemons : Start(d) \/ Kill(d)
  \/ \E c \in Clients : LookFor(c) \/ Try(c) \/ Handshake(c)

--------------------------------------------------------------------------------
(* Properties.                                                                *)

\* However daemons started together get in each other's way, one of those that announced
\* themselves can be reached when the last has come up or given up, unless a killed
\* daemon left its file there, or removed the file and died before it had bound its own.
SomeoneAnswers ==
  \A e \in Endpoints :
    LET here == {d \in Daemons : daemon[d].endpoint = e} IN
    /\ \A d \in here : daemon[d].at \notin Starting
    /\ \E d \in here : daemon[d].at = "serving"
    => \/ Listens(e)
       \/ socket[e] # "none" /\ daemon[socket[e]].at = "killed"
       \/ socket[e] = "none" /\ \E d \in here : daemon[d].at = "killed" /\ daemon[d].why = "cleared"

\* "Nothing is listening" is never said while a daemon could be reached at a declared
\* endpoint all the time the client looked.
NobodyIsMissed == \A c \in Clients : look[c].found = "absent" => stays[c] = {}
================================================================================

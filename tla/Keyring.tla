-------------------------------- MODULE Keyring --------------------------------
(***************************************************************************)
(* Provider keys (crates/providers/src/credentials.rs) in the credential store  *)
(* of the operating system (keyring.rs).  Threads share one KeyringStore; other  *)
(* programs (cmdkey, security, secret-tool) change the same entries.  The        *)
(* system's store takes the operations given to it in any order.               *)
(***************************************************************************)
EXTENDS Naturals

CONSTANTS
  Threads,
  Providers,
  Keys,                  \* keys that ApiKey::parse accepts
  MaxCalls, MaxElsewhere   \* bounds: calls made, changes by other programs

\* What other programs may also store: only whitespace, or what is not text.
Unusable == {"blank", "garbled"}

ASSUME KeyringAssumption ==
  /\ "free" \notin Threads
  /\ "none" \notin Keys /\ Unusable \cap Keys = {}
  /\ MaxCalls \in Nat /\ MaxElsewhere \in Nat

VARIABLES
  filed,   \* what the system holds for each provider
  serial,  \* who holds the store's lock, or "free"
  asking,  \* what each thread does
  called, changed,
  \* Auxiliary: read by no action.
  latest,  \* what an entry may hold, by the calls let through and the other programs
  may      \* what each thread's read may find

keyringVars == <<filed, serial, asking, called, changed, latest, may>>

CallFor(op, p, k) == [step |-> "waiting", op |-> op, provider |-> p, key |-> k, answer |-> "none"]
NoCall == [step |-> "idle", op |-> "none", provider |-> "none", key |-> "none", answer |-> "none"]

--------------------------------------------------------------------------------

\* resolve, check, set_api_key, delete_api_key: a key is parsed before it is set.
CallKeyring(t) ==
  /\ asking[t].step \in {"idle", "answered"} /\ called < MaxCalls
  /\ called' = called + 1
  /\ \E p \in Providers :
       \/ \E op \in {"resolve", "check", "delete"} : asking' = [asking EXCEPT ![t] = CallFor(op, p, "none")]
       \/ \E k \in Keys : asking' = [asking EXCEPT ![t] = CallFor("set", p, k)]
  /\ UNCHANGED <<filed, serial, changed, latest, may>>

IsWrite(t) == asking[t].op \in {"set", "delete"}

\* What the entry holds once the call has been let through.
Let(t) ==
  LET p == asking[t].provider
  IN /\ latest' = IF IsWrite(t) THEN [latest EXCEPT ![p] = {asking[t].key}] ELSE latest
     /\ may' = IF IsWrite(t) THEN may ELSE [may EXCEPT ![t] = latest[p]]
     /\ asking' = [asking EXCEPT ![t].step = "asked"]

\* Mutant: concurrent calls.
OneAtATime_Not(t) ==
  /\ asking[t].step = "waiting"
  /\ Let(t)
  /\ UNCHANGED <<filed, serial, called, changed>>

\* one_at_a_time, and the operation is given to the system.
OneAtATime(t) ==
  /\ asking[t].step = "waiting" /\ serial = "free"
  /\ serial' = t
  /\ Let(t)
  /\ UNCHANGED <<filed, called, changed>>

\* The answer to a read, ApiKey::parse included.  There is nowhere else to look.
Found(t, v) ==
  IF v = "none" THEN "authentication_required"
  ELSE IF v \in Unusable THEN "invalid"
  ELSE IF asking[t].op = "check" THEN "usable" ELSE v

AnswerCall(t, a) == asking' = [asking EXCEPT ![t] = [@ EXCEPT !.step = "answered", !.answer = a]]

\* The system does it and the lock is given back; a write that failed may have been made.
Completes(t) ==
  /\ asking[t].step = "asked"
  /\ LET p == asking[t].provider
     IN \/ /\ AnswerCall(t, IF ~IsWrite(t) THEN Found(t, filed[p])
                        ELSE IF asking[t].op = "delete" /\ filed[p] = "none" THEN "not_stored" ELSE "ok")
           /\ filed' = IF IsWrite(t) THEN [filed EXCEPT ![p] = asking[t].key] ELSE filed
           /\ UNCHANGED latest
        \/ /\ AnswerCall(t, "store_failed")
           /\ \/ UNCHANGED filed
              \/ IsWrite(t) /\ filed' = [filed EXCEPT ![p] = asking[t].key]
           /\ latest' = IF IsWrite(t) THEN [latest EXCEPT ![p] = @ \cup {filed[p]}] ELSE latest
  /\ serial' = "free"
  /\ UNCHANGED <<called, changed, may>>

\* Another program stores or removes something, before or after what is under way.
ChangeEntry ==
  /\ changed < MaxElsewhere /\ changed' = changed + 1
  /\ \E p \in Providers, v \in Keys \cup Unusable \cup {"none"} :
       LET asked == {t \in Threads : asking[t].step = "asked" /\ asking[t].provider = p}
       IN /\ filed' = [filed EXCEPT ![p] = v]
          /\ latest' = [latest EXCEPT ![p] = {v} \cup (IF \E t \in asked : IsWrite(t) THEN @ ELSE {})]
          /\ may' = [t \in Threads |-> IF t \in asked THEN may[t] \cup {v} ELSE may[t]]
  /\ UNCHANGED <<serial, asking, called>>

KeyringInit ==
  /\ filed = [p \in Providers |-> "none"]
  /\ serial = "free" /\ called = 0 /\ changed = 0
  /\ asking = [t \in Threads |-> NoCall]
  /\ latest = [p \in Providers |-> {filed[p]}]
  /\ may = [t \in Threads |-> {}]

KeyringNext ==
  \/ \E t \in Threads : CallKeyring(t) \/ OneAtATime(t) \/ Completes(t)
  \/ ChangeEntry

\* "Calls on one KeyringStore run one at a time, because the Windows store documents that
\* concurrent operations on one entry can complete out of order" (keyring.rs), and a key
\* missing "is AuthenticationRequired, and nothing else is asked" (credentials.rs): what
\* a read answers is what that provider's entry held by the writes let through before it
\* and by other programs, and the key of no other provider, nor one replaced or removed.
ReadsFollowWrites ==
  \A t \in Threads : asking[t].step = "answered" /\ ~IsWrite(t) /\ asking[t].answer # "store_failed" =>
    \E v \in may[t] : asking[t].answer = Found(t, v)
================================================================================

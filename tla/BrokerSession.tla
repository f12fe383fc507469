--------------------------- MODULE BrokerSession ---------------------------
(***************************************************************************)
(* infra/brokers/session_store.py, for one user: every worker process      *)
(* keeps the broker object it last used, and looks in Redis only when it   *)
(* has none.  Connecting, disconnecting and choosing the simulated broker  *)
(* reach one worker and, but for the simulated broker, Redis.              *)
(*                                                                         *)
(* A live session is the number of the change that issued it; the          *)
(* simulated broker, which has no credentials to store, is 0.              *)
(***************************************************************************)
EXTENDS Browser

CONSTANTS
  Workers,     \* uvicorn worker processes
  MaxSwitches  \* bound: how often the user's broker is changed

ASSUME SwitchBound == MaxSwitches \in Nat

VARIABLES
  stored,   \* broker_session:<user> in Redis, None if absent
  cached,   \* _local_cache of each worker, None if the user is not in it
  writes,   \* Redis commands of set_broker and remove in flight: [worker, to]
  switches  \* changes of the user's broker so far

sessionVars == <<stored, cached, writes, switches>>

SimBroker == 0
LiveSessions == 1..MaxSwitches
CacheValues == {SimBroker, None} \cup LiveSessions
Writes == [worker : Workers, to : LiveSessions \cup {None}]

SessionInit ==
  /\ stored = None
  /\ cached = [w \in Workers |-> None]
  /\ writes = {}
  /\ switches = 0

Switch ==
  /\ switches < MaxSwitches
  /\ switches' = switches + 1

\* set_broker with a session just issued: the cache at once, then Redis.
LogIn(w) ==
  /\ Switch
  /\ cached' = [cached EXCEPT ![w] = switches']
  /\ writes' = writes \cup {[worker |-> w, to |-> switches']}
  /\ UNCHANGED stored

\* set_broker with the simulated broker: the cache, and nothing to store.
UseSimulated(w) ==
  /\ Switch
  /\ cached' = [cached EXCEPT ![w] = SimBroker]
  /\ UNCHANGED <<stored, writes>>

\* remove: out of this worker's cache at once, then out of Redis.
Disconnect(w) ==
  /\ Switch
  /\ cached' = [cached EXCEPT ![w] = None]
  /\ writes' = writes \cup {[worker |-> w, to |-> None]}
  /\ UNCHANGED stored

WriteArrives(x) ==
  /\ stored' = x.to
  /\ writes' = writes \ {x}
  /\ UNCHANGED <<cached, switches>>

\* The exception is swallowed: this worker's cache is all there is.
WriteFails(x) ==
  /\ writes' = writes \ {x}
  /\ UNCHANGED <<stored, cached, switches>>

\* The time to live passes, for Redis; no cache hears of it.
Lapse ==
  /\ stored # None
  /\ stored' = None
  /\ UNCHANGED <<cached, writes, switches>>

\* get, once Redis has answered with what it holds: fill the cache.
Remember(w, found) ==
  /\ cached' = IF found = None THEN cached ELSE [cached EXCEPT ![w] = found]
  /\ UNCHANGED <<stored, writes, switches>>

\* A worker restarts with an empty cache; what it had sent is lost.
Forget(w) ==
  /\ cached' = [cached EXCEPT ![w] = None]
  /\ writes' = {x \in writes : x.worker # w}
  /\ UNCHANGED <<stored, switches>>

SessionTypeOK ==
  /\ switches \in 0..MaxSwitches
  /\ stored \in LiveSessions \cup {None}
  /\ cached \in [Workers -> CacheValues]
  /\ writes \subseteq Writes
=============================================================================

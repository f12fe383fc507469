--------------------------- MODULE SchedulerLock ---------------------------
(***************************************************************************)
(* Who runs the cron jobs.  Every uvicorn worker tries, once, as it boots, *)
(* a PostgreSQL session-level advisory lock; the one that gets it starts   *)
(* the scheduler and keeps the session open (core/scheduler.py, and the    *)
(* lifespan of main.py).                                                   *)
(*                                                                         *)
(* The lock belongs to the database session, not to the process: when the  *)
(* session is lost nobody tells the process, which never asks again.  And  *)
(* stopping the scheduler only asks its jobs to end: a worker may have     *)
(* given the lock back while its last jobs still run.                      *)
(***************************************************************************)
EXTENDS Integers, FiniteSets

CONSTANTS
  Workers,
  Jobs,
  MaxErrors,   \* bound: failed lock checks
  MaxDrops,    \* bound: sessions lost under a live process
  MaxCrashes,  \* bound: processes killed
  None

ASSUME WorkersAssumption == IsFiniteSet(Workers)
ASSUME NoneAssumption == None \notin Workers
ASSUME BoundsAssumption == MaxErrors \in Nat /\ MaxDrops \in Nat /\ MaxCrashes \in Nat

VARIABLES
  state,    \* per worker: where its lifespan is
  conn,     \* _lock_conn is not None, per process
  holder,   \* PostgreSQL: the worker whose session holds the advisory lock
  running,  \* the jobs running on each worker
  errors, drops, crashes   \* how often each failure happened

vars == <<state, conn, holder, running, errors, drops, crashes>>

States == {"down", "booting", "scheduling", "serving", "stopping", "exiting"}

Init ==
  /\ state = [w \in Workers |-> "down"]
  /\ conn = [w \in Workers |-> FALSE]
  /\ holder = None
  /\ running = [w \in Workers |-> {}]
  /\ errors = 0 /\ drops = 0 /\ crashes = 0

Boot(w) ==
  /\ state[w] = "down"
  /\ state' = [state EXCEPT ![w] = "booting"]
  /\ UNCHANGED <<conn, holder, running, errors, drops, crashes>>

\* Mutant: takes the answer of the lock for granted.
AcquireUnchecked(w) ==
  /\ state[w] = "booting"
  /\ holder' = IF holder = None THEN w ELSE holder
  /\ conn' = [conn EXCEPT ![w] = TRUE]
  /\ state' = [state EXCEPT ![w] = "scheduling"]
  /\ UNCHANGED <<running, errors, drops, crashes>>

\* pg_try_advisory_lock answers true: keep the session, start the scheduler.
Acquire(w) ==
  /\ state[w] = "booting"
  /\ holder = None
  /\ holder' = w
  /\ conn' = [conn EXCEPT ![w] = TRUE]
  /\ state' = [state EXCEPT ![w] = "scheduling"]
  /\ UNCHANGED <<running, errors, drops, crashes>>

\* Mutants: a state nobody knows; skips without waiting for the answer.
SkipMislabelled(w) ==
  /\ state[w] = "booting"
  /\ holder # None
  /\ state' = [state EXCEPT ![w] = "skipped"]
  /\ UNCHANGED <<conn, holder, running, errors, drops, crashes>>

SkipAnyway(w) ==
  /\ state[w] = "booting"
  /\ state' = [state EXCEPT ![w] = "serving"]
  /\ UNCHANGED <<conn, holder, running, errors, drops, crashes>>

\* It answers false: close the session and serve requests only, for good.
Skip(w) ==
  /\ state[w] = "booting"
  /\ holder # None
  /\ state' = [state EXCEPT ![w] = "serving"]
  /\ UNCHANGED <<conn, holder, running, errors, drops, crashes>>

\* The check itself fails: the worker schedules without the lock.
FailOpen(w) ==
  /\ state[w] = "booting"
  /\ errors < MaxErrors
  /\ errors' = errors + 1
  /\ state' = [state EXCEPT ![w] = "scheduling"]
  /\ UNCHANGED <<conn, holder, running, drops, crashes>>

\* APScheduler starts a job on its cron trigger, one instance per scheduler; a
\* trigger that was due may come before the shutdown that was asked for.
StartJob(w, j) ==
  /\ state[w] \in {"scheduling", "stopping"}
  /\ j \notin running[w]
  /\ running' = [running EXCEPT ![w] = @ \cup {j}]
  /\ UNCHANGED <<state, conn, holder, errors, drops, crashes>>

\* It returns, or notices that it was cancelled.
EndJob(w, j) ==
  /\ j \in running[w]
  /\ running' = [running EXCEPT ![w] = @ \ {j}]
  /\ UNCHANGED <<state, conn, holder, errors, drops, crashes>>

\* Mutant: gives the lock back before it stops the scheduler.
StopReleasingFirst(w) ==
  /\ state[w] = "scheduling"
  /\ state' = [state EXCEPT ![w] = "stopping"]
  /\ holder' = IF conn[w] /\ holder = w THEN None ELSE holder
  /\ conn' = [conn EXCEPT ![w] = FALSE]
  /\ UNCHANGED <<running, errors, drops, crashes>>

\* stop_scheduler: shutdown(wait=False) is queued on the event loop, and asks the
\* job coroutines to end; their threads go on.
Stop(w) ==
  /\ state[w] = "scheduling"
  /\ state' = [state EXCEPT ![w] = "stopping"]
  /\ UNCHANGED <<conn, holder, running, errors, drops, crashes>>

\* release_scheduler_lock, only then: closing the session frees the lock.
Release(w) ==
  /\ state[w] = "stopping"
  /\ state' = [state EXCEPT ![w] = "exiting"]
  /\ holder' = IF conn[w] /\ holder = w THEN None ELSE holder
  /\ conn' = [conn EXCEPT ![w] = FALSE]
  /\ UNCHANGED <<running, errors, drops, crashes>>

\* A worker without a scheduler has nothing to stop and nothing to release.
StopServing(w) ==
  /\ state[w] = "serving"
  /\ state' = [state EXCEPT ![w] = "exiting"]
  /\ UNCHANGED <<conn, holder, running, errors, drops, crashes>>

\* The process ends, and what is left of its jobs with it.
Exit(w) ==
  /\ state[w] = "exiting"
  /\ state' = [state EXCEPT ![w] = "down"]
  /\ running' = [running EXCEPT ![w] = {}]
  /\ UNCHANGED <<conn, holder, errors, drops, crashes>>

\* A killed process takes its jobs with it; PostgreSQL has yet to notice.
Crash(w) ==
  /\ state[w] # "down"
  /\ crashes < MaxCrashes
  /\ crashes' = crashes + 1
  /\ state' = [state EXCEPT ![w] = "down"]
  /\ conn' = [conn EXCEPT ![w] = FALSE]
  /\ running' = [running EXCEPT ![w] = {}]
  /\ UNCHANGED <<holder, errors, drops>>

\* PostgreSQL ends the session of a process that is gone,
Reap ==
  /\ holder # None /\ ~conn[holder]
  /\ holder' = None
  /\ UNCHANGED <<state, conn, running, errors, drops, crashes>>

\* or one whose process lives: a database restart, a cut connection.
DropSession ==
  /\ holder # None /\ conn[holder]
  /\ drops < MaxDrops
  /\ drops' = drops + 1
  /\ holder' = None
  /\ UNCHANGED <<state, conn, running, errors, crashes>>

Next ==
  \/ \E w \in Workers :
       \/ Boot(w) \/ Acquire(w) \/ Skip(w) \/ FailOpen(w)
       \/ Stop(w) \/ Release(w) \/ StopServing(w) \/ Exit(w) \/ Crash(w)
       \/ \E j \in Jobs : StartJob(w, j) \/ EndJob(w, j)
  \/ Reap
  \/ DropSession

Spec == Init /\ [][Next]_vars

\* A worker that boots finishes booting.
Fairness == \A w \in Workers : WF_vars(Acquire(w) \/ Skip(w))

FairSpec == Spec /\ Fairness

-----------------------------------------------------------------------------
(* Properties.                                                             *)

\* The workers whose scheduler nobody has stopped.
Scheduling == {w \in Workers : state[w] = "scheduling"}

\* Every variable keeps its shape.
TypeOK ==
  /\ state \in [Workers -> States]
  /\ conn \in [Workers -> BOOLEAN]
  /\ holder \in Workers \cup {None}
  /\ running \in [Workers -> SUBSET Jobs]
  /\ errors \in Nat /\ drops \in Nat /\ crashes \in Nat

\* Each failed check and each lost session adds at most one scheduler to the
\* one the lock allows, whatever crashes and restarts in between.
SchedulersBounded == Cardinality(Scheduling) <= 1 + errors + drops

\* Without such a failure a job runs on one worker at a time, also while one
\* worker stops and the next one boots: a second copy of it can only be what is
\* left on a worker that has given the lock back and is exiting.
JobOnce ==
  \A j \in Jobs :
     Cardinality({w \in Workers : j \in running[w] /\ state[w] # "exiting"})
       <= 1 + errors + drops

\* Whoever holds the lock runs the scheduler or is on its way down: only a killed
\* process leaves the lock behind, and no worker skips for a lock held in vain.
LockOwned ==
  holder # None =>
    \/ conn[holder] /\ state[holder] \in {"scheduling", "stopping"}
    \/ crashes > 0

\* A cold start ends with a scheduler: of the workers that boot while nobody holds
\* the lock, one runs the jobs.
Cold ==
  /\ holder = None
  /\ \A w \in Workers : state[w] \in {"down", "booting"}
  /\ \E w \in Workers : state[w] = "booting"
ColdStart == Cold ~> (Scheduling # {} \/ crashes > 0)
=============================================================================

------------------------ MODULE SchedulerLockProofs ------------------------
(***************************************************************************)
(* Theorems about SchedulerLock for any number of workers, jobs and        *)
(* failures.  A worker that is exiting has given its scheduler up, and is  *)
(* counted nowhere.  The bound on schedulers is not inductive: what is, is *)
(* that the schedulers without a lock of their own (Loose) are no more     *)
(* than the failures that made them.                                       *)
(***************************************************************************)
EXTENDS SchedulerLock, FiniteSetTheorems, TLAPS

\* Schedulers that do not hold the lock through a session they keep open.
Loose == {w \in Workers : state[w] \in {"scheduling", "stopping"} /\ ~(holder = w /\ conn[w])}

LooseBounded == Cardinality(Loose) <= errors + drops

\* Jobs run under a scheduler, or are left on a worker that exits.
JobsScheduled ==
  \A w \in Workers : running[w] # {} => state[w] \in {"scheduling", "stopping", "exiting"}

Inv == TypeOK /\ LooseBounded /\ JobsScheduled /\ LockOwned

-----------------------------------------------------------------------------
LEMMA LooseFinite == IsFiniteSet(Loose) /\ Cardinality(Loose) \in Nat
  BY WorkersAssumption, FS_Subset, FS_CardinalityType DEF Loose

\* The set of loose schedulers shrinks, or grows by one.
LEMMA LooseStep ==
  ASSUME LooseBounded, TypeOK, TypeOK',
         \/ Loose' \subseteq Loose /\ errors' + drops' = errors + drops
         \/ \E w : Loose' \subseteq Loose \cup {w} /\ errors' + drops' = errors + drops + 1
  PROVE  LooseBounded'
<1>1. IsFiniteSet(Loose) /\ Cardinality(Loose) \in Nat
  BY LooseFinite
<1>2. errors + drops \in Nat
  BY DEF TypeOK
<1>3. CASE Loose' \subseteq Loose /\ errors' + drops' = errors + drops
  <2>1. IsFiniteSet(Loose') /\ Cardinality(Loose') <= Cardinality(Loose)
    BY <1>1, <1>3, FS_Subset
  <2>2. Cardinality(Loose') \in Nat
    BY <2>1, FS_CardinalityType
  <2> QED
    BY <1>1, <1>2, <1>3, <2>1, <2>2 DEF LooseBounded
<1>4. CASE \E w : Loose' \subseteq Loose \cup {w} /\ errors' + drops' = errors + drops + 1
  <2> PICK w : Loose' \subseteq Loose \cup {w} /\ errors' + drops' = errors + drops + 1
    BY <1>4
  <2> DEFINE More == Loose \cup {w}
  <2>1. IsFiniteSet(More) /\ Cardinality(More) <= Cardinality(Loose) + 1
    BY <1>1, FS_AddElement
  <2>2. Cardinality(More) \in Nat
    BY <2>1, FS_CardinalityType
  <2>3. IsFiniteSet(Loose') /\ Cardinality(Loose') <= Cardinality(More)
    BY <2>1, FS_Subset
  <2>4. Cardinality(Loose') \in Nat
    BY <2>3, FS_CardinalityType
  <2> HIDE DEF More
  <2> QED
    BY <1>1, <1>2, <2>1, <2>2, <2>3, <2>4 DEF LooseBounded
<1> QED
  BY <1>3, <1>4

LEMMA InitInv == Init => Inv
<1> SUFFICES ASSUME Init PROVE Inv
  OBVIOUS
<1>1. TypeOK
  BY DEF Init, TypeOK, States
<1>2. Loose = {}
  BY DEF Init, Loose
<1>3. LooseBounded
  BY <1>2, FS_EmptySet DEF LooseBounded, Init
<1>4. JobsScheduled /\ LockOwned
  BY DEF Init, JobsScheduled, LockOwned
<1> QED
  BY <1>1, <1>3, <1>4 DEF Inv

\* The steps of a worker's lifespan.
LEMMA LifespanInv ==
  ASSUME Inv, NEW w \in Workers,
         \/ Boot(w) \/ Acquire(w) \/ Skip(w) \/ FailOpen(w)
         \/ Stop(w) \/ Release(w) \/ StopServing(w) \/ Exit(w) \/ Crash(w)
  PROVE  Inv'
<1> USE DEF Inv
<1>1. TypeOK'
  <2>1. CASE Boot(w)
    BY <2>1 DEF TypeOK, States, Boot
  <2>2. CASE Acquire(w)
    BY <2>2 DEF TypeOK, States, Acquire
  <2>3. CASE Skip(w)
    BY <2>3 DEF TypeOK, States, Skip
  <2>4. CASE FailOpen(w)
    BY <2>4 DEF TypeOK, States, FailOpen
  <2>5. CASE Stop(w)
    BY <2>5 DEF TypeOK, States, Stop
  <2>6. CASE Release(w)
    BY <2>6 DEF TypeOK, States, Release
  <2>7. CASE Crash(w)
    BY <2>7 DEF TypeOK, States, Crash
  <2>8. CASE StopServing(w)
    BY <2>8 DEF TypeOK, States, StopServing
  <2>9. CASE Exit(w)
    BY <2>9 DEF TypeOK, States, Exit
  <2> QED
    BY <2>1, <2>2, <2>3, <2>4, <2>5, <2>6, <2>7, <2>8, <2>9
<1>2. JobsScheduled'
  BY DEF JobsScheduled, TypeOK, Boot, Acquire, Skip, FailOpen, Stop, Release, StopServing,
         Exit, Crash
<1>3. LockOwned'
  <2>1. CASE Boot(w) \/ Skip(w) \/ FailOpen(w) \/ Stop(w) \/ StopServing(w) \/ Exit(w)
    BY <2>1 DEF LockOwned, TypeOK, Boot, Skip, FailOpen, Stop, StopServing, Exit
  <2>2. CASE Acquire(w)
    BY <2>2 DEF LockOwned, TypeOK, Acquire
  <2>3. CASE Release(w)
    BY <2>3, NoneAssumption DEF LockOwned, TypeOK, Release
  <2>4. CASE Crash(w)
    BY <2>4 DEF LockOwned, TypeOK, Crash
  <2> QED
    BY <2>1, <2>2, <2>3, <2>4
<1>4. LooseBounded'
  <2>1. CASE \/ Boot(w) \/ Acquire(w) \/ Skip(w) \/ Stop(w) \/ Release(w)
             \/ StopServing(w) \/ Exit(w) \/ Crash(w)
    <3>1. Loose' \subseteq Loose
      BY <2>1, NoneAssumption DEF Loose, TypeOK, Boot, Acquire, Skip, Stop, Release,
         StopServing, Exit, Crash
    <3>2. errors' = errors /\ drops' = drops
      BY <2>1 DEF Boot, Acquire, Skip, Stop, Release, StopServing, Exit, Crash
    <3> QED
      BY <1>1, <3>1, <3>2, LooseStep
  <2>2. CASE FailOpen(w)
    <3>1. Loose' \subseteq Loose \cup {w}
      BY <2>2 DEF Loose, TypeOK, FailOpen
    <3>2. errors' + drops' = errors + drops + 1
      BY <2>2 DEF FailOpen, TypeOK
    <3> QED
      BY <1>1, <3>1, <3>2, LooseStep
  <2> QED
    BY <2>1, <2>2
<1> QED
  BY <1>1, <1>2, <1>3, <1>4

LEMMA JobInv ==
  ASSUME Inv, NEW w \in Workers, NEW j \in Jobs, StartJob(w, j) \/ EndJob(w, j)
  PROVE  Inv'
<1> USE DEF Inv
<1>1. TypeOK'
  BY DEF TypeOK, StartJob, EndJob
<1>2. JobsScheduled'
  BY DEF JobsScheduled, TypeOK, StartJob, EndJob
<1>3. LockOwned' /\ LooseBounded'
  BY DEF LockOwned, LooseBounded, Loose, StartJob, EndJob
<1> QED
  BY <1>1, <1>2, <1>3

\* PostgreSQL ends a session: only a live process is left without its lock.
LEMMA SessionInv ==
  ASSUME Inv, Reap \/ DropSession
  PROVE  Inv'
<1> USE DEF Inv
<1>1. TypeOK'
  BY DEF TypeOK, Reap, DropSession
<1>2. JobsScheduled' /\ LockOwned'
  BY DEF JobsScheduled, LockOwned, Reap, DropSession
<1>3. LooseBounded'
  <2>1. CASE Reap
    <3>1. Loose' \subseteq Loose
      BY <2>1, NoneAssumption DEF Loose, TypeOK, Reap
    <3>2. errors' = errors /\ drops' = drops
      BY <2>1 DEF Reap
    <3> QED
      BY <1>1, <3>1, <3>2, LooseStep
  <2>2. CASE DropSession
    <3>1. Loose' \subseteq Loose \cup {holder}
      BY <2>2, NoneAssumption DEF Loose, TypeOK, DropSession
    <3>2. errors' + drops' = errors + drops + 1
      BY <2>2 DEF DropSession, TypeOK
    <3> QED
      BY <1>1, <3>1, <3>2, LooseStep
  <2> QED
    BY <2>1, <2>2
<1> QED
  BY <1>1, <1>2, <1>3

LEMMA NextInv == Inv /\ [Next]_vars => Inv'
<1> SUFFICES ASSUME Inv, [Next]_vars PROVE Inv'
  OBVIOUS
<1>1. CASE Next
  BY <1>1, LifespanInv, JobInv, SessionInv DEF Next
<1>2. CASE UNCHANGED vars
  BY <1>2 DEF vars, Inv, TypeOK, LooseBounded, Loose, JobsScheduled, LockOwned
<1> QED
  BY <1>1, <1>2

LEMMA Invariance == Spec => []Inv
  BY InitInv, NextInv, PTL DEF Spec

-----------------------------------------------------------------------------
\* The workers whose scheduler may still start a job.
Starting == {w \in Workers : state[w] \in {"scheduling", "stopping"}}

LEMMA StartingBound ==
  Inv => IsFiniteSet(Starting) /\ Cardinality(Starting) <= 1 + errors + drops
<1> SUFFICES ASSUME Inv
             PROVE  IsFiniteSet(Starting) /\ Cardinality(Starting) <= 1 + errors + drops
  OBVIOUS
<1> DEFINE More == Loose \cup {holder}
<1>1. IsFiniteSet(Loose) /\ Cardinality(Loose) \in Nat
  BY LooseFinite
<1>2. IsFiniteSet(More) /\ Cardinality(More) <= Cardinality(Loose) + 1
  BY <1>1, FS_AddElement
<1>3. Cardinality(More) \in Nat
  BY <1>2, FS_CardinalityType
<1>4. Starting \subseteq More
  BY DEF Starting, Loose
<1>5. IsFiniteSet(Starting) /\ Cardinality(Starting) <= Cardinality(More)
  BY <1>2, <1>4, FS_Subset
<1>6. Cardinality(Starting) \in Nat
  BY <1>5, FS_CardinalityType
<1> HIDE DEF More
<1> QED
  BY <1>1, <1>2, <1>3, <1>5, <1>6 DEF Inv, LooseBounded, TypeOK

\* Any set of such workers obeys the bound.
LEMMA SomeBound ==
  ASSUME Inv, NEW On, On \subseteq Starting
  PROVE  Cardinality(On) <= 1 + errors + drops
<1>1. IsFiniteSet(Starting) /\ Cardinality(Starting) <= 1 + errors + drops
  BY StartingBound
<1>2. IsFiniteSet(On) /\ Cardinality(On) <= Cardinality(Starting)
  BY <1>1, FS_Subset
<1>3. Cardinality(On) \in Nat /\ Cardinality(Starting) \in Nat
  BY <1>1, <1>2, FS_CardinalityType
<1> QED
  BY <1>1, <1>2, <1>3 DEF Inv, TypeOK

LEMMA SchedulingBound == Inv => SchedulersBounded
<1>1. Scheduling \subseteq Starting
  BY DEF Scheduling, Starting
<1> QED
  BY <1>1, SomeBound DEF SchedulersBounded

LEMMA JobBound == Inv => JobOnce
<1> SUFFICES ASSUME Inv, NEW j \in Jobs
             PROVE  Cardinality({w \in Workers : j \in running[w] /\ state[w] # "exiting"})
                      <= 1 + errors + drops
  BY DEF JobOnce
<1>1. {w \in Workers : j \in running[w] /\ state[w] # "exiting"} \subseteq Starting
  BY DEF Inv, JobsScheduled, Starting
<1> QED
  BY <1>1, SomeBound

\* Every variable keeps its shape, whatever fails (core/scheduler.py).
THEOREM LockTypeCorrect == Spec => []TypeOK
  BY Invariance, PTL DEF Inv

\* A failed lock check and a lost session each add at most one scheduler to the
\* one that try_acquire_scheduler_lock admits.
THEOREM SchedulersAreBounded == Spec => []SchedulersBounded
  BY Invariance, SchedulingBound, PTL

\* So a cron job runs on one worker at a time unless one of them happened, but for
\* what is left of it on a worker that has given the lock back and is exiting.
THEOREM JobsRunOnce == Spec => []JobOnce
  BY Invariance, JobBound, PTL

\* A graceful stop never leaves the lock behind: stop_scheduler, then
\* release_scheduler_lock.
THEOREM LockIsOwned == Spec => []LockOwned
  BY Invariance, PTL DEF Inv

-----------------------------------------------------------------------------
\* While no check failed and no session was lost, whoever may start a job, or has
\* one running and is not exiting, holds the lock.
HolderAlone ==
  errors = 0 /\ drops = 0 =>
    \A w \in Workers :
       w \in Starting \/ (running[w] # {} /\ state[w] # "exiting") => w = holder

\* The single scheduler that the pick and the trade engines count on: until a lock
\* check fails or its database session is lost, no two workers start jobs, whoever is
\* killed, stopped or booted meanwhile.  What stop_scheduler leaves running on a
\* worker that exits is not covered, because nothing in the code waits for it.
THEOREM OnlyTheHolderRuns == Spec => []HolderAlone
<1>1. Inv => HolderAlone
  <2> SUFFICES ASSUME Inv, errors = 0, drops = 0, NEW w \in Workers,
                      w \in Starting \/ (running[w] # {} /\ state[w] # "exiting")
               PROVE  w = holder
    BY DEF HolderAlone
  <2>1. state[w] \in {"scheduling", "stopping"}
    BY DEF Inv, JobsScheduled, Starting
  <2>2. Cardinality(Loose) <= 0
    BY DEF Inv, LooseBounded
  <2>3. Loose = {}
    BY <2>2, LooseFinite, FS_EmptySet
  <2> QED
    BY <2>1, <2>3 DEF Loose
<1> QED
  BY <1>1, Invariance, PTL
=============================================================================

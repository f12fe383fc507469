-------------------------- MODULE MCSchedulerLock --------------------------
(* Small instances of SchedulerLock for TLC; workers and jobs are          *)
(* interchangeable.                                                        *)
EXTENDS SchedulerLock, TLC

Symmetry == Permutations(Workers) \cup Permutations(Jobs)
=============================================================================

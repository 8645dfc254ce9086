------------------------------ MODULE LockThreads ------------------------------
(***************************************************************************)
(* The threads that use one lock.  LightLock and RecursiveLock both count  *)
(* them, so there are finitely many.                                       *)
(***************************************************************************)
EXTENDS Integers, FiniteSets

CONSTANT Threads

ASSUME ThreadsAssumption == IsFiniteSet(Threads)
=============================================================================

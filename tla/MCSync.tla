-------------------------------- MODULE MCSync --------------------------------
(***************************************************************************)
(* A LightLock, a RecursiveLock, a CondVar and a LightSemaphore for TLC.   *)
(* They share no state, so the behaviours of the four together are checked *)
(* one object at a time: object says which of them the threads use, the    *)
(* others stay as they were made.  The CondVar has one waiter, for which   *)
(* it keeps its promises; MCCondVar has two.                               *)
(*                                                                         *)
(* The bounds are the numbers of threads, MaxDepth (one level of nesting   *)
(* beside the first is enough for an Unlock that does not release) and     *)
(* MaxCount; MaxRegistered is never reached.                               *)
(***************************************************************************)
EXTENDS RecursiveLock

CONSTANTS
  Waiters, Wakers, WakeCounts, MaxRegistered,           \* of the CondVar
  Acquirers, Releasers, Needs, Gives, MaxCount          \* of the semaphore

VARIABLES
  object,
  word, lightPc,
  cv, cvOwner, cvPc, timed, timedOut, count, toOne, toAll,
  current_count, num_threads_acq, semPc, amount, old

\* A waker wakes one thread, two, or all of them.
OneTwoOrAll == {1, 2, -1}

lightVars == <<word, lightPc>>
cvVars    == <<cv, cvOwner, cvPc, timed, timedOut, count, toOne, toAll>>
semVars   == <<current_count, num_threads_acq, semPc, amount, old>>

Light == INSTANCE LightLock WITH pc <- lightPc
Cond  == INSTANCE CondVar WITH pc <- cvPc, owner <- cvOwner,
                               Timeouts <- BOOLEAN, WakersHoldLock <- TRUE
Sem   == INSTANCE LightSemaphore WITH pc <- semPc

ASSUME CondVarAssumption == Cond!CondVarAssumption
ASSUME SemaphoreAssumption == Sem!LightSemaphoreAssumption

SyncInit ==
  /\ object \in {"LightLock", "RecursiveLock", "CondVar", "LightSemaphore"}
  /\ Light!Init /\ Init /\ Cond!Init /\ Sem!Init
  /\ object # "LightLock" => word = 1
  /\ object # "LightSemaphore" => current_count = 0

SyncNext ==
  \/ /\ object = "LightLock" /\ Light!Next
     /\ UNCHANGED <<object, vars, cvVars, semVars>>
  \/ /\ object = "RecursiveLock" /\ Next
     /\ UNCHANGED <<object, lightVars, cvVars, semVars>>
  \/ /\ object = "CondVar" /\ Cond!Next
     /\ UNCHANGED <<object, lightVars, vars, semVars>>
  \/ /\ object = "LightSemaphore" /\ Sem!Next
     /\ UNCHANGED <<object, lightVars, vars, cvVars>>

SyncSpec ==
  /\ SyncInit /\ [][SyncNext]_<<object, lightVars, vars, cvVars, semVars>>
  /\ Light!Fairness /\ Fairness /\ Cond!Fairness /\ Sem!Fairness

-----------------------------------------------------------------------------

\* Every object has its type.
SyncTypeOK == Light!TypeOK /\ TypeOK /\ Cond!TypeOK /\ Sem!TypeOK

\* A free LightLock with sleepers has somebody on the way to wake or overtake
\* them (LightLock.NoLostWakeup).
NoLostWakeup == Light!NoLostWakeup

\* LightLock implements the abstract mutex, its liveness included
\* (LightLock.ImplementsMutex).
ImplementsMutex == Light!ImplementsMutex

\* A CondVar with sleepers has registrations or a wakeup coming, and never more
\* registrations than waiters; a LightSemaphore knows how many wait for it
\* (CondVar.NobodyStranded, CondVar.CountsOnlyWaiters and
\* LightSemaphore.CountsRegistered).
WaitersAreCounted ==
  Cond!NobodyStranded /\ Cond!CountsOnlyWaiters /\ Sem!CountsRegistered

\* A wait reports a timeout exactly when it was not woken
\* (CondVar.TimeoutIsTruthful).
TimeoutIsTruthful == Cond!TimeoutIsTruthful

\* Wakeups reach a thread that waits when they are given
\* (CondVar.SignalWakesOne and CondVar.BroadcastWakesAll).
WakeupsArrive == Cond!SignalWakesOne /\ Cond!BroadcastWakesAll

\* LightSemaphore implements the abstract semaphore, its liveness included
\* (LightSemaphore.ImplementsSemaphore).
ImplementsSemaphore == Sem!ImplementsSemaphore
=============================================================================

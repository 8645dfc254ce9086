------------------------------- MODULE CondVar -------------------------------
(***************************************************************************)
(* CondVar (source/synchronization.c): a condition variable in one 32-bit  *)
(* word that holds minus the number of registered waiters.                 *)
(*                                                                         *)
(* A waiter registers and releases the caller's lock, and only then asks   *)
(* the kernel to sleep while the word is negative; a waker takes           *)
(* registrations off the word and only then asks the kernel to wake as     *)
(* many threads.  Between the two calls of either side the others run.     *)
(*                                                                         *)
(* The caller's LightLock is the abstract mutex that LightLock is shown to *)
(* implement: it has at most one owner and is given to no one in           *)
(* particular.                                                             *)
(***************************************************************************)
EXTENDS AddressArbiter

CONSTANTS
  Waiters,          \* threads that call CondVar_Wait and CondVar_WaitTimeout
  Wakers,           \* threads that call CondVar_WakeUp
  NoThread,         \* the owner of a free lock
  WakeCounts,       \* the num_threads passed to CondVar_WakeUp; -1 wakes all
  Timeouts,         \* which waits are used: TRUE for CondVar_WaitTimeout
  WakersHoldLock,   \* do the callers of CondVar_WakeUp hold the lock?
  MaxRegistered     \* bound on the registrations the word may hold

CondVarAssumption ==
  /\ IsFiniteSet(Waiters \cup Wakers)
  /\ Waiters \cap Wakers = {}
  /\ NoThread \notin Waiters \cup Wakers
  /\ WakeCounts \subseteq (Nat \cup {-1}) \ {0}
  /\ Timeouts \subseteq BOOLEAN
  /\ WakersHoldLock \in BOOLEAN
  /\ MaxRegistered \in Nat

VARIABLES
  cv,         \* the CondVar
  owner,      \* the owner of the caller's LightLock
  pc,         \* where each thread is:
              \*   "out"     without the lock
              \*   "cs"      holding the lock
              \*   "unlock"  registered, about to release the lock
              \*   "wait"    lock released, about to call WAIT_IF_LESS_THAN
              \*   "asleep"  inside WAIT_IF_LESS_THAN
              \*   "expired" the kernel reported a timeout
              \*   "relock"  done waiting, about to take the lock again
              \*   "signal"  registrations taken, about to call SIGNAL
  timed,      \* waiter -> is its wait a CondVar_WaitTimeout?
  timedOut,   \* waiter -> what its last CondVar_WaitTimeout returns
  count,      \* waker -> the num_threads it passes to SIGNAL
  toOne,      \* history: the threads waiting at a WakeUp that names a
              \*   number, until one of them stops waiting
  toAll       \* history: the threads waiting at a WakeUp(-1), each until it
              \*   stops waiting

vars == <<cv, owner, pc, timed, timedOut, count, toOne, toAll>>

Callers  == Waiters \cup Wakers
Asleep   == {t \in Callers : pc[t] = "asleep"}
Waiting  == {t \in Callers : pc[t] \in {"wait", "asleep", "expired"}}
Places   == {"out", "cs", "unlock", "wait", "asleep", "expired", "relock", "signal"}

\* Has the word any registrations?
HasWaiters(v) == v < 0

(* Slips the code avoids, each for the definition named with it. *)

\* For EndWait: the last registration is never taken.
EndWaitKeepsLast(v, n) ==
  IF ~HasWaiters(v) THEN v
  ELSE IF n >= 0 /\ v < -n THEN v + n ELSE IF n < 0 THEN 0 ELSE v

\* CondVar_EndWait takes n registrations, or all of them, off a word v that
\* has some; its result tells whether it did.
EndWait(v, n) ==
  IF ~HasWaiters(v) THEN v
  ELSE IF n >= 0 /\ v <= -n THEN v + n ELSE 0

Init ==
  /\ cv = 0
  /\ owner = NoThread
  /\ pc = [t \in Callers |-> "out"]
  /\ timed = [w \in Waiters |-> FALSE]
  /\ timedOut = [w \in Waiters |-> FALSE]
  /\ count = [k \in Wakers |-> 1]
  /\ toOne = {}
  /\ toAll = {}

\* The threads of S stop waiting.
StopWaiting(S) ==
  /\ toOne' = IF toOne \cap S = {} THEN toOne ELSE {}
  /\ toAll' = toAll \ S

-----------------------------------------------------------------------------
(***************************************************************************)
(* Slips the code avoids, each for the action or operator named with it.   *)
(***************************************************************************)

\* For Arbitrate: the waiter sleeps without the kernel comparing the word.
ArbitrateUnchecked(w) ==
  /\ pc[w] = "wait"
  /\ pc' = [pc EXCEPT ![w] = "asleep"]
  /\ UNCHANGED <<cv, owner, timed, timedOut, count, toOne, toAll>>

\* For ExpiredWait: a timeout is reported without looking for a wakeup.
ExpiredWaitUnchecked(w) ==
  /\ pc[w] = "expired"
  /\ timedOut' = [timedOut EXCEPT ![w] = TRUE]
  /\ cv' = EndWait(cv, 1)
  /\ pc' = [pc EXCEPT ![w] = "relock"]
  /\ StopWaiting({w})
  /\ UNCHANGED <<owner, timed, count>>

-----------------------------------------------------------------------------

\* The caller takes its lock, or gives it back.
Lock(t) ==
  /\ pc[t] = "out"
  /\ owner = NoThread
  /\ owner' = t
  /\ pc' = [pc EXCEPT ![t] = "cs"]
  /\ UNCHANGED <<cv, timed, timedOut, count, toOne, toAll>>

Unlock(t) ==
  /\ pc[t] = "cs"
  /\ owner' = NoThread
  /\ pc' = [pc EXCEPT ![t] = "out"]
  /\ UNCHANGED <<cv, timed, timedOut, count, toOne, toAll>>

\* CondVar_BeginWait registers the waiter ...
BeginWait(w) ==
  /\ pc[w] = "cs"
  /\ cv > -MaxRegistered
  /\ cv' = cv - 1
  /\ \E b \in Timeouts : timed' = [timed EXCEPT ![w] = b]
  /\ timedOut' = [timedOut EXCEPT ![w] = FALSE]
  /\ pc' = [pc EXCEPT ![w] = "unlock"]
  /\ UNCHANGED <<owner, count, toOne, toAll>>

\* ... and releases the lock.
ReleaseLock(w) ==
  /\ pc[w] = "unlock"
  /\ owner' = NoThread
  /\ pc' = [pc EXCEPT ![w] = "wait"]
  /\ UNCHANGED <<cv, timed, timedOut, count, toOne, toAll>>

\* The kernel puts the waiter to sleep if the word is negative by then.
Arbitrate(w) ==
  /\ pc[w] = "wait"
  /\ IF MustSleep(cv, 0)
     THEN /\ pc' = [pc EXCEPT ![w] = "asleep"]
          /\ UNCHANGED <<toOne, toAll>>
     ELSE /\ pc' = [pc EXCEPT ![w] = "relock"]
          /\ StopWaiting({w})
  /\ UNCHANGED <<cv, owner, timed, timedOut, count>>

\* The kernel gives up on a sleeper whose time has come.
Expire(w) ==
  /\ pc[w] = "asleep"
  /\ timed[w]
  /\ pc' = [pc EXCEPT ![w] = "expired"]
  /\ UNCHANGED <<cv, owner, timed, timedOut, count, toOne, toAll>>

\* CondVar_WaitTimeout withdraws the registration; if there is none left, a
\* waker has taken it and the wait succeeded after all.
ExpiredWait(w) ==
  /\ pc[w] = "expired"
  /\ timedOut' = [timedOut EXCEPT ![w] = HasWaiters(cv)]
  /\ cv' = EndWait(cv, 1)
  /\ pc' = [pc EXCEPT ![w] = "relock"]
  /\ StopWaiting({w})
  /\ UNCHANGED <<owner, timed, count>>

\* The waiter has its lock back and CondVar_Wait returns.
Relock(w) ==
  /\ pc[w] = "relock"
  /\ owner = NoThread
  /\ owner' = w
  /\ pc' = [pc EXCEPT ![w] = "cs"]
  /\ UNCHANGED <<cv, timed, timedOut, count, toOne, toAll>>

\* CondVar_WakeUp takes registrations off the word; without any it is done.
WakeUp(k, n) ==
  /\ pc[k] = IF WakersHoldLock THEN "cs" ELSE "out"
  /\ cv' = EndWait(cv, n)
  /\ count' = [count EXCEPT ![k] = n]
  /\ pc' = IF HasWaiters(cv) THEN [pc EXCEPT ![k] = "signal"] ELSE pc
  /\ IF n = -1 THEN toAll' = toAll \cup Waiting /\ UNCHANGED toOne
               ELSE toOne' = Waiting /\ UNCHANGED toAll
  /\ UNCHANGED <<owner, timed, timedOut>>

\* The kernel wakes that many of the threads that sleep by then.
Signal(k) ==
  /\ pc[k] = "signal"
  /\ \E W \in Wakeable(Asleep, count[k]) :
       /\ pc' = [t \in Callers |->
                   IF t = k THEN (IF owner = k THEN "cs" ELSE "out")
                   ELSE IF t \in W THEN "relock" ELSE pc[t]]
       /\ StopWaiting(W)
  /\ UNCHANGED <<cv, owner, timed, timedOut, count>>

\* What a thread does on its own once it has called Wait or WakeUp.
WaiterProceeds(w) == ReleaseLock(w) \/ Arbitrate(w) \/ ExpiredWait(w)

Next ==
  \/ \E t \in Callers : Lock(t) \/ Unlock(t)
  \/ \E w \in Waiters :
       BeginWait(w) \/ WaiterProceeds(w) \/ Expire(w) \/ Relock(w)
  \/ \E k \in Wakers :
       Signal(k) \/ \E n \in WakeCounts : WakeUp(k, n)

\* The kernel runs every runnable thread.  Nobody has to release the lock, a
\* wait need not time out, and the lock may go to others for ever.
Fairness ==
  /\ \A w \in Waiters : WF_vars(WaiterProceeds(w))
  /\ \A k \in Wakers : WF_vars(Signal(k))

Spec == Init /\ [][Next]_vars /\ Fairness

-----------------------------------------------------------------------------

\* Every variable has its type; the word is never positive.
TypeOK ==
  /\ cv \in -MaxRegistered .. 0
  /\ owner \in Callers \cup {NoThread}
  /\ pc \in [Callers -> Places]
  /\ timed \in [Waiters -> BOOLEAN]
  /\ timedOut \in [Waiters -> BOOLEAN]
  /\ count \in [Wakers -> WakeCounts \cup {1}]
  /\ toOne \subseteq Waiters
  /\ toAll \subseteq Waiters

\* Nobody sleeps on a word without registrations, which no later WakeUp would
\* even try to wake, unless a SIGNAL that will wake them is on its way.
NobodyStranded ==
  Asleep # {} /\ cv = 0 => \E k \in Wakers : pc[k] = "signal"

\* The word counts the waits in progress whose registration nobody has taken:
\* it never owes a registration to a thread that no longer waits.
CountsOnlyWaiters ==
  -cv <= Cardinality({w \in Waiters : pc[w] \in {"unlock", "wait", "asleep", "expired"}})

\* CondVar_WaitTimeout reports a timeout exactly when no WakeUp had been
\* addressed to it, even if the two race between the kernel's timeout and the
\* withdrawal of the registration.
TimeoutIsTruthful ==
  [][\A w \in Waiters : pc[w] = "expired" /\ pc'[w] # "expired" =>
       (timedOut'[w] <=> w \notin toOne \cup toAll)]_vars

\* CondVar_Signal wakes up one of the threads waiting when it is called.
SignalWakesOne == toOne # {} ~> toOne = {}

\* CondVar_Broadcast wakes up every thread waiting when it is called.
BroadcastWakesAll == \A w \in Waiters : w \in toAll ~> w \notin toAll
=============================================================================

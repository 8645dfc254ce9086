------------------------------ MODULE LightLock ------------------------------
(***************************************************************************)
(* LightLock (source/synchronization.c): a mutex in one 32-bit word.       *)
(*                                                                         *)
(* The sign of the word says whether the lock is held (negative) and its   *)
(* magnitude is one more than the number of threads registered as waiting. *)
(* A word of 0 is what a statically allocated lock holds before            *)
(* LightLock_Init; every operation that may meet it treats it as 1.        *)
(*                                                                         *)
(* A load-exclusive/store-exclusive loop takes effect at its successful    *)
(* store, so each is one step.  The call into the kernel that follows a    *)
(* loop is a step of its own: other threads run in between.                *)
(***************************************************************************)
EXTENDS AddressArbiter, LockThreads

VARIABLES
  word,    \* the LightLock itself
  pc       \* where each thread is:
           \*   "out"     not using the lock
           \*   "wait"    registered, about to call WAIT_IF_LESS_THAN
           \*   "asleep"  inside WAIT_IF_LESS_THAN
           \*   "retry"   returned from the kernel, about to try again
           \*   "in"      holding the lock
           \*   "signal"  lock word released, about to call SIGNAL

vars == <<word, pc>>

Registered == {t \in Threads : pc[t] \in {"wait", "asleep", "retry"}}
Asleep  == {t \in Threads : pc[t] = "asleep"}
Held    == \E t \in Threads : pc[t] = "in"

\* 0 is an invalid state and is read as 1, unlocked with nobody waiting.
Valid(w) == IF w = 0 THEN 1 ELSE w

Init ==
  /\ word \in {0, 1}
  /\ pc = [t \in Threads |-> "out"]

-----------------------------------------------------------------------------
(***************************************************************************)
(* Slips the code avoids.  Each takes the place of the action named with   *)
(* it, to show that some property below would notice.                      *)
(***************************************************************************)

\* For Arbitrate: the waiter sleeps without the kernel comparing the word.
ArbitrateUnchecked(t) ==
  /\ pc[t] = "wait"
  /\ pc' = [pc EXCEPT ![t] = "asleep"]
  /\ UNCHANGED word

\* For RetryFree: the lock is taken but the waiter stays counted.
RetryFreeKeepsCount(t) ==
  /\ pc[t] = "retry"
  /\ word >= 0
  /\ word' = -word
  /\ pc' = [pc EXCEPT ![t] = "in"]

\* For Unlock: the count is compared with one too many.
UnlockOffByOne(t) ==
  /\ pc[t] = "in"
  /\ word' = -word
  /\ pc' = [pc EXCEPT ![t] = IF word' > 2 THEN "signal" ELSE "out"]

-----------------------------------------------------------------------------

\* The first loop of LightLock_Lock finds the lock free and takes it.
LockFree(t) ==
  /\ pc[t] = "out"
  /\ Valid(word) > 0
  /\ word' = -Valid(word)
  /\ pc' = [pc EXCEPT ![t] = "in"]

\* The first loop of LightLock_Lock finds the lock held and registers a waiter.
LockHeld(t) ==
  /\ pc[t] = "out"
  /\ Valid(word) < 0
  /\ word' = Valid(word) - 1
  /\ pc' = [pc EXCEPT ![t] = "wait"]

\* The waiter enters the kernel, which puts it to sleep if the lock is held.
Arbitrate(t) ==
  /\ pc[t] = "wait"
  /\ pc' = [pc EXCEPT ![t] = IF MustSleep(word, 0) THEN "asleep" ELSE "retry"]
  /\ UNCHANGED word

\* A woken waiter takes the lock, and is no longer counted in the word ...
RetryFree(t) ==
  /\ pc[t] = "retry"
  /\ word >= 0
  /\ word' = -(word - 1)
  /\ pc' = [pc EXCEPT ![t] = "in"]

\* ... or finds that another thread was faster, and waits again.
RetryHeld(t) ==
  /\ pc[t] = "retry"
  /\ word < 0
  /\ pc' = [pc EXCEPT ![t] = "wait"]
  /\ UNCHANGED word

\* LightLock_TryLock.  On failure it returns with nothing changed.
TryLock(t) ==
  /\ pc[t] = "out"
  /\ IF Valid(word) < 0
     THEN UNCHANGED vars
     ELSE /\ word' = -Valid(word)
          /\ pc' = [pc EXCEPT ![t] = "in"]

\* LightLock_Unlock up to the store; the kernel is called only for waiters.
Unlock(t) ==
  /\ pc[t] = "in"
  /\ word' = -word
  /\ pc' = [pc EXCEPT ![t] = IF word' > 1 THEN "signal" ELSE "out"]

\* The kernel wakes one sleeping waiter, if there is one by then.
Signal(t) ==
  /\ pc[t] = "signal"
  /\ \E W \in Wakeable(Asleep, 1) :
       pc' = [u \in Threads |-> IF u = t THEN "out"
                                ELSE IF u \in W THEN "retry" ELSE pc[u]]
  /\ UNCHANGED word

\* What a thread does on its own once it has called Lock or Unlock.
Proceed(t) == Arbitrate(t) \/ RetryFree(t) \/ RetryHeld(t) \/ Signal(t)

Next == \E t \in Threads :
  LockFree(t) \/ LockHeld(t) \/ TryLock(t) \/ Unlock(t) \/ Proceed(t)

\* The kernel runs every runnable thread.  Nothing makes a thread call Lock,
\* and nothing makes a holder call Unlock.
Fairness == \A t \in Threads : WF_vars(Proceed(t))

SafetySpec == Init /\ [][Next]_vars

Spec == SafetySpec /\ Fairness

-----------------------------------------------------------------------------

\* Every thread is at a known place, and the word never counts more waiters
\* than there are threads, however often the lock changes hands.
TypeOK ==
  /\ word \in -(1 + Cardinality(Threads)) .. 1 + Cardinality(Threads)
  /\ pc \in [Threads -> {"out", "wait", "asleep", "retry", "in", "signal"}]

\* Two threads never hold the lock at once.
MutualExclusion ==
  \A t, u \in Threads : pc[t] = "in" /\ pc[u] = "in" => t = u

\* The word tells the truth: negative exactly while held, and one more than
\* the number of registered waiters in magnitude, whatever mixture of Lock,
\* TryLock, Unlock and retries led here.
WordCountsWaiters ==
  /\ word < 0 <=> Held
  /\ Valid(word) = IF Held THEN -(1 + Cardinality(Registered))
                           ELSE 1 + Cardinality(Registered)

\* If the lock is free while threads sleep on it, somebody who will wake or
\* overtake them is on the way: a signal about to be sent, or a registered
\* waiter that is awake.
NoLostWakeup ==
  Asleep # {} /\ ~Held =>
    \E t \in Threads : pc[t] \in {"signal", "retry", "wait"}

\* LightLock implements Mutex, including its liveness.
AbstractStatus ==
  [t \in Threads |-> IF pc[t] = "in" THEN "holding"
                     ELSE IF t \in Registered THEN "wanting" ELSE "idle"]

M == INSTANCE Mutex WITH status <- AbstractStatus

\* Every behaviour of LightLock is one of the abstract mutex: single steps
\* map to single steps or stutters, and a free lock that is wanted is taken.
ImplementsMutex == M!Spec
=============================================================================

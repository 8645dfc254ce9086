--------------------------- MODULE LightSemaphore ---------------------------
(***************************************************************************)
(* LightSemaphore (source/synchronization.c): a counting semaphore made of *)
(* a count, which is also the word its waiters sleep on, and a number of   *)
(* registered waiters, which LightSemaphore_Release reads only after it    *)
(* has stored the new count.                                               *)
(***************************************************************************)
EXTENDS AddressArbiter

CONSTANTS
  Acquirers,   \* threads that acquire
  Releasers,   \* threads that release; a thread may do both
  Needs,       \* the counts passed to LightSemaphore_Acquire
  Gives,       \* the counts passed to LightSemaphore_Release
  MaxCount     \* max_count

LightSemaphoreAssumption ==
  /\ IsFiniteSet(Acquirers) /\ IsFiniteSet(Releasers)
  /\ Needs \subseteq Nat \ {0}
  /\ Gives \subseteq Nat \ {0}
  /\ MaxCount \in Nat \ {0}

VARIABLES
  current_count,
  num_threads_acq,
  pc,      \* where each thread is:
           \*   "out"      not using the semaphore
           \*   "register" found too little, about to register as a waiter
           \*   "wait"     registered, about to call WAIT_IF_LESS_THAN
           \*   "asleep"   inside WAIT_IF_LESS_THAN
           \*   "leave"    back from the kernel, about to unregister
           \*   "retry"    unregistered, about to look at the count again
           \*   "check"    released, about to decide whether to call SIGNAL
           \*   "signal"   about to call SIGNAL
  amount,  \* the count each thread was called with, 0 between calls
  old      \* old_count of LightSemaphore_Release, 0 outside it

vars == <<current_count, num_threads_acq, pc, amount, old>>

Callers == Acquirers \cup Releasers

Asleep == {t \in Callers : pc[t] = "asleep"}
Registered == {t \in Callers : pc[t] \in {"wait", "asleep", "leave"}}
Acquiring == {t \in Callers :
                pc[t] \in {"register", "wait", "asleep", "leave", "retry"}}
Places ==
  {"out", "register", "wait", "asleep", "leave", "retry", "check", "signal"}

Init ==
  /\ current_count \in 0 .. MaxCount
  /\ num_threads_acq = 0
  /\ pc = [t \in Callers |-> "out"]
  /\ amount = [t \in Callers |-> 0]
  /\ old = [t \in Callers |-> 0]

Goto(t, place) == pc' = [pc EXCEPT ![t] = place]

\* The call of thread t returns, and its locals with it.
Return(t) ==
  /\ Goto(t, "out")
  /\ amount' = [amount EXCEPT ![t] = 0]
  /\ old' = [old EXCEPT ![t] = 0]

-----------------------------------------------------------------------------
(***************************************************************************)
(* Slips the code avoids, each for the action named with it.               *)
(***************************************************************************)

\* For CheckWaiters: only a count that was used up is thought to have waiters.
CheckWaitersOldOnly(t) ==
  /\ pc[t] = "check"
  /\ IF old[t] <= 0 THEN Goto(t, "signal") /\ UNCHANGED <<amount, old>>
                    ELSE Return(t)
  /\ UNCHANGED <<current_count, num_threads_acq>>

-----------------------------------------------------------------------------

\* LightSemaphore_Acquire finds enough and takes it ...
AcquireEnough(t, n) ==
  /\ pc[t] = "out"
  /\ current_count >= n
  /\ current_count' = current_count - n
  /\ UNCHANGED <<num_threads_acq, pc, amount, old>>

\* ... or finds too little and is going to wait.
AcquireTooLittle(t, n) ==
  /\ pc[t] = "out"
  /\ current_count < n
  /\ amount' = [amount EXCEPT ![t] = n]
  /\ Goto(t, "register")
  /\ UNCHANGED <<current_count, num_threads_acq, old>>

Register(t) ==
  /\ pc[t] = "register"
  /\ num_threads_acq' = num_threads_acq + 1
  /\ Goto(t, "wait")
  /\ UNCHANGED <<current_count, amount, old>>

\* The kernel puts the waiter to sleep if there is too little by then.
Arbitrate(t) ==
  /\ pc[t] = "wait"
  /\ Goto(t, IF MustSleep(current_count, amount[t]) THEN "asleep" ELSE "leave")
  /\ UNCHANGED <<current_count, num_threads_acq, amount, old>>

Unregister(t) ==
  /\ pc[t] = "leave"
  /\ num_threads_acq' = num_threads_acq - 1
  /\ Goto(t, "retry")
  /\ UNCHANGED <<current_count, amount, old>>

RetryEnough(t) ==
  /\ pc[t] = "retry"
  /\ current_count >= amount[t]
  /\ current_count' = current_count - amount[t]
  /\ Return(t)
  /\ UNCHANGED num_threads_acq

RetryTooLittle(t) ==
  /\ pc[t] = "retry"
  /\ current_count < amount[t]
  /\ Goto(t, "register")
  /\ UNCHANGED <<current_count, num_threads_acq, amount, old>>

\* LightSemaphore_TryAcquire.  On failure it returns with nothing changed.
TryAcquire(t, n) ==
  /\ pc[t] = "out"
  /\ current_count' =
       IF current_count < n THEN current_count ELSE current_count - n
  /\ UNCHANGED <<num_threads_acq, pc, amount, old>>

\* LightSemaphore_Release stores the new count ...
Release(t, n) ==
  /\ pc[t] = "out"
  /\ current_count' = IF current_count + n >= MaxCount THEN MaxCount
                                                       ELSE current_count + n
  /\ old' = [old EXCEPT ![t] = current_count]
  /\ amount' = [amount EXCEPT ![t] = n]
  /\ Goto(t, "check")
  /\ UNCHANGED num_threads_acq

\* ... then reads the number of waiters ...
CheckWaiters(t) ==
  /\ pc[t] = "check"
  /\ IF old[t] <= 0 \/ num_threads_acq > 0
     THEN Goto(t, "signal") /\ UNCHANGED <<amount, old>>
     ELSE Return(t)
  /\ UNCHANGED <<current_count, num_threads_acq>>

\* ... and the kernel wakes as many of those asleep by then as were released.
Signal(t) ==
  /\ pc[t] = "signal"
  /\ \E W \in Wakeable(Asleep, amount[t]) :
       pc' = [u \in Callers |-> IF u = t THEN "out"
                                ELSE IF u \in W THEN "leave" ELSE pc[u]]
  /\ amount' = [amount EXCEPT ![t] = 0]
  /\ old' = [old EXCEPT ![t] = 0]
  /\ UNCHANGED <<current_count, num_threads_acq>>

\* What a thread does on its own once it has called Acquire or Release.
Proceed(t) ==
  \/ Register(t) \/ Arbitrate(t) \/ Unregister(t)
  \/ RetryEnough(t) \/ RetryTooLittle(t)
  \/ CheckWaiters(t) \/ Signal(t)

Next ==
  \/ \E t \in Callers : Proceed(t)
  \/ \E t \in Acquirers, n \in Needs :
       AcquireEnough(t, n) \/ AcquireTooLittle(t, n) \/ TryAcquire(t, n)
  \/ \E t \in Releasers, n \in Gives : Release(t, n)

\* The kernel runs every runnable thread; nobody has to acquire or release.
Fairness == \A t \in Callers : WF_vars(Proceed(t))

SafetySpec == Init /\ [][Next]_vars

Spec == SafetySpec /\ Fairness

-----------------------------------------------------------------------------

\* The count stays between zero and the maximum: no interleaving of acquiring
\* threads hands out more than there is.
TypeOK ==
  /\ current_count \in 0 .. MaxCount
  /\ num_threads_acq \in 0 .. Cardinality(Callers)
  /\ pc \in [Callers -> Places]
  /\ amount \in [Callers -> Needs \cup Gives \cup {0}]
  /\ old \in [Callers -> 0 .. MaxCount]

\* num_threads_acq is the number of threads between registering and
\* unregistering, although it is not updated together with the count.
CountsRegistered == num_threads_acq = Cardinality(Registered)

\* The abstract semaphore: a thread wants what it asked for until it gets it.
S == INSTANCE Semaphore WITH
       Threads <- Callers,
       count <- current_count,
       want  <- [t \in Callers |-> IF t \in Acquiring THEN amount[t] ELSE 0]

\* LightSemaphore takes and gives what Semaphore may, and with one count for
\* all callers a request that can be met is met.  With different counts the
\* kernel may wake a thread that needs more than there is, while one that
\* could be served sleeps on.
ImplementsSemaphore == S!Spec
=============================================================================

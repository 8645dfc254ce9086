---------------------------- MODULE RecursiveMutex ----------------------------
(***************************************************************************)
(* What RecursiveLock promises its callers: a lock that one thread at a    *)
(* time has, as often as it has entered; a thread that waits for a         *)
(* condition has it not at all, and gets back the one level it gave up.    *)
(* Only a thread itself changes how often it has the lock.                 *)
(***************************************************************************)
EXTENDS Naturals

CONSTANTS Threads, MaxDepth

VARIABLES
  level,       \* thread -> how often it has the lock
  lent         \* the threads that gave up their level to wait for a condition

vars == <<level, lent>>

Init == level = [t \in Threads |-> 0] /\ lent = {}

FreeFor(t) == \A u \in Threads : level[u] > 0 => u = t

Enter(t) ==
  /\ t \notin lent
  /\ FreeFor(t)
  /\ level[t] < MaxDepth
  /\ level' = [level EXCEPT ![t] = @ + 1]
  /\ UNCHANGED lent

Exit(t) ==
  /\ level[t] > 0
  /\ level' = [level EXCEPT ![t] = @ - 1]
  /\ UNCHANGED lent

\* A thread that has the lock more than once may not wait with it.
GiveUp(t) ==
  /\ level[t] = 1
  /\ level' = [level EXCEPT ![t] = 0]
  /\ lent' = lent \cup {t}

TakeBack(t) ==
  /\ t \in lent
  /\ FreeFor(t)
  /\ level' = [level EXCEPT ![t] = 1]
  /\ lent' = lent \ {t}

Next == \E t \in Threads : Enter(t) \/ Exit(t) \/ GiveUp(t) \/ TakeBack(t)

Spec == Init /\ [][Next]_vars
=============================================================================

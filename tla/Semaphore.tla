------------------------------ MODULE Semaphore ------------------------------
(***************************************************************************)
(* What LightSemaphore promises its callers: a count that acquiring never  *)
(* takes below zero and releasing never takes above the maximum, and, as   *)
(* long as everybody asks for the same number, a request that could be met *)
(* does not stay unmet for ever.                                           *)
(***************************************************************************)
EXTENDS Integers

CONSTANTS Threads, Needs, Gives, MaxCount

VARIABLES
  count,     \* how many are left
  want       \* thread -> the number it waits for, 0 if it does not wait

vars == <<count, want>>

Init ==
  /\ count \in 0 .. MaxCount
  /\ want = [t \in Threads |-> 0]

Request(t, n) ==
  /\ want[t] = 0
  /\ want' = [want EXCEPT ![t] = n]
  /\ UNCHANGED count

Acquire(t, n) ==
  /\ want[t] \in {0, n}
  /\ count >= n
  /\ count' = count - n
  /\ want' = [want EXCEPT ![t] = 0]

Release(n) ==
  /\ count' = IF count + n > MaxCount THEN MaxCount ELSE count + n
  /\ UNCHANGED want

Next ==
  \/ \E t \in Threads, n \in Needs : Request(t, n) \/ Acquire(t, n)
  \/ \E n \in Gives : Release(n)

GrantWaiter == \E t \in Threads : want[t] > 0 /\ Acquire(t, want[t])

SafetySpec == Init /\ [][Next]_vars

Spec == SafetySpec /\ WF_vars(GrantWaiter)
=============================================================================

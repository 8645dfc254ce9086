-------------------------------- MODULE Mutex --------------------------------
(***************************************************************************)
(* What LightLock promises its callers: at most one holder, and a lock     *)
(* that is free while somebody wants it is eventually taken.  It promises  *)
(* no order: a thread that has just arrived may overtake the waiting ones, *)
(* and one waiter may wait for ever while others succeed.                  *)
(***************************************************************************)
CONSTANT Threads

VARIABLE status          \* thread -> "idle", "wanting" or "holding"

Init == status = [t \in Threads |-> "idle"]

Free == \A t \in Threads : status[t] # "holding"

Request(t) ==
  /\ status[t] = "idle"
  /\ status' = [status EXCEPT ![t] = "wanting"]

\* A thread takes the free lock, having waited for it or not.
Acquire(t) ==
  /\ status[t] \in {"idle", "wanting"}
  /\ Free
  /\ status' = [status EXCEPT ![t] = "holding"]

Release(t) ==
  /\ status[t] = "holding"
  /\ status' = [status EXCEPT ![t] = "idle"]

Next == \E t \in Threads : Request(t) \/ Acquire(t) \/ Release(t)

GrantWaiter == \E t \in Threads : status[t] = "wanting" /\ Acquire(t)

SafetySpec == Init /\ [][Next]_status

Spec == SafetySpec /\ WF_status(GrantWaiter)
=============================================================================

---------------------------- MODULE AddressArbiter ----------------------------
(***************************************************************************)
(* The kernel's address arbiter, as source/synchronization.c uses it       *)
(* through syncArbitrateAddress.  The kernel is not part of the            *)
(* repository; what is fixed here is only what the callers rely on:        *)
(*   - ARBITRATION_SIGNAL n wakes n of the threads sleeping on the         *)
(*     address, all of them when there are fewer or when n is negative;    *)
(*     which ones is the kernel's choice (the callers assume no order);    *)
(*   - ARBITRATION_WAIT_IF_LESS_THAN v compares the word with v and puts   *)
(*     the caller to sleep in one atomic step.                             *)
(* A signal is not remembered: with nobody asleep it has no effect.        *)
(***************************************************************************)
EXTENDS Integers, FiniteSets

\* The sets of threads that one ARBITRATION_SIGNAL n may wake.
Wakeable(sleepers, n) ==
  IF n < 0 \/ Cardinality(sleepers) <= n
  THEN {sleepers}
  ELSE {W \in SUBSET sleepers : Cardinality(W) = n}

\* Does ARBITRATION_WAIT_IF_LESS_THAN v put the caller to sleep?
MustSleep(word, v) == word < v
=============================================================================

------------------------------ MODULE MCCondVar ------------------------------
(***************************************************************************)
(* CondVar for TLC with more than the one waiter of MCSync: two of them,   *)
(* and a waker that holds the lock and wakes one.                          *)
(***************************************************************************)
EXTENDS CondVar

\* A waker wakes one thread.
OnlyOne == {1}
=============================================================================

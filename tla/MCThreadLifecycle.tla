-------------------------- MODULE MCThreadLifecycle --------------------------
(***************************************************************************)
(* ThreadLifecycle for TLC.  Every thread is created once, so that nothing *)
(* needs a bound; a run's Uses say what is done with the threads.          *)
(***************************************************************************)
EXTENDS ThreadLifecycle
=============================================================================

----------------------------- MODULE MCLightEvent -----------------------------
(***************************************************************************)
(* LightEvent for TLC, for both reset types.  No bound beside the numbers  *)
(* of threads: every variable is finite.                                   *)
(***************************************************************************)
EXTENDS LightEvent
=============================================================================

-------------------------- MODULE MCResponseQueue --------------------------
(***************************************************************************)
(* Instances of ResponseQueue for TLC.                                     *)
(***************************************************************************)
EXTENDS ResponseQueue
=============================================================================

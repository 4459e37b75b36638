----------------------------- MODULE MCDthread -----------------------------
(***************************************************************************)
(* Instances of Dthread for TLC.                                           *)
(***************************************************************************)
EXTENDS Dthread
=============================================================================

------------------------- MODULE MCDthreadPipeline -------------------------
(***************************************************************************)
(* Instances of DthreadPipeline for TLC.                                   *)
(***************************************************************************)
EXTENDS DthreadPipeline
=============================================================================

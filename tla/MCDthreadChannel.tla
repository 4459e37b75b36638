-------------------------- MODULE MCDthreadChannel --------------------------
(***************************************************************************)
(* Instances of DthreadChannel for TLC.                                    *)
(***************************************************************************)
EXTENDS DthreadChannel
=============================================================================

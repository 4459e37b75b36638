--------------------------- MODULE MCMariadbPool ---------------------------
(***************************************************************************)
(* Instances of MariadbPool for TLC.  Connections are interchangeable.     *)
(***************************************************************************)
EXTENDS MariadbPool, TLC

\* Everything may fail, or nothing.
AllOrNone == {{}, {"connect", "used", "idle"}}

ConnSymmetry == Permutations(Conns)
=============================================================================

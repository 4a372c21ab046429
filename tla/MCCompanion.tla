---------------------------- MODULE MCCompanion ----------------------------
(***************************************************************************)
(* Companion for TLC.  No symmetry: liveness is checked.                   *)
(***************************************************************************)
EXTENDS Companion

CONSTANTS t1, d1, d2
=============================================================================

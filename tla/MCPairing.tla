----------------------------- MODULE MCPairing -----------------------------
(***************************************************************************)
(* Small instances of Pairing for TLC.                                     *)
(***************************************************************************)
EXTENDS Pairing, TLC

CONSTANTS t1, t2, d1, d2

\* Terminals run the same commands, and devices differ in nothing.
PairingSymmetry == Permutations(Terminals) \cup Permutations(Devices)
=============================================================================

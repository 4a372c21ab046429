----------------------------- MODULE MCBoundary -----------------------------
(***************************************************************************)
(* Boundary for TLC: two hosts and two ports are enough for a URL to lead  *)
(* to the school, to its host on another port, or elsewhere.               *)
(***************************************************************************)
EXTENDS Boundary

CONSTANTS school, elsewhere

MCPorts == {443, 8443}
=============================================================================

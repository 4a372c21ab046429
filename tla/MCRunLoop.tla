----------------------------- MODULE MCRunLoop -----------------------------
(***************************************************************************)
(* RunLoop with the constants of the program for TLC: a dial or a session  *)
(* takes no time, 15 s (the handshake timeout) or 40 s (more than Stable); *)
(* the jitter takes its extremes and its middle.                           *)
(***************************************************************************)
EXTENDS RunLoop

MCDurations == {0, 15000, 40000}
MCJitters == {75, 100, 125}
=============================================================================

---------------------------- MODULE MCWsReader ----------------------------
(***************************************************************************)
(* WsReader for TLC: payloads on both sides of the limits of a control     *)
(* frame and of the two-byte length, and a message limit that exactly one  *)
(* sum of two of them meets.                                               *)
(***************************************************************************)
EXTENDS WsReader

MCSizes == {0, 125, 126, 65535, 65536, 65662}
=============================================================================

------------------------------ MODULE MCWsConn ------------------------------
(***************************************************************************)
(* WsConn for TLC with the limits of the program: a short body, the        *)
(* longest one, and the longest one when all of it is "<" in a string.     *)
(***************************************************************************)
EXTENDS WsConn

CONSTANTS worker, reader, heartbeat

Body(size, escaped) == [size |-> size, blank |-> 0, escaped |-> escaped]
MCBodies == {Body(2, 0), Body(16777216, 0), Body(16777216, 16777214)}
=============================================================================

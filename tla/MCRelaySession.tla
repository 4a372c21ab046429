--------------------------- MODULE MCRelaySession ---------------------------
(***************************************************************************)
(* Small instances of RelaySession for TLC.  Two requests share an id,     *)
(* where MCIdOf3 does not give each its own.                               *)
(***************************************************************************)
EXTENDS RelayRefinement, RelayInvariant, TLC

CONSTANTS r1, r2, r3, a, b, w1, w2

MCIds == {a, b}
MCIdOf == (r1 :> a) @@ (r2 :> a) @@ (r3 :> b)
MCIdOf2 == (r1 :> a) @@ (r2 :> a)
MCIdOf3 == (r1 :> a) @@ (r2 :> b)
OneOf == {r1}
Second == {r2}
Nobody == {}

WorkerSymmetry == Permutations({w1, w2})
=============================================================================

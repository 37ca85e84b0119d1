--------------------------- MODULE MCLocalTakeover ---------------------------
(***************************************************************************)
(* Model checking LocalTakeover: load uuids are interchangeable.           *)
(***************************************************************************)
EXTENDS LocalTakeover, TLC

Symmetry == Permutations(Uuids)
==============================================================================

---------------------------- MODULE MCPlayerQueue ----------------------------
(***************************************************************************)
(* An instance of PlayerQueue: two rows of one song and one row that       *)
(* cannot be played, and replacements that reorder and drop rows. The two  *)
(* copies differ in nothing, so TLC may exchange them.                     *)
(***************************************************************************)
EXTENDS PlayerQueue, TLC

CONSTANTS a1, a2, b

SmallRows == {a1, a2, b}
SmallSongs == [r \in SmallRows |-> IF r = b THEN "b" ELSE "a"]
SmallQueues == {<<a1, a2>>, <<a2, a1>>}
CopiesAlike == Permutations({a1, a2})
==============================================================================

--------------------------- MODULE MCQueueReducer ---------------------------
(***************************************************************************)
(* Model checking QueueReducer: the ids of queue items are interchangeable.*)
(***************************************************************************)
EXTENDS QueueReducer

\* Kept is the standard SelectSeq.
ASSUME KeptIsSelectSeq ==
    \A n \in 0..4 : \A s \in [1..n -> 1..3], S \in SUBSET (1..3) :
       Kept(s, S) = SelectSeq(s, LAMBDA e : e \in S)

Symmetry == Permutations(Ids)
==============================================================================

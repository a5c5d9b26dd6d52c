---------------------------- MODULE MCMetanode ------------------------------
(* Metanode on three nodes: three voters from the start, or two and a third *)
(* that joins, is promoted and may be removed.                              *)
EXTENDS Metanode, TLC
CONSTANTS n1, n2, n3

TwoOrThree == {{n1, n2}, {n1, n2, n3}}
Three == {{n1, n2, n3}}
ThirdJoins ==
  [v \in TwoOrThree |->
     IF n3 \in v THEN {} ELSE {<<"learner", n3>>, <<"voter", n3>>, <<"remove", n3>>}]
NoChange == [v \in Three |-> {}]
Symmetry == Permutations(Op) \cup Permutations({n1, n2})
=============================================================================

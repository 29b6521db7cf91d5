----------------------------- MODULE MCUpdateFlow -----------------------------
(* Instances of UpdateFlow for TLC. *)
EXTENDS UpdateFlow, TLC

CONSTANTS p1, p2, p3

ThreePosts == {p1, p2, p3}

Posts_Symmetric == Permutations(ThreePosts)
===============================================================================

------------------------ MODULE MCReturnCorrection ------------------------
(* Two requests on one return order, or on each other's version. *)
EXTENDS ReturnCorrection, TLC

CONSTANTS o1, r1, r2, a1, s1

Symmetry == Permutations(Requests)
=============================================================================

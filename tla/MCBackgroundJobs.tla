------------------------- MODULE MCBackgroundJobs -------------------------
(* An export with two attempts and an import commit with one. *)
EXTENDS BackgroundJobs, TLC

CONSTANTS export, commit, w1, w2

MCMaxAttempts == [j \in Jobs |-> IF j = commit THEN 1 ELSE 2]
Symmetry == Permutations(Workers)
=============================================================================

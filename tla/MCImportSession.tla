-------------------------- MODULE MCImportSession --------------------------
(* Two files that have an order in common, of one product. *)
EXTENDS ImportSession, TLC

CONSTANTS s1, s2, a1, a2, u1, c1, c2

MCFile == s1 :> {1, 2} @@ s2 :> {1}
MCSelections == s1 :> {{1, 2}} @@ s2 :> {{1}}
MCWant == <<1, 2>>
MCMoves == {1, -1}

Symmetry == Permutations(Attempts) \cup Permutations(Commits) \cup Permutations(Popups)
=============================================================================

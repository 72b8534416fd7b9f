----------------------------- MODULE MCCloseout -----------------------------
(* One order, sold for 3, of which 1 or 4 may be recorded as paid. *)
EXTENDS Closeout, TLC

CONSTANTS o1, c1, c2, k

Symmetry == Permutations(Calls)

Adjust(p, r, key, mode) ==
    [op |-> "adjust", paid |-> p, ret |-> r, key |-> key, mode |-> mode]

MCRequests ==
    {[op |-> "payment", paid |-> 1], [op |-> "return", ret |-> 1],
     [op |-> "closeout"],
     Adjust(1, None, None, "expected"), Adjust(4, None, None, "batch"),
     Adjust(4, None, k, "plain"), Adjust(1, None, k, "expected"),
     Adjust(4, 1, None, "plain")}
=============================================================================

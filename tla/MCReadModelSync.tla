-------------------------- MODULE MCReadModelSync --------------------------
(* One customer with two orders: closed together, or one of them again. *)
EXTENDS ReadModelSync

CONSTANTS c1, s1, s2, w1, x1

MCCustomerOf == [s \in {s1, s2} |-> c1]
MCJobs == {[customer |-> c1, sources |-> {s1, s2}],
           [customer |-> c1, sources |-> {s1}]}

MCMaxPosts == [s \in {s1, s2} |-> IF s = s1 THEN 2 ELSE 1]
=============================================================================

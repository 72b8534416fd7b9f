--------------------------- MODULE MCOutboxRelay ---------------------------
(* `again` repeats the request of `order`; `other` uses the same key for     *)
(* another command.                                                          *)
EXTENDS OutboxRelay, TLC

CONSTANTS order, again, other, k, create, approve, p1, p2

MCKeyOf  == [c \in Commands |-> k]
MCNameOf == [c \in Commands |-> IF c = other THEN approve ELSE create]
=============================================================================

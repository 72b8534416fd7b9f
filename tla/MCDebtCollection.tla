-------------------------- MODULE MCDebtCollection --------------------------
(* A sales order, which a return may credit, and an external debt order.    *)
(* Amounts are in units above the tolerance unless a run says otherwise.    *)
EXTENDS DebtCollection, TLC

CONSTANTS sale, ext, first, both, other, k, a1, a2

Amounts(s, e) == [o \in Orders |-> IF o = sale THEN s ELSE e]

MCDebt   == Amounts(5, 5)
MCCredit == Amounts(3, 0)
MCIdOf   == Amounts(1, 2)
MCCodeOf == Amounts(3, 4)

\* `other` repeats the key of `first` for other orders; `both` is another
\* collector's call.
MCAlloc == [c \in Calls |->
    CASE c = first -> Amounts(3, 0)
      [] c = both  -> Amounts(3, 2)
      [] c = other -> Amounts(2, 2)]

MCKeyOf == [c \in Calls |-> IF c = both THEN NoKey ELSE k]
=============================================================================

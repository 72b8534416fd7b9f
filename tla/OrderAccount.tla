---------------------------- MODULE OrderAccount ----------------------------
(***************************************************************************)
(* What the accounts promise of a delivered order: until it is closed out, *)
(* the payment on it may be set; closing out opens its account with what   *)
(* is then owed; afterwards corrections form one line of versions, each of *)
(* which moves the balance by what it changes in the payment, and receipts *)
(* lower the balance.                                                      *)
(***************************************************************************)
EXTENDS Integers

CONSTANTS
    Orders,
    Payments,      \* amounts that may be recorded as paid
    Returned,      \* amounts of goods that may come back
    Receipts,      \* amounts of later receipts
    Receivable,    \* what an order is sold for
    Tolerance      \* an overpayment up to this amount stays on the account

VARIABLES closed, paid, version, balance

accounts == <<closed, paid, version, balance>>

\* A larger overpayment is written off when the account is opened.
Opening(owed) == IF owed < -Tolerance THEN 0 ELSE owed

Init ==
    /\ closed = [o \in Orders |-> FALSE]
    /\ paid = [o \in Orders |-> 0]
    /\ version = [o \in Orders |-> 0]
    /\ balance = [o \in Orders |-> 0]

SetPayment(o, p) ==
    /\ ~closed[o]
    /\ paid' = [paid EXCEPT ![o] = p]
    /\ UNCHANGED <<closed, version, balance>>

CloseOut(o, r) ==
    /\ ~closed[o]
    /\ closed' = [closed EXCEPT ![o] = TRUE]
    /\ version' = [version EXCEPT ![o] = 1]
    /\ balance' = [balance EXCEPT ![o] = Opening(Receivable - paid[o] - r)]
    /\ UNCHANGED paid

Correct(o, p) ==
    /\ closed[o]
    /\ paid' = [paid EXCEPT ![o] = p]
    /\ version' = [version EXCEPT ![o] = version[o] + 1]
    /\ balance' = [balance EXCEPT ![o] = balance[o] - (p - paid[o])]
    /\ UNCHANGED closed

TakeReceipt(o, a) ==
    /\ closed[o]
    /\ a <= balance[o]
    /\ balance' = [balance EXCEPT ![o] = balance[o] - a]
    /\ UNCHANGED <<closed, paid, version>>

Next ==
    \E o \in Orders :
        \/ \E p \in Payments : SetPayment(o, p) \/ Correct(o, p)
        \/ \E r \in Returned : CloseOut(o, r)
        \/ \E a \in Receipts : TakeReceipt(o, a)

Spec == Init /\ [][Next]_accounts
=============================================================================

------------------------------ MODULE DebtBook ------------------------------
(***************************************************************************)
(* What the collection of debts promises, as if one person kept the book:  *)
(* a slip is entered once for its key, and reserves its amounts out of     *)
(* what is left of its orders; it is then confirmed, which pays them, or   *)
(* rejected, which frees them.  Others credit orders without looking into  *)
(* the book; an entry goes by the credits it found when it began.          *)
(***************************************************************************)
EXTENDS Integers

CONSTANTS
    Orders, Debt,
    Credit,         \* what others may credit an order with
    Slips, Amount,  \* amount of a slip on an order
    KeyOf, NoKey,
    Clerks

VARIABLES
    slip,           \* absent, submitted, accounting_confirmed or rejected
    reserved,       \* by order: what its slips claim that are not rejected
    paid,           \* by order: what is confirmed
    credited,       \* orders with a credit
    known           \* the credits a slip or a clerk goes by, if any

book == <<slip, reserved, paid, credited, known>>

Init ==
    /\ slip = [s \in Slips |-> "absent"]
    /\ reserved = [o \in Orders |-> 0]
    /\ paid = [o \in Orders |-> 0]
    /\ credited = {}
    /\ known = [t \in Slips \cup Clerks |-> {}]

Forget(t) == known' = [known EXCEPT ![t] = {}]

Begin(t) ==
    /\ known[t] = {}
    /\ known' = [known EXCEPT ![t] = {credited}]
    /\ UNCHANGED <<slip, reserved, paid, credited>>

Leave(t) ==
    /\ Forget(t)
    /\ UNCHANGED <<slip, reserved, paid, credited>>

\* On each of its orders s fits what is left beside `used`.
Fits(s, used, seen) ==
    \A o \in Orders : Amount[s][o] > 0 =>
        used[o] + Amount[s][o] <= Debt[o] - (IF o \in seen THEN Credit[o] ELSE 0)

Enter(s) ==
    /\ slip[s] = "absent"
    /\ \A r \in Slips : KeyOf[s] # NoKey /\ KeyOf[r] = KeyOf[s] => slip[r] = "absent"
    /\ \E seen \in known[s] : Fits(s, reserved, seen)
    /\ slip' = [slip EXCEPT ![s] = "submitted"]
    /\ reserved' = [o \in Orders |-> reserved[o] + Amount[s][o]]
    /\ Forget(s)
    /\ UNCHANGED <<paid, credited>>

Confirm(a, s) ==
    /\ slip[s] = "submitted"
    /\ \E seen \in known[a] : Fits(s, paid, seen)
    /\ slip' = [slip EXCEPT ![s] = "accounting_confirmed"]
    /\ paid' = [o \in Orders |-> paid[o] + Amount[s][o]]
    /\ Forget(a)
    /\ UNCHANGED <<reserved, credited>>

Reject(s) ==
    /\ slip[s] = "submitted"
    /\ slip' = [slip EXCEPT ![s] = "rejected"]
    /\ reserved' = [o \in Orders |-> reserved[o] - Amount[s][o]]
    /\ UNCHANGED <<paid, credited, known>>

CreditOrder(o) ==
    /\ credited' = credited \cup {o}
    /\ UNCHANGED <<slip, reserved, paid, known>>

Next ==
    \/ \E t \in Slips \cup Clerks : Begin(t) \/ Leave(t)
    \/ \E s \in Slips : Enter(s) \/ Reject(s)
    \/ \E a \in Clerks, s \in Slips : Confirm(a, s)
    \/ \E o \in Orders : CreditOrder(o)

Spec == Init /\ [][Next]_book
=============================================================================

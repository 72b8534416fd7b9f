--------------------------- MODULE DebtCollection ---------------------------
(***************************************************************************)
(* Collecting a customer's debt, as DebtCollectionService.js and the check *)
(* of DebtReadService.js do it: staff submit collections against debt      *)
(* orders, accountants confirm or reject them, and a confirmation posts    *)
(* the receipt to the AR ledger and the cash to the fund ledger.           *)
(*                                                                         *)
(* submit and confirm run in MongoDB transactions.  A transaction reads    *)
(* from the snapshot `snap` of its first read; `changed` are the documents *)
(* others have written since; to write one of those, or one that another   *)
(* open transaction has written, is a write conflict, after which          *)
(* withTransaction runs the callback again on a new snapshot.              *)
(*                                                                         *)
(* A submitCall creates at most one collection, so calls name collections. *)
(* Receipts and fund entries are sets: unique ids make a second upsert of  *)
(* the same one a no-op.  What is not about amounts, keys and order names  *)
(* (who may collect what, texts, timestamps) is left out: a call that is   *)
(* refused for it ends like one refused for the amount.                    *)
(***************************************************************************)
EXTENDS Integers, FiniteSets, Functions

CONSTANTS
    Orders,          \* orders with a debit row in the AR ledger
    ExternalOrders,  \* those of type external_debt, which have a document
    Debt,            \* the debit of an order
    Credit,          \* a credit other modules (returns, ...) may post on it
    Tolerance,       \* DEBT_ZERO_TOLERANCE
    Calls,           \* calls of submitDebtCollection
    Alloc,           \* amount a call allocates to an order, 0: not allocated
    KeyOf, NoKey,    \* idempotency key of a call
    CodeOnly,        \* calls whose allocations carry no salesOrderId
    IdOf, CodeOf,    \* names of an order; numbers, for their sort order
    Clerks,          \* accountants
    NoDoc            \* what a clerk works on between confirmations

ASSUME DebtCollectionAssumption ==
    /\ ExternalOrders \subseteq Orders
    /\ Debt \in [Orders -> Nat]
    /\ Credit \in [Orders -> Nat]
    /\ Tolerance \in Nat
    /\ Alloc \in [Calls -> [Orders -> Nat]]
    /\ CodeOnly \subseteq Calls
    /\ IdOf \in [Orders -> Nat]
    /\ CodeOf \in [Orders -> Nat]
    /\ Calls \cap Clerks = {}
    /\ NoDoc \notin Calls

VARIABLES
    \* the database: status of the collections, AR receipts and fund entries
    \* by collection, orders with a foreign credit, external debt documents
    col, receipts, fund, credited, external,
    \* a submit call: where it is, locks it has ensured, locks it has written
    pc, ensured, held,
    \* an accountant's confirmation: the collection it works on
    doc,
    \* transactions
    snap, changed

database == <<col, receipts, fund, credited, external>>
vars == <<database, pc, ensured, held, doc, snap, changed>>

Active == {"submitted", "accounting_confirmed"}
Status == {"absent", "rejected"} \cup Active
Ended  == {"created", "existed", "refused", "duplicate_key", "lost"}

OrdersOf(c) == {o \in Orders : Alloc[c][o] > 0}

\* canonicalDebtOrderIdentity: the order's id where the caller sent one, or
\* else its code.
LockName(c, o) == IF c \in CodeOnly THEN CodeOf[o] ELSE IdOf[o]
LocksOf(c) == {LockName(c, o) : o \in OrdersOf(c)}

LockNames == {IdOf[o] : o \in Orders} \cup {CodeOf[o] : o \in Orders}
Keys      == {KeyOf[c] : c \in Calls} \ {NoKey}
Txns      == Calls \cup Clerks
Documents == ({"lock"} \X LockNames) \cup ({"collection"} \X Calls)
               \cup ({"key"} \X Keys) \cup ({"external"} \X ExternalOrders)

Snapshot == [col : [Calls -> Status], receipts : SUBSET Calls, credited : SUBSET Orders]
NoSnapshot == [col |-> [c \in Calls |-> "absent"], receipts |-> {}, credited |-> {}]
Now == [col |-> col, receipts |-> receipts, credited |-> credited]

TypeOK ==
    /\ col \in [Calls -> Status]
    /\ receipts \subseteq Calls
    /\ fund \subseteq Calls
    /\ credited \subseteq Orders
    /\ DOMAIN external = ExternalOrders
    /\ \A o \in ExternalOrders : external[o].paid \in Nat
    /\ pc \in [Calls -> {"idle", "preparing", "open"} \cup Ended]
    /\ ensured \in [Calls -> SUBSET LockNames]
    /\ held \in [Calls -> SUBSET LockNames]
    /\ doc \in [Clerks -> Calls \cup {NoDoc}]
    /\ snap \in [Txns -> Snapshot]
    /\ changed \in [Txns -> SUBSET Documents]

Init ==
    /\ col = [c \in Calls |-> "absent"]
    /\ receipts = {}
    /\ fund = {}
    /\ credited = {}
    /\ external = [o \in ExternalOrders |-> [paid |-> 0, remaining |-> Debt[o]]]
    /\ pc = [c \in Calls |-> "idle"]
    /\ ensured = [c \in Calls |-> {}]
    /\ held = [c \in Calls |-> {}]
    /\ doc = [a \in Clerks |-> NoDoc]
    /\ snap = [t \in Txns |-> NoSnapshot]
    /\ changed = [t \in Txns |-> {}]

-----------------------------------------------------------------------------
(* Transactions *)

Open(t) == IF t \in Calls THEN pc[t] = "open" ELSE doc[t] # NoDoc

\* t takes its snapshot.
Start(t) ==
    /\ snap' = [snap EXCEPT ![t] = Now]
    /\ changed' = [changed EXCEPT ![t] = {}]

\* t ends, or aborts, with the documents of W written.  The transactions
\* that stay open will conflict if they write one of W.
Finish(t, W) ==
    /\ snap' = [snap EXCEPT ![t] = NoSnapshot]
    /\ changed' = [u \in Txns |-> IF u = t THEN {}
                                  ELSE IF Open(u) THEN changed[u] \cup W ELSE {}]

\* A write of W outside a transaction.
Write(W) ==
    /\ UNCHANGED snap
    /\ changed' = [u \in Txns |-> IF Open(u) THEN changed[u] \cup W ELSE {}]

Lock(n) == <<"lock", n>>
Locks(N) == {Lock(n) : n \in N}

\* The index entry for c's idempotency key, if it has one.
KeyDoc(c) == IF KeyOf[c] = NoKey THEN {} ELSE {<<"key", KeyOf[c]>>}

-----------------------------------------------------------------------------
(* checkAvailableDebt *)

\* What the collections of C allocate to o.
Allocated(C, o) == SumFunctionOnSet([c \in Calls |-> Alloc[c][o]], C)

Balance_NoCredits(db, o) == Debt[o] - Allocated(db.receipts, o)  \* mutant: debits less receipts

Balance(db, o) ==
    Debt[o] - (IF o \in db.credited THEN Credit[o] ELSE 0) - Allocated(db.receipts, o)

\* normalizeDebtAmount
Normalize(x) == IF x \in -Tolerance..Tolerance THEN 0 ELSE x

PendingOn_None(db, o, except) == 0  \* mutant: pending collections ignored

PendingOn(db, o, except) ==
    Allocated({d \in Calls \ except : db.col[d] = "submitted"}, o)

\* Every allocation of c fits what is left of its order, in db.
Available(db, c, except) ==
    \A o \in OrdersOf(c) :
        Alloc[c][o] <= Normalize(Normalize(Balance(db, o)) - PendingOn(db, o, except))

-----------------------------------------------------------------------------
(* submitDebtCollection *)

Submit(c) ==
    /\ pc[c] = "idle"
    /\ OrdersOf(c) # {}
    /\ pc' = [pc EXCEPT ![c] = "preparing"]
    /\ UNCHANGED <<database, ensured, held, doc, snap, changed>>

NextLock_Unsorted(c, done, n) == n \in LocksOf(c) \ done  \* mutant: no sort()

\* The order keys are sorted.
NextLock(c, done, n) ==
    /\ n \in LocksOf(c) \ done
    /\ \A m \in LocksOf(c) \ done : n <= m

\* ensureDebtCollectionLocks: an upsert outside the transaction; it waits for
\* a transaction that has written the lock document.
EnsureLock(c) ==
    /\ pc[c] = "preparing"
    /\ \E n \in LockNames :
         /\ NextLock(c, ensured[c], n)
         /\ \A d \in Calls : n \notin held[d]
         /\ ensured' = [ensured EXCEPT ![c] = @ \cup {n}]
         /\ Write({Lock(n)})
    /\ UNCHANGED <<database, pc, held, doc>>

SameKey(c, d) == KeyOf[c] # NoKey /\ KeyOf[d] = KeyOf[c]

\* The idempotency lookup finds a collection.
Existing(c) == \E d \in Calls : SameKey(c, d) /\ col[d] \in Active

AnswerExisting(c) ==
    /\ pc[c] = "preparing"
    /\ ensured[c] = LocksOf(c)
    /\ Existing(c)
    /\ pc' = [pc EXCEPT ![c] = "existed"]
    /\ UNCHANGED <<database, ensured, held, doc, snap, changed>>

OpenSubmit(c) ==
    /\ pc[c] = "preparing"
    /\ ensured[c] = LocksOf(c)
    /\ ~Existing(c)
    /\ pc' = [pc EXCEPT ![c] = "open"]
    /\ Start(c)
    /\ UNCHANGED <<database, ensured, held, doc>>

LockConflict_OnlyHeld(c, n) ==  \* mutant: a lock changed since the snapshot is taken
    \E d \in Calls : n \in held[d]

LockConflict(c, n) ==
    \/ Lock(n) \in changed[c]
    \/ \E d \in Calls : n \in held[d]

LockOrder(c) ==
    /\ pc[c] = "open"
    /\ \E n \in LockNames :
         /\ NextLock(c, held[c], n)
         /\ ~LockConflict(c, n)
         /\ held' = [held EXCEPT ![c] = @ \cup {n}]
    /\ UNCHANGED <<database, pc, ensured, doc, snap, changed>>

\* The callback runs again after a conflict, on a lock or on the unique key.
Retry(c) ==
    /\ pc[c] = "open"
    /\ \/ \E n \in LockNames : NextLock(c, held[c], n) /\ LockConflict(c, n)
       \/ /\ held[c] = LocksOf(c)
          /\ Available(snap[c], c, {})
          /\ KeyDoc(c) \cap changed[c] # {}
    /\ pc' = [pc EXCEPT ![c] = "preparing"]
    /\ held' = [held EXCEPT ![c] = {}]
    /\ Finish(c, {})
    /\ UNCHANGED <<database, ensured, doc>>

\* A refusal returns from the callback: the transaction commits, and with it
\* the new versions of the locks.
Refuse(c) ==
    /\ pc[c] = "open"
    /\ held[c] = LocksOf(c)
    /\ ~Available(snap[c], c, {})
    /\ pc' = [pc EXCEPT ![c] = "refused"]
    /\ held' = [held EXCEPT ![c] = {}]
    /\ Finish(c, Locks(held[c]))
    /\ UNCHANGED <<database, ensured, doc>>

KeyTaken_ByActive(c) ==  \* mutant: the index covers active collections only
    \E d \in Calls : SameKey(c, d) /\ snap[c].col[d] \in Active

\* The unique index on idempotencyKey counts every collection, the lookup
\* only active ones.
KeyTaken(c) == \E d \in Calls : SameKey(c, d) /\ snap[c].col[d] # "absent"

Create(c) ==
    /\ pc[c] = "open"
    /\ held[c] = LocksOf(c)
    /\ Available(snap[c], c, {})
    /\ KeyDoc(c) \cap changed[c] = {}
    /\ held' = [held EXCEPT ![c] = {}]
    /\ IF KeyTaken(c)
       THEN /\ pc' = [pc EXCEPT ![c] = "duplicate_key"]
            /\ Finish(c, {})
            /\ UNCHANGED col
       ELSE /\ pc' = [pc EXCEPT ![c] = "created"]
            /\ col' = [col EXCEPT ![c] = "submitted"]
            /\ Finish(c, Locks(held[c]) \cup KeyDoc(c) \cup {<<"collection", c>>})
    /\ UNCHANGED <<receipts, fund, credited, external, ensured, doc>>

\* The server dies or the driver gives up; the transaction is rolled back.
Lose(c) ==
    /\ pc[c] \in {"preparing", "open"}
    /\ pc' = [pc EXCEPT ![c] = "lost"]
    /\ held' = [held EXCEPT ![c] = {}]
    /\ Finish(c, {})
    /\ UNCHANGED <<database, ensured, doc>>

-----------------------------------------------------------------------------
(* confirmDebtCollection, rejectDebtCollection *)

\* A collection that is missing or confirmed already is answered at once, as
\* is a received amount that differs from the collected one.
OpenConfirm(a, c) ==
    /\ doc[a] = NoDoc
    /\ col[c] = "submitted"
    /\ doc' = [doc EXCEPT ![a] = c]
    /\ Start(a)
    /\ UNCHANGED <<database, pc, ensured, held>>

ExternalOf(c) == OrdersOf(c) \cap ExternalOrders
ConfirmWrites(c) == {<<"collection", c>>} \cup {<<"external", o>> : o \in ExternalOf(c)}

ConfirmConflict_CollectionOnly(a) ==  \* mutant: blind write of the external order
    <<"collection", doc[a]>> \in changed[a]

ConfirmConflict(a) == ConfirmWrites(doc[a]) \cap changed[a] # {}

EndConfirm(a, W) ==
    /\ doc' = [doc EXCEPT ![a] = NoDoc]
    /\ Finish(a, W)

ConfirmPasses_Unchecked(a) == TRUE  \* mutant: the debt is not checked again

\* The check leaves the collection itself out of what is pending.
ConfirmPasses(a) == Available(snap[a], doc[a], {doc[a]})

RefuseConfirm(a) ==
    /\ doc[a] # NoDoc
    /\ ~ConfirmPasses(a)
    /\ EndConfirm(a, {})
    /\ UNCHANGED <<database, pc, ensured, held>>

\* The writes of the transaction, which take effect together: receipts, the
\* external orders, the cash, and the collection.
Confirm(a) ==
    /\ doc[a] # NoDoc
    /\ ConfirmPasses(a)
    /\ ~ConfirmConflict(a)
    /\ receipts' = receipts \cup {doc[a]}
    /\ external' = [o \in ExternalOrders |->
         IF o \in ExternalOf(doc[a])
         THEN [paid      |-> external[o].paid + Alloc[doc[a]][o],
               remaining |-> Normalize(Balance(snap[a], o)) - Alloc[doc[a]][o]]
         ELSE external[o]]
    /\ fund' = fund \cup {doc[a]}
    /\ col' = [col EXCEPT ![doc[a]] = "accounting_confirmed"]
    /\ EndConfirm(a, ConfirmWrites(doc[a]))
    /\ UNCHANGED <<credited, pc, ensured, held>>

\* The conflict (the callback then starts over, as OpenConfirm does), a crash.
AbortConfirm(a) ==
    /\ doc[a] # NoDoc
    /\ EndConfirm(a, {})
    /\ UNCHANGED <<database, pc, ensured, held>>

RejectApplies_Active(c) == col[c] \in Active  \* mutant: confirmed ones too

RejectApplies(c) == col[c] = "submitted"

\* One findOneAndUpdate outside any transaction.
Reject(c) ==
    /\ RejectApplies(c)
    /\ col' = [col EXCEPT ![c] = "rejected"]
    /\ Write({<<"collection", c>>})
    /\ UNCHANGED <<receipts, fund, credited, external, pc, ensured, held, doc>>

\* Another module credits an order: it inserts a row of its own into the AR
\* ledger, and touches no document a collection writes.
CreditOrder(o) ==
    /\ Credit[o] > 0
    /\ o \notin credited
    /\ credited' = credited \cup {o}
    /\ UNCHANGED <<col, receipts, fund, external, pc, ensured, held, doc, snap, changed>>

-----------------------------------------------------------------------------
Advance(c) ==
    \/ EnsureLock(c) \/ AnswerExisting(c) \/ OpenSubmit(c)
    \/ LockOrder(c) \/ Retry(c) \/ Refuse(c) \/ Create(c)

Next ==
    \/ \E c \in Calls : Submit(c) \/ Advance(c) \/ Lose(c) \/ Reject(c)
    \/ \E a \in Clerks : \/ \E c \in Calls : OpenConfirm(a, c)
                         \/ RefuseConfirm(a) \/ Confirm(a) \/ AbortConfirm(a)
    \/ \E o \in Orders : CreditOrder(o)

Spec == Init /\ [][Next]_vars

\* A call the server is working on goes on.
FairSpec == Spec /\ \A c \in Calls : WF_vars(Advance(c))

-----------------------------------------------------------------------------
(* Properties *)

\* What staff have collected on an order and accounting has not rejected never
\* exceeds its debt, whoever submits at the same time: checkAvailableDebt is
\* made under the order's lock (DebtCollectionService.js:150-180).
NoOverCollection ==
    \A o \in Orders : Allocated({c \in Calls : col[c] \in Active}, o) <= Debt[o]

\* A transaction that has written an order's lock reads from a snapshot with
\* every collection on that order: what DebtCollectionLock is for
\* (DebtCollectionLock.js:5-6), although the lock is written after the
\* snapshot is taken.
HolderSeesEveryCollection ==
    \A c, d \in Calls :
        /\ col[d] # "absent"
        /\ held[c] \cap LocksOf(d) # {}
        => snap[c].col[d] # "absent"

\* A collection has a receipt in the AR ledger and an entry in the fund ledger
\* if it is confirmed and only then: no posting survives a lost race with a
\* rejection or another confirmation (confirmDebtCollection).
PostedIffConfirmed ==
    /\ receipts = {c \in Calls : col[c] = "accounting_confirmed"}
    /\ fund = receipts

\* However often a client repeats a command, and whatever became of the first
\* answer, one idempotency key makes one collection.
OneCollectionPerKey ==
    \A c, d \in Calls :
        c # d /\ SameKey(c, d) => col[c] = "absent" \/ col[d] = "absent"

\* A repeated command fails on the unique key only where accounting has
\* rejected the collection: it is never an error because the first attempt
\* succeeded (the lookup of submitDebtCollection).
RepeatIsAnswered ==
    \A c \in Calls : pc[c] = "duplicate_key" =>
        \E d \in Calls \ {c} : SameKey(c, d) /\ col[d] = "rejected"

\* An external debt order carries what the ledger says of it, whichever
\* collections on it are confirmed at the same time: $inc paidAmount and the
\* computed remainingDebt are not applied twice or from an old balance.
ExternalOrderMirrorsLedger ==
    \A o \in ExternalOrders :
        /\ external[o].paid = Allocated(receipts, o)
        /\ external[o].remaining = Balance(Now, o)

\* The accountant's decision is final: confirming and rejecting exclude each
\* other, and neither is taken back.
DecisionIsFinal ==
    [][\A c \in Calls : col[c] \in {"accounting_confirmed", "rejected"} => col'[c] = col[c]]_vars

\* A confirmation credits no order beyond its debt, unless another module
\* credited one since the confirmation's snapshot: the check counts what
\* others have submitted, and leaves out the collection itself.
FreshConfirmNeverOverdraws ==
    [][\A a \in Clerks : Confirm(a) /\ credited = snap[a].credited =>
         \A o \in OrdersOf(doc[a]) : Balance(Now', o) >= 0]_vars

\* What the collections of a state are to the book that DebtBook keeps.
Book == INSTANCE DebtBook WITH
    Slips <- Calls,
    Amount <- Alloc,
    slip <- col,
    reserved <- [o \in Orders |-> Allocated({c \in Calls : col[c] \in Active}, o)],
    paid <- [o \in Orders |-> Allocated(receipts, o)],
    known <- [t \in Txns |-> IF Open(t) THEN {snap[t].credited} ELSE {}]

\* Concurrent submissions, confirmations and rejections do what one person's
\* entries into one book would do (DebtBook): each takes effect at once, on the
\* amounts of that moment, and only credits by others may be older.
ImplementsBook == Book!Spec

\* Every submitted command is answered, although transactions that touch the
\* same orders make each other start over: the lock keys are sorted.
EveryCallIsAnswered == \A c \in Calls : pc[c] = "preparing" ~> pc[c] \in Ended

-----------------------------------------------------------------------------
(* What the code says and does not do *)

\* "Công nợ đã thay đổi, không thể xác nhận phiếu thu"
\* (DebtCollectionService.js:377): a collection is not confirmed when the debt
\* has changed and no longer covers it.  The contract audit lists the lock
\* among what a confirmation reads; it takes none.
ConfirmNeverOverdraws ==
    [][\A a \in Clerks : Confirm(a) =>
         \A o \in OrdersOf(doc[a]) : Balance(Now', o) >= 0]_vars

=============================================================================

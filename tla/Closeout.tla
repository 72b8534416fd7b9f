------------------------------ MODULE Closeout ------------------------------
(***************************************************************************)
(* The accounting closeout of delivered orders.  While an order is open,   *)
(* the delivery staff record payments and returned goods                   *)
(* (engines/delivery.legacy.engine.js) and the office adjusts them;        *)
(* accounting then closes the order out                                    *)
(* (services/accounting/AccountingCloseoutService.js), which writes the    *)
(* payment allocation and the ledger rows, and from then on a change is a  *)
(* correction that adds a closeout version                                 *)
(* (services/deliveryCloseoutCorrection.service.js).                       *)
(*                                                                         *)
(* Every operation is a transaction that reads a snapshot and then writes  *)
(* all or nothing.  It is refused if a document it writes was written by   *)
(* another since the snapshot, or if a unique index has its entry already, *)
(* and then withTransaction runs it again.  What it merely read may have   *)
(* changed meanwhile.                                                      *)
(*                                                                         *)
(* Cash, bank and reward are one amount, `paid`.  A closeout of several    *)
(* orders is one transaction in the code; here a call closes one order.    *)
(***************************************************************************)
EXTENDS Integers

CONSTANTS
    Orders,
    Calls,         \* requests under way at the same time
    Payments,      \* amounts a request may record as paid
    Returned,      \* amounts of goods a request may record as returned
    Receivable,    \* what an order is sold for
    Tolerance,     \* DEBT_ZERO_TOLERANCE
    Keys,          \* idempotency keys a client may send, each for one order
    Requests,      \* the requests considered
    Receipts,      \* amounts of later receipts
    MaxVersion,    \* bound: writes of an open order
    None

ASSUME CloseoutAssumption ==
    /\ Payments \subseteq Nat
    /\ Returned \subseteq Nat
    /\ 0 \in Returned
    /\ Receivable \in Nat
    /\ Tolerance \in Nat
    /\ Receipts \subseteq Nat
    /\ MaxVersion \in Nat

VARIABLES
    \* salesOrders: version, accountingConfirmed, the money collected, and
    \* the returned amount in deliveryCloseout once it is confirmed
    order,
    \* returnOrders: the amount of an order's return order
    returns,
    \* deliveryCloseoutCorrections, deliveryCloseoutVersions,
    \* orderPaymentAllocations
    corrections, versions, allocations,
    \* the sum of an order's AR ledger rows
    balance,
    \* requests: what is asked, what the client or the batch context had
    \* read before, the transaction's snapshot, the documents in it that
    \* others have written since
    call

stored == <<order, returns, corrections, versions, allocations, balance>>
vars   == <<stored, call>>

-----------------------------------------------------------------------------
(* Documents and requests *)

Paid  == Payments \cup {0}
Order == [version : Nat, confirmed : BOOLEAN, paid : Paid, returned : Returned]

\* A key the client sends, or the one the service makes from the request.
MadeKey == [closed : BOOLEAN, paid : Payments, ret : Returned \cup {None}]
Key     == Keys \cup MadeKey

Fingerprint == [paid : Payments, ret : Returned \cup {None}]

Correction == [key : Key, fingerprint : Fingerprint, base : Nat]
Version    == [n : Nat, prev : Paid, paid : Payments, key : Key]
Allocation == [type : {"closeout", "correction"}, version : Nat, key : Key \cup {None}]

\* What a transaction reads of one order.
Snapshot == [order : Order, returns : Returned, corrections : SUBSET Correction,
             versions : SUBSET Version, allocations : SUBSET Allocation]

\* How an adjustment is sent: alone, with expectedVersion, or as a row of a
\* bulk request, whose context was loaded before its transaction.
MODES == {"plain", "expected", "batch"}

Request ==
    [op : {"payment"}, paid : Payments]
    \cup [op : {"return"}, ret : Returned]
    \cup [op : {"closeout"}]
    \cup [op : {"adjust"}, paid : Payments, ret : Returned \cup {None},
          key : Keys \cup {None}, mode : MODES]

DOCUMENTS == {"salesOrder", "returnOrder"}

ASSUME RequestsAssumption == Requests \subseteq Request
ASSUME NoneAssumption == None \notin Snapshot

Call == [request : Requests, order : Orders, seen : Snapshot \cup {None},
         snap : Snapshot \cup {None}, missed : SUBSET DOCUMENTS]

TypeOK ==
    /\ order \in [Orders -> Order]
    /\ returns \in [Orders -> Returned]
    /\ corrections \in [Orders -> SUBSET Correction]
    /\ versions \in [Orders -> SUBSET Version]
    /\ allocations \in [Orders -> SUBSET Allocation]
    /\ balance \in [Orders -> Int]
    /\ call \in [Calls -> Call \cup {None}]

Init ==
    /\ order = [o \in Orders |->
          [version |-> 0, confirmed |-> FALSE, paid |-> 0, returned |-> 0]]
    /\ returns = [o \in Orders |-> 0]
    /\ corrections = [o \in Orders |-> {}]
    /\ versions = [o \in Orders |-> {}]
    /\ allocations = [o \in Orders |-> {}]
    /\ balance = [o \in Orders |-> 0]
    /\ call = [c \in Calls |-> None]

Stored(o) ==
    [order |-> order[o], returns |-> returns[o], corrections |-> corrections[o],
     versions |-> versions[o], allocations |-> allocations[o]]

\* latestVersionForOriginal, or else the original closeout, which is version 1.
Latest(s) ==
    IF s.versions = {} THEN [n |-> 1, paid |-> s.order.paid]
    ELSE LET v == CHOOSE v \in s.versions : \A w \in s.versions : w.n <= v.n
         IN  [n |-> v.n, paid |-> v.paid]

\* canonicalAdjustmentVersion, and what the screen takes for it.
CanonicalVersion(s) == IF s.order.confirmed THEN Latest(s).n ELSE s.order.version

-----------------------------------------------------------------------------
(* Transactions *)

Running(c) == call[c] # None /\ call[c].snap # None
Snap(c)    == call[c].snap
Asked(c)   == call[c].request
OrderOf(c) == call[c].order

\* uniq_order_payment_allocations_order_source_version
IndexTaken(c, type, n) ==
    \E a \in allocations[OrderOf(c)] \ Snap(c).allocations :
        a.type = type /\ a.version = n

\* Call c writes the documents W and ends; others may have read them before.
Commit(c, W) ==
    /\ Snap(c) # None
    /\ call[c].missed \cap W = {}
    /\ call' = [x \in Calls |->
          IF x = c THEN None
          ELSE IF Running(x) /\ OrderOf(x) = OrderOf(c)
               THEN [call[x] EXCEPT !.missed = @ \cup W]
               ELSE call[x]]

\* A request that goes by what was read before it has read it now ...
Read(c, o, r) ==
    /\ call[c] = None
    /\ r.op = "adjust"
    /\ r.mode # "plain"
    /\ call' = [call EXCEPT ![c] = [request |-> r, order |-> o, seen |-> Stored(o),
                                    snap |-> None, missed |-> {}]]
    /\ UNCHANGED stored

\* ... and starts its transaction later.
Start(c) ==
    /\ call[c] # None
    /\ Snap(c) = None
    /\ call' = [call EXCEPT ![c].snap = Stored(OrderOf(c))]
    /\ UNCHANGED stored

\* Any other request is the start of its transaction.
Ask(c, o, r) ==
    /\ call[c] = None
    /\ r.op = "adjust" => r.mode = "plain"
    /\ call' = [call EXCEPT ![c] = [request |-> r, order |-> o, seen |-> None,
                                    snap |-> Stored(o), missed |-> {}]]
    /\ UNCHANGED stored

\* A write conflict: withTransaction starts over.
Retry(c) ==
    /\ Running(c)
    /\ \/ call[c].missed # {}
       \/ allocations[OrderOf(c)] # Snap(c).allocations
    /\ call' = [call EXCEPT ![c].snap = Stored(OrderOf(c)), ![c].missed = {}]
    /\ UNCHANGED stored

\* An error is answered, or the process dies.  Nothing was written.
GiveUp(c) ==
    /\ call[c] # None
    /\ call' = [call EXCEPT ![c] = None]
    /\ UNCHANGED stored

-----------------------------------------------------------------------------
(* The delivery staff: savePayment, saveReturn *)

Paying(ord, p) ==
    [version |-> ord.version + 1, confirmed |-> ord.confirmed,
     paid |-> p, returned |-> ord.returned]

SavePayment(c) ==
    LET s == Snap(c)
        o == OrderOf(c)
    IN  /\ Running(c)
        /\ Asked(c).op = "payment"
        /\ ~s.order.confirmed
        /\ Asked(c).paid + s.returns - Receivable <= Tolerance
        /\ s.order.version < MaxVersion
        /\ order' = [order EXCEPT ![o] = Paying(s.order, Asked(c).paid)]
        /\ Commit(c, {"salesOrder"})
        /\ UNCHANGED <<returns, corrections, versions, allocations, balance>>

\* assertReturnMutationAllowed looks at the order; only returnOrders is written.
SaveReturn(c) ==
    LET s == Snap(c)
        o == OrderOf(c)
    IN  /\ Running(c)
        /\ Asked(c).op = "return"
        /\ ~s.order.confirmed
        /\ returns' = [returns EXCEPT ![o] = Asked(c).ret]
        /\ Commit(c, {"returnOrder"})
        /\ UNCHANGED <<order, corrections, versions, allocations, balance>>

-----------------------------------------------------------------------------
(* Accounting: confirmOneOrder *)

Abs(x) == IF x < 0 THEN -x ELSE x

\* normalizeDebtAmount
ExpectedDebt(owed) == IF Abs(owed) <= Tolerance \/ owed < 0 THEN 0 ELSE owed

\* reconcileOrderDebt posts the difference to what the ledger rows sum up to.
Reconciled(posted) ==
    IF Abs(ExpectedDebt(posted) - posted) <= Tolerance THEN posted
                                                       ELSE ExpectedDebt(posted)

ClosedOrder_Negated(s) ==  \* mutant: returns are stored as a deduction
    [version |-> s.order.version + 1, confirmed |-> TRUE,
     paid |-> s.order.paid, returned |-> -s.returns]

\* buildConfirmedOrderPatchFields: returns are taken from returnOrders.
ClosedOrder(s) ==
    [version |-> s.order.version + 1, confirmed |-> TRUE,
     paid |-> s.order.paid, returned |-> s.returns]

CloseOut(c) ==
    LET s == Snap(c)
        o == OrderOf(c)
    IN  /\ Running(c)
        /\ Asked(c).op = "closeout"
        /\ ~s.order.confirmed
        /\ ~IndexTaken(c, "closeout", 1)
        /\ order' = [order EXCEPT ![o] = ClosedOrder(s)]
        /\ allocations' = [allocations EXCEPT ![o] = @ \cup
              {[type |-> "closeout", version |-> 1, key |-> None]}]
        /\ balance' = [balance EXCEPT ![o] =
              @ + Reconciled(Receivable - s.order.paid - s.returns)]
        /\ Commit(c, {"salesOrder"})
        /\ UNCHANGED <<returns, corrections, versions>>

-----------------------------------------------------------------------------
(* The office: createCorrection *)

\* What the decisions are made on: a bulk row's context, else the snapshot.
Base(c) == IF Asked(c).mode = "batch" THEN call[c].seen ELSE Snap(c)

\* Return lines that say what is stored already are not material.
MaterialReturn(c) == IF Asked(c).ret = Snap(c).returns THEN None ELSE Asked(c).ret

FingerprintOf(c) == [paid |-> Asked(c).paid, ret |-> MaterialReturn(c)]

KeyOf(c) ==
    IF Asked(c).key # None THEN Asked(c).key
    ELSE [closed |-> Base(c).order.confirmed,
          paid |-> Asked(c).paid, ret |-> MaterialReturn(c)]

Existing_NotLookedUp(c) == {}  \* mutant: a repeated request is taken for new

Existing(c) == {d \in Base(c).corrections : d.key = KeyOf(c)}

\* { upsert: true } with $setOnInsert, by key.
Recorded(c, n) ==
    LET d == [key |-> KeyOf(c), fingerprint |-> FingerprintOf(c), base |-> n]
    IN  IF \E e \in Snap(c).corrections : e.key = d.key THEN {} ELSE {d}

ExpectedVersionHolds_Unchecked(c, n) == TRUE  \* mutant: expectedVersion is not compared

\* assertExpectedAdjustmentVersion
ExpectedVersionHolds(c, n) ==
    Asked(c).mode = "expected" => n = CanonicalVersion(call[c].seen)

\* optimisticOrderLookup: the order is still the one decided on.
OptimisticLookup(c) == Snap(c).order.version = Base(c).order.version

\* createOpenOrderAdjustment
OpenAdjustment(c) ==
    LET s == Snap(c)
        o == OrderOf(c)
        r == MaterialReturn(c)
    IN  /\ Running(c)
        /\ Asked(c).op = "adjust"
        /\ ~Base(c).order.confirmed
        /\ Existing(c) = {}
        /\ ExpectedVersionHolds(c, Base(c).order.version)
        /\ OptimisticLookup(c)
        /\ s.order.version < MaxVersion
        /\ order' = [order EXCEPT ![o] = Paying(s.order, Asked(c).paid)]
        /\ returns' = [returns EXCEPT ![o] = IF r = None THEN @ ELSE r]
        /\ corrections' = [corrections EXCEPT ![o] =
              @ \cup Recorded(c, s.order.version)]
        /\ Commit(c, {"salesOrder"} \cup IF r = None THEN {} ELSE {"returnOrder"})
        /\ UNCHANGED <<versions, allocations, balance>>

BatchIsCurrent_Assumed(c) == TRUE  \* mutant: a bulk row trusts its context

\* prefetchedLatestVersionChanged
BatchIsCurrent(c) == Latest(Snap(c)) = Latest(Base(c))

VersionIndexFree_None(c, n) == TRUE  \* mutant: no unique index on allocations

VersionIndexFree(c, n) == ~IndexTaken(c, "correction", n)

ClosedCorrection(c) ==
    LET o == OrderOf(c)
        n == Latest(Base(c)).n
        previous == Latest(Base(c)).paid
        p == Asked(c).paid
    IN  /\ Running(c)
        /\ Asked(c).op = "adjust"
        /\ Base(c).order.confirmed
        /\ Existing(c) = {}
        /\ ExpectedVersionHolds(c, n)
        /\ BatchIsCurrent(c)
        /\ MaterialReturn(c) = None
        /\ VersionIndexFree(c, n + 1)
        /\ corrections' = [corrections EXCEPT ![o] = @ \cup Recorded(c, n)]
        /\ versions' = [versions EXCEPT ![o] = @ \cup
              {[n |-> n + 1, prev |-> previous, paid |-> p, key |-> KeyOf(c)]}]
        /\ allocations' = [allocations EXCEPT ![o] = @ \cup
              {[type |-> "correction", version |-> n + 1, key |-> KeyOf(c)]}]
        /\ balance' = [balance EXCEPT ![o] = @ - (p - previous)]
        /\ Commit(c, {})
        /\ UNCHANGED <<order, returns>>

\* The key is known with the same contents: answered as done.
AnswerRepeat(c) ==
    /\ Running(c)
    /\ Asked(c).op = "adjust"
    /\ \E d \in Existing(c) : d.fingerprint = FingerprintOf(c)
    /\ call' = [call EXCEPT ![c] = None]
    /\ UNCHANGED stored

-----------------------------------------------------------------------------
(* Receipts that accounting confirms later, in other modules *)

TakeReceipt(o, a) ==
    /\ order[o].confirmed
    /\ a <= balance[o]
    /\ balance' = [balance EXCEPT ![o] = @ - a]
    /\ UNCHANGED <<order, returns, corrections, versions, allocations, call>>

Next ==
    \/ \E c \in Calls :
          \/ \E o \in Orders : \E r \in Requests : Read(c, o, r) \/ Ask(c, o, r)
          \/ Start(c)
          \/ Retry(c)
          \/ GiveUp(c)
          \/ SavePayment(c)
          \/ SaveReturn(c)
          \/ CloseOut(c)
          \/ OpenAdjustment(c)
          \/ ClosedCorrection(c)
          \/ AnswerRepeat(c)
    \/ \E o \in Orders : \E a \in Receipts : TakeReceipt(o, a)

Spec == Init /\ [][Next]_vars

-----------------------------------------------------------------------------
(* Properties *)

\* The states of a closed order, the original closeout and its versions.
Line(o) == {[n |-> 1, paid |-> order[o].paid]}
           \cup {[n |-> v.n, paid |-> v.paid] : v \in versions[o]}

\* The corrections of an order form one line: a number is given once, no
\* number is left out, and each version starts from the payment of the one
\* before it.  Corrections do not write the order; only the unique index on
\* allocations keeps two of them from following the same version.
VersionsAreLinear ==
    \A o \in Orders : \A v \in versions[o] :
        /\ order[o].confirmed
        /\ \A w \in versions[o] : w.n = v.n => w = v
        /\ v.n > 1
        /\ [n |-> v.n - 1, paid |-> v.prev] \in Line(o)

\* One idempotency key makes at most one correction of an order, and one
\* version, however often the request is sent and whatever the copies
\* overlap with, although no unique index is on the corrections' keys.
OneCorrectionPerKey ==
    \A o \in Orders :
        /\ \A d, e \in corrections[o] : d.key = e.key => d = e
        /\ \A v, w \in versions[o] : v.key = w.key => v = w

\* An adjustment that goes by what its client, or the context of the bulk
\* request, had read is made only if nobody changed the payment in between.
\* (A client that saw the order open, and it was closed since, is not meant:
\* see StaleAdjustmentIsRefused.)
NothingUnseenIsOverwritten ==
    [][\A c \in Calls :
          /\ OpenAdjustment(c) \/ ClosedCorrection(c)
          /\ Asked(c).mode # "plain"
          /\ call[c].seen.order.confirmed = order[OrderOf(c)].confirmed
          => /\ order[OrderOf(c)].paid = call[c].seen.order.paid
             /\ Latest(Stored(OrderOf(c))) = Latest(call[c].seen)]_vars

\* STALE_ADJUSTMENT_VERSION: an adjustment with expectedVersion is refused
\* if the order was closed out after the client read it.
StaleAdjustmentIsRefused ==
    [][\A c \in Calls :
          ClosedCorrection(c) /\ Asked(c).mode = "expected"
          => call[c].seen.order.confirmed]_vars

\* The account of each order, seen through the documents.
Account == INSTANCE OrderAccount WITH
    Payments <- Paid,
    closed  <- [o \in Orders |-> order[o].confirmed],
    paid    <- [o \in Orders |-> Latest(Stored(o)).paid],
    version <- [o \in Orders |-> IF order[o].confirmed THEN Latest(Stored(o)).n ELSE 0]

\* Snapshots that overlap, repeated requests and batch contexts that are
\* behind the times never show in an order's account: it is closed out once,
\* its versions follow one another, and its balance is what they make of it.
ImplementsAccount == Account!Spec
=============================================================================

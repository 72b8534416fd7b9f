-------------------------- MODULE ReturnCorrection --------------------------
(***************************************************************************)
(* Correcting a return order after the accounts are closed.  A request     *)
(* (ReturnCorrectionRequestService.js) is approved, applied (the stock of  *)
(* the source is taken back and a corrected version of it is created),     *)
(* rechecked and restocked by the warehouse and finalized by accounting.   *)
(* Meanwhile the ordinary screens of returnOrderLegacy.service go on       *)
(* receiving, stocking in and confirming return orders, versions included. *)
(*                                                                         *)
(* A function that runs in withMongoTransaction is one step: two of them   *)
(* that write one document conflict and one is retried.  What runs outside *)
(* a transaction is one step per database operation: the error path of     *)
(* applyRequest, createRequest, and the reads that the screens act on.     *)
(*                                                                         *)
(* The corrected version request r creates is named r: its id is a hash of *)
(* the root return order and the request.  A time stamp is abstracted to   *)
(* whether the source still has the one the request recorded.              *)
(***************************************************************************)
EXTENDS Naturals

CONSTANTS
    Orders,     \* return orders that were entered at delivery
    Requests,   \* correction requests, named by idempotency key
    Appliers,   \* calls of applyRequest under way at the same time
    Screens,    \* calls of the return-order screens under way likewise
    None

ASSUME ReturnCorrectionAssumption ==
    /\ Orders \cap Requests = {}
    /\ None \notin Orders \cup Requests

Returns == Orders \cup Requests

VARIABLES
    \* the returnOrders collection: orders and their corrected versions
    returnOrder,
    \* the StockTransaction collection: receipts by return order, reversals
    \* by request (the idempotency keys allow one of each)
    stockIn, stockOut,
    \* the AdminCorrectionRequest document; `unchanged` compares
    \* beforeSnapshot.updatedAt with the source as it is now
    status, entity, unchanged, metadata,
    \* how often a request's accounting finalization was carried out
    finalized,
    \* error paths of applyRequest, and what a screen's call has read
    applying, screen

stock   == <<stockIn, stockOut>>
request == <<status, entity, metadata, finalized>>
vars    == <<returnOrder, stock, request, unchanged, applying, screen>>

STATUSES == {"pending_approval", "approved", "waiting_warehouse_recheck",
             "waiting_stock_repost", "waiting_accounting_finalize",
             "applied", "rejected", "failed"}

RETURN_STATES == {"waiting_receive", "received", "accounting_confirmed",
                  "posted_to_ar"}

ReturnOrder == [state : RETURN_STATES \cup {"absent"},
                check : {"pending", "matched", "discrepancy"},
                stockPosted : BOOLEAN]

Metadata == [newVersion : BOOLEAN, reversed : BOOLEAN]

TypeOK ==
    /\ returnOrder \in [Returns -> ReturnOrder]
    /\ stockIn \subseteq Returns
    /\ stockOut \subseteq Requests
    /\ status \in [Requests -> STATUSES \cup {"none"}]
    /\ entity \in [Requests -> Returns \cup {None}]
    /\ unchanged \in [Requests -> BOOLEAN]
    /\ metadata \in [Requests -> Metadata]
    /\ finalized \in [Requests -> Nat]
    /\ applying \in [Appliers -> {None} \cup [request : Requests, metadata : Metadata]]
    /\ screen \in [Screens -> {None} \cup [order : Returns, seen : ReturnOrder]]

\* Orders wait for the goods, are in stock, or are posted to the ledger.
Init ==
    /\ \E waiting, received \in SUBSET Orders :
          /\ stockIn = Orders \ waiting
          /\ returnOrder = [d \in Returns |->
                [state |-> IF d \in Requests THEN "absent"
                           ELSE IF d \in waiting THEN "waiting_receive"
                           ELSE IF d \in received THEN "received"
                           ELSE "posted_to_ar",
                 check |-> IF d \in Orders THEN "matched" ELSE "pending",
                 stockPosted |-> d \in Orders \ waiting]]
    /\ stockOut = {}
    /\ status = [r \in Requests |-> "none"]
    /\ entity = [r \in Requests |-> None]
    /\ unchanged = [r \in Requests |-> FALSE]
    /\ metadata = [r \in Requests |-> [newVersion |-> FALSE, reversed |-> FALSE]]
    /\ finalized = [r \in Requests |-> 0]
    /\ applying = [a \in Appliers |-> None]
    /\ screen = [s \in Screens |-> None]

Exists(d) == returnOrder[d].state # "absent"

\* isStockPostedByLifecycle: the state alone may say that the stock is in.
StockPostedByLifecycle(row) ==
    \/ row.stockPosted
    \/ row.state \in {"received", "accounting_confirmed", "posted_to_ar"}

WarehouseCheckStatus(row) ==
    IF row.check = "pending" /\ StockPostedByLifecycle(row) THEN "matched"
                                                            ELSE row.check

Stamped_OnlyVersions(changed) ==  \* mutant: the screens leave updatedAt alone
    [r \in Requests |-> unchanged[r] /\ entity[r] \notin changed \ Orders]

\* Every write of a return order gives it a new updatedAt.
Stamped(changed) == [r \in Requests |-> unchanged[r] /\ entity[r] \notin changed]

Write(d, row) ==
    /\ returnOrder' = [returnOrder EXCEPT ![d] = row]
    /\ unchanged' = Stamped({d})

-----------------------------------------------------------------------------
(* The request: createRequest, approveRequest, rejectRequest *)

\* createRequest reads the return order, a corrected version or not ...
LookAtSource(r, d) ==
    /\ entity[r] = None
    /\ Exists(d)
    /\ entity' = [entity EXCEPT ![r] = d]
    /\ unchanged' = [unchanged EXCEPT ![r] = TRUE]
    /\ UNCHANGED <<returnOrder, stock, status, metadata, finalized,
                   applying, screen>>

\* ... and inserts the request unless its key exists.
CreateRequest(r) ==
    /\ entity[r] # None
    /\ status[r] = "none"
    /\ status' = [status EXCEPT ![r] = "pending_approval"]
    /\ UNCHANGED <<returnOrder, stock, entity, unchanged, metadata, finalized,
                   applying, screen>>

ApproveRequest(r) ==
    /\ status[r] = "pending_approval"
    /\ status' = [status EXCEPT ![r] = "approved"]
    /\ UNCHANGED <<returnOrder, stock, entity, unchanged, metadata, finalized,
                   applying, screen>>

RejectRequest(r) ==
    /\ status[r] = "pending_approval"
    /\ status' = [status EXCEPT ![r] = "rejected"]
    /\ UNCHANGED <<returnOrder, stock, entity, unchanged, metadata, finalized,
                   applying, screen>>

-----------------------------------------------------------------------------
(* applyRequest *)

MayApply_AnySource(r) == status[r] \in {"approved", "failed"}  \* mutant

\* The guards: assertTransition, or a failed request, and
\* assertExpectedVersion on the source.
MayApply(r) == status[r] \in {"approved", "failed"} /\ unchanged[r]

ReversalRequired_OnlyNew(r) ==  \* mutant: an existing reversal is not required
    returnOrder[entity[r]].stockPosted /\ r \notin stockOut

\* reverseStockIfNeeded; a reversal that exists already counts as well.
ReversalRequired(r) == returnOrder[entity[r]].stockPosted

CorrectedVersion_OldName(source) ==  \* mutant: a status the schema does not know
    [state |-> "pending_warehouse_receive", check |-> "pending", stockPosted |-> FALSE]

\* createCorrectionVersion copies the source and resets the copy, but not
\* arPosted, which alone makes the state posted_to_ar.
CorrectedVersion(source) ==
    [state |-> IF source.state = "posted_to_ar" THEN "posted_to_ar"
                                                ELSE "waiting_receive",
     check |-> "pending",
     stockPosted |-> FALSE]

ApplyRequest(a, r) ==
    /\ applying[a] = None
    /\ MayApply(r)
    /\ status' = [status EXCEPT ![r] = "waiting_warehouse_recheck"]
    /\ stockOut' = IF ReversalRequired(r) THEN stockOut \cup {r} ELSE stockOut
    /\ returnOrder' = [returnOrder EXCEPT ![r] =
                          IF Exists(r) THEN @ ELSE CorrectedVersion(returnOrder[entity[r]])]
    /\ metadata' = [metadata EXCEPT ![r] =
                       [newVersion |-> TRUE, reversed |-> ReversalRequired(r)]]
    /\ UNCHANGED <<stockIn, entity, unchanged, finalized, applying, screen>>

\* A guard, the stock posting (not enough stock) or the database throws: the
\* transaction is gone and the catch block reads the request.  That is one
\* step, since a throw changes nothing and may come at any time.
ApplyThrows(a, r) ==
    /\ applying[a] = None
    /\ status[r] \notin {"none", "failed"}
    /\ applying' = [applying EXCEPT ![a] = [request |-> r, metadata |-> metadata[r]]]
    /\ UNCHANGED <<returnOrder, stock, request, unchanged, screen>>

\* The update goes by the request's id alone, and writes the metadata read.
MarkFailed(a) ==
    /\ applying[a] # None
    /\ LET r == applying[a].request IN
       /\ status' = [status EXCEPT ![r] = "failed"]
       /\ metadata' = [metadata EXCEPT ![r] = applying[a].metadata]
    /\ applying' = [applying EXCEPT ![a] = None]
    /\ UNCHANGED <<returnOrder, stock, entity, unchanged, finalized, screen>>

\* The catch block swallows the error of its own update.
LeaveUnmarked(a) ==
    /\ applying[a] # None
    /\ applying' = [applying EXCEPT ![a] = None]
    /\ UNCHANGED <<returnOrder, stock, request, unchanged, screen>>

-----------------------------------------------------------------------------
(* warehouseRecheck, stockRepost, accountingFinalize *)

WarehouseRecheck(r, check) ==
    /\ status[r] = "waiting_warehouse_recheck"
    /\ metadata[r].newVersion
    /\ Exists(r)
    /\ status' = [status EXCEPT ![r] = "waiting_stock_repost"]
    /\ Write(r, [returnOrder[r] EXCEPT !.check = check])
    /\ UNCHANGED <<stock, entity, metadata, finalized, applying, screen>>

ReceiptsAfter_ByFlag(d) ==  \* mutant: the flag is taken for the movement
    IF returnOrder[d].stockPosted THEN stockIn ELSE stockIn \cup {d}

\* postReturnIn: the idempotency key of the movement is the return order's.
ReceiptsAfter(d) == stockIn \cup {d}

StockRepost(r) ==
    /\ status[r] = "waiting_stock_repost"
    /\ metadata[r].newVersion
    /\ Exists(r)
    /\ status' = [status EXCEPT ![r] = "waiting_accounting_finalize"]
    /\ stockIn' = ReceiptsAfter(r)
    /\ Write(r, [returnOrder[r] EXCEPT !.stockPosted = TRUE])
    /\ UNCHANGED <<stockOut, entity, metadata, finalized, applying, screen>>

\* The source is superseded and the version becomes current, both with a new
\* updatedAt; a closeout version and an allocation are posted.
AccountingFinalize(r) ==
    /\ status[r] = "waiting_accounting_finalize"
    /\ metadata[r].newVersion
    /\ returnOrder[r].stockPosted
    /\ status' = [status EXCEPT ![r] = "applied"]
    /\ finalized' = [finalized EXCEPT ![r] = @ + 1]
    /\ returnOrder' = [returnOrder EXCEPT ![r].state =
                          IF @ = "waiting_receive" THEN "accounting_confirmed" ELSE @]
    /\ unchanged' = Stamped({r, entity[r]})
    /\ UNCHANGED <<stock, entity, metadata, applying, screen>>

-----------------------------------------------------------------------------
(* The screens: confirmReceive, stockIn and confirmAccounting *)

\* confirmReceiveReturnOrderInSession, a transaction of its own.
ConfirmReceive(d) ==
    /\ returnOrder[d].state = "waiting_receive"
    /\ stockIn' = ReceiptsAfter(d)
    /\ Write(d, [state |-> "received",
                 check |-> IF returnOrder[d].check = "discrepancy" THEN "discrepancy"
                                                                   ELSE "matched",
                 stockPosted |-> TRUE])
    /\ UNCHANGED <<stockOut, request, applying, screen>>

\* stockInReturnOrder and confirmAccountingReturnOrder read the document
\* outside a transaction and act on what they read.
OpenReturnOrder(s, d) ==
    /\ screen[s] = None
    /\ Exists(d)
    /\ screen' = [screen EXCEPT ![s] = [order |-> d, seen |-> returnOrder[d]]]
    /\ UNCHANGED <<returnOrder, stock, request, unchanged, applying>>

Marked(row) == [row EXCEPT !.check = WarehouseCheckStatus([row EXCEPT !.stockPosted = TRUE]),
                           !.stockPosted = TRUE]

\* Stocked in already, by the document or by its movements: the document
\* that was read is written back, marked, outside a transaction.
RepeatStockIn(s) ==
    /\ screen[s] # None
    /\ StockPostedByLifecycle(screen[s].seen) \/ screen[s].order \in stockIn
    /\ Write(screen[s].order, Marked(screen[s].seen))
    /\ screen' = [screen EXCEPT ![s] = None]
    /\ UNCHANGED <<stock, request, applying>>

\* Otherwise a transaction looks at the document again and posts, or finds
\* it posted in the meantime.
StockInReturnOrder(s) ==
    /\ screen[s] # None
    /\ LET d == screen[s].order
           fresh == returnOrder[d]
       IN
       /\ ~StockPostedByLifecycle(screen[s].seen)
       /\ screen[s].seen.check = "matched"
       /\ \/ /\ StockPostedByLifecycle(fresh) \/ d \in stockIn
             /\ Write(d, Marked(fresh))
             /\ UNCHANGED stockIn
          \/ /\ ~StockPostedByLifecycle(fresh) /\ d \notin stockIn
             /\ fresh.check = "matched"
             /\ stockIn' = ReceiptsAfter(d)
             /\ Write(d, [fresh EXCEPT !.state = "received", !.stockPosted = TRUE])
    /\ screen' = [screen EXCEPT ![s] = None]
    /\ UNCHANGED <<stockOut, request, applying>>

\* The guards are on the document that was read, and it is written back with
\* the new state: posted to the ledger, unless its amount is zero.
ConfirmAccounting(s, state) ==
    /\ screen[s] # None
    /\ WarehouseCheckStatus(screen[s].seen) = "matched"
    /\ screen[s].seen.state = "received"
    /\ state \in {"accounting_confirmed", "posted_to_ar"}
    /\ Write(screen[s].order, [screen[s].seen EXCEPT !.state = state])
    /\ screen' = [screen EXCEPT ![s] = None]
    /\ UNCHANGED <<stock, request, applying>>

\* A guard refuses, or the database does.
RefuseScreen(s) ==
    /\ screen[s] # None
    /\ screen' = [screen EXCEPT ![s] = None]
    /\ UNCHANGED <<returnOrder, stock, request, unchanged, applying>>

Next ==
    \/ \E r \in Requests :
          \/ \E d \in Returns : LookAtSource(r, d)
          \/ CreateRequest(r) \/ ApproveRequest(r) \/ RejectRequest(r)
          \/ \E a \in Appliers : ApplyRequest(a, r) \/ ApplyThrows(a, r)
          \/ \E check \in {"matched", "discrepancy"} : WarehouseRecheck(r, check)
          \/ StockRepost(r) \/ AccountingFinalize(r)
    \/ \E a \in Appliers : MarkFailed(a) \/ LeaveUnmarked(a)
    \/ \E d \in Returns :
          \/ ConfirmReceive(d)
          \/ \E s \in Screens : OpenReturnOrder(s, d)
    \/ \E s \in Screens :
          \/ RepeatStockIn(s) \/ StockInReturnOrder(s) \/ RefuseScreen(s)
          \/ \E state \in RETURN_STATES : ConfirmAccounting(s, state)

Spec == Init /\ [][Next]_vars

-----------------------------------------------------------------------------
(* Correctness *)

Applied(r) == status[r] \in {"waiting_warehouse_recheck", "waiting_stock_repost",
                             "waiting_accounting_finalize", "applied"}

\* Accounting carries out the finalization of a request at most once,
\* although a failed mark may send the request round again at any time:
\* finalizing changes the source, and apply refuses a changed source.
FinalizedOnce == \A r \in Requests : finalized[r] <= 1

\* What a request that is under way says of the reversal (its metadata is
\* rewritten from stale reads when apply fails) is what the stock shows.
ReversalAsRecorded ==
    \A r \in Requests : Applied(r) => (metadata[r].reversed <=> r \in stockOut)

\* When accounting may finalize, or has, the corrected goods are in stock:
\* there is a movement and not only a flag, which the stock-in screen sets
\* on a version that inherited its source's posting.
CorrectionIsRestocked ==
    \A r \in Requests :
        status[r] \in {"waiting_accounting_finalize", "applied"}
            => r \in stockIn /\ returnOrder[r].stockPosted

\* As long as nobody touched the source since it was requested, the goods of
\* the source are not in stock besides the corrected ones.
SourceTakenBack ==
    \A r \in Requests :
        Applied(r) /\ unchanged[r] /\ entity[r] \in stockIn => r \in stockOut
=============================================================================

----------------------- MODULE ReturnCorrectionProofs -----------------------
(***************************************************************************)
(* Safety of return corrections for every set of orders, requests, apply   *)
(* calls and screens, and any number of failed and repeated applications.  *)
(***************************************************************************)
EXTENDS ReturnCorrection, TLAPS

-----------------------------------------------------------------------------
(* The inductive invariant *)

\* The flag stockPosted follows the movements and the warehouse's states; a
\* version that was not created has neither.
FlagsAgree ==
    \A d \in Returns :
        /\ d \in stockIn => returnOrder[d].stockPosted
        /\ returnOrder[d].state \in {"received", "accounting_confirmed"}
              => returnOrder[d].stockPosted
        /\ ~Exists(d) => ~returnOrder[d].stockPosted

\* What a screen has read was a return order with such a flag.
ScreensSawReturns ==
    \A s \in Screens : screen[s] # None =>
        /\ Exists(screen[s].order)
        /\ screen[s].seen.state # "absent"
        /\ screen[s].seen.state = "received" => screen[s].seen.stockPosted

\* A request has a source from the moment its caller looked at it.
SourcesExist ==
    \A r \in Requests :
        /\ entity[r] # None => Exists(entity[r])
        /\ entity[r] = None => status[r] = "none" /\ ~unchanged[r]

\* The error path of apply is about a request that was created.
CallsHaveRequests ==
    \A a \in Appliers : applying[a] # None => status[applying[a].request] # "none"

\* A reversal was posted for a source whose stock was flagged, and still is.
ReversedIsPosted ==
    \A r \in stockOut : entity[r] # None /\ returnOrder[entity[r]].stockPosted

\* After its finalization a request may be marked failed, but its source has
\* changed.
FinalizedHasEnded ==
    \A r \in Requests :
        finalized[r] # 0 => status[r] \in {"applied", "failed"} /\ ~unchanged[r]

IInv ==
    /\ TypeOK
    /\ FlagsAgree
    /\ ScreensSawReturns
    /\ SourcesExist
    /\ CallsHaveRequests
    /\ ReversedIsPosted
    /\ FinalizedHasEnded
    /\ FinalizedOnce
    /\ ReversalAsRecorded
    /\ CorrectionIsRestocked
    /\ SourceTakenBack

-----------------------------------------------------------------------------
(* Types *)

\* Marking a row keeps it a row of the collection.
LEMMA MarkedType ==
    ASSUME NEW row \in ReturnOrder
    PROVE  /\ Marked(row) \in ReturnOrder
           /\ Marked(row).state = row.state
           /\ Marked(row).stockPosted
<1>1. WarehouseCheckStatus([row EXCEPT !.stockPosted = TRUE])
          \in {"pending", "matched", "discrepancy"}
  BY DEF ReturnOrder, WarehouseCheckStatus
<1>2. QED
  BY <1>1 DEF ReturnOrder, Marked

\* A corrected version is a return order that waits for the goods, or counts
\* as posted like its source.
LEMMA CorrectedVersionType ==
    ASSUME NEW row
    PROVE  /\ CorrectedVersion(row) \in ReturnOrder
           /\ CorrectedVersion(row).state \in {"waiting_receive", "posted_to_ar"}
           /\ ~CorrectedVersion(row).stockPosted
BY DEF ReturnOrder, CorrectedVersion, RETURN_STATES

\* Writing a return order keeps both collections typed.
LEMMA WriteType ==
    ASSUME TypeOK, NEW d \in Returns, NEW row \in ReturnOrder, Write(d, row)
    PROVE  returnOrder' \in [Returns -> ReturnOrder] /\ unchanged' \in [Requests -> BOOLEAN]
BY DEF TypeOK, Write, Stamped

\* Every step keeps the types; apply needs a source to look at.
LEMMA TypeStep == TypeOK /\ SourcesExist /\ [Next]_vars => TypeOK'
<1> SUFFICES ASSUME TypeOK, SourcesExist, [Next]_vars PROVE TypeOK'
  OBVIOUS
<1> USE DEF TypeOK
<1>a. CASE UNCHANGED vars
  BY <1>a DEF vars, stock, request
<1>1. ASSUME NEW r \in Requests, NEW d \in Returns, LookAtSource(r, d) PROVE TypeOK'
  BY <1>1 DEF LookAtSource, stock
<1>2. ASSUME NEW r \in Requests, CreateRequest(r) \/ ApproveRequest(r) \/ RejectRequest(r)
      PROVE TypeOK'
  BY <1>2 DEF CreateRequest, ApproveRequest, RejectRequest, STATUSES, stock
<1>3. ASSUME NEW a \in Appliers, NEW r \in Requests, ApplyRequest(a, r) PROVE TypeOK'
  <2>1. returnOrder' \in [Returns -> ReturnOrder]
    BY <1>3, CorrectedVersionType DEF ApplyRequest, Returns
  <2>2. metadata' \in [Requests -> Metadata]
    <3>1. entity[r] \in Returns /\ returnOrder[entity[r]].stockPosted \in BOOLEAN
      BY <1>3 DEF ApplyRequest, MayApply, SourcesExist, ReturnOrder
    <3>2. [newVersion |-> TRUE, reversed |-> ReversalRequired(r)] \in Metadata
      BY <3>1 DEF ReversalRequired, Metadata
    <3>3. QED
      BY <1>3, <3>2 DEF ApplyRequest
  <2>3. QED
    BY <1>3, <2>1, <2>2 DEF ApplyRequest, STATUSES
<1>4. ASSUME NEW a \in Appliers, NEW r \in Requests, ApplyThrows(a, r) PROVE TypeOK'
  BY <1>4 DEF ApplyThrows, stock, request
<1>5. ASSUME NEW a \in Appliers, MarkFailed(a) PROVE TypeOK'
  BY <1>5 DEF MarkFailed, stock, STATUSES
<1>6. ASSUME NEW a \in Appliers, LeaveUnmarked(a) PROVE TypeOK'
  BY <1>6 DEF LeaveUnmarked, stock, request
<1>7. ASSUME NEW r \in Requests, NEW check \in {"matched", "discrepancy"},
             WarehouseRecheck(r, check)
      PROVE TypeOK'
  BY <1>7 DEF WarehouseRecheck, Write, Stamped, stock, STATUSES, ReturnOrder, Returns
<1>8. ASSUME NEW r \in Requests, StockRepost(r) PROVE TypeOK'
  BY <1>8 DEF StockRepost, ReceiptsAfter, Write, Stamped, STATUSES, ReturnOrder, Returns
<1>9. ASSUME NEW r \in Requests, AccountingFinalize(r) PROVE TypeOK'
  BY <1>9 DEF AccountingFinalize, Stamped, stock, STATUSES, ReturnOrder, RETURN_STATES,
              Returns
<1>10. ASSUME NEW d \in Returns, ConfirmReceive(d) PROVE TypeOK'
  BY <1>10 DEF ConfirmReceive, ReceiptsAfter, Write, Stamped, request, ReturnOrder,
               RETURN_STATES
<1>11. ASSUME NEW d \in Returns, NEW s \in Screens, OpenReturnOrder(s, d) PROVE TypeOK'
  BY <1>11 DEF OpenReturnOrder, stock, request
<1>12. ASSUME NEW s \in Screens, RepeatStockIn(s) PROVE TypeOK'
  <2>1. screen[s].order \in Returns /\ screen[s].seen \in ReturnOrder
    BY <1>12 DEF RepeatStockIn
  <2>2. QED
    BY <1>12, <2>1, MarkedType DEF RepeatStockIn, Write, Stamped, stock, request
<1>13. ASSUME NEW s \in Screens, StockInReturnOrder(s) PROVE TypeOK'
  <2>1. screen[s].order \in Returns
    BY <1>13 DEF StockInReturnOrder
  <2>2. Marked(returnOrder[screen[s].order]) \in ReturnOrder
    BY <2>1, MarkedType
  <2> DEFINE d == screen[s].order
             received == [returnOrder[d] EXCEPT !.state = "received", !.stockPosted = TRUE]
  <2>3. received \in ReturnOrder
    <3>1. returnOrder[d] \in ReturnOrder
      BY <2>1
    <3>2. QED
      BY <3>1 DEF ReturnOrder, RETURN_STATES
  <2>4. Write(d, Marked(returnOrder[d])) \/ Write(d, received)
    BY <1>13 DEF StockInReturnOrder
  <2>5. returnOrder' \in [Returns -> ReturnOrder] /\ unchanged' \in [Requests -> BOOLEAN]
    BY <2>1, <2>2, <2>3, <2>4, WriteType
  <2>6. stockIn' \subseteq Returns
    BY <1>13, <2>1 DEF StockInReturnOrder, ReceiptsAfter
  <2>7. QED
    BY <1>13, <2>5, <2>6 DEF StockInReturnOrder, request
<1>14. ASSUME NEW s \in Screens, NEW state \in RETURN_STATES, ConfirmAccounting(s, state)
       PROVE TypeOK'
  BY <1>14 DEF ConfirmAccounting, Write, Stamped, stock, request, ReturnOrder, RETURN_STATES
<1>15. ASSUME NEW s \in Screens, RefuseScreen(s) PROVE TypeOK'
  BY <1>15 DEF RefuseScreen, stock, request
<1>16. QED
  BY <1>a, <1>1, <1>2, <1>3, <1>4, <1>5, <1>6, <1>7, <1>8, <1>9, <1>10, <1>11, <1>12,
     <1>13, <1>14, <1>15 DEF Next

\* The types hold initially.
LEMMA TypeInit == Init => TypeOK
BY DEF Init, TypeOK, ReturnOrder, RETURN_STATES, Metadata, Returns

-----------------------------------------------------------------------------
(* Flags and movements *)

\* No step takes a flag back or removes a return order.
FlagsStay ==
    \A d \in Returns :
        /\ returnOrder[d].stockPosted => returnOrder'[d].stockPosted
        /\ Exists(d) => Exists(d)'

\* Writing an existing row that is flagged where it has to be.
LEMMA WriteFlags ==
    ASSUME TypeOK, FlagsAgree, NEW d \in Returns, NEW row \in ReturnOrder, Write(d, row),
           row.state # "absent",
           row.state \in {"received", "accounting_confirmed"} => row.stockPosted,
           returnOrder[d].stockPosted => row.stockPosted,
           \/ stockIn' = stockIn
           \/ stockIn' = stockIn \cup {d} /\ row.stockPosted
    PROVE  FlagsAgree' /\ FlagsStay
<1>1. \A e \in Returns : returnOrder'[e] = IF e = d THEN row ELSE returnOrder[e]
  BY DEF TypeOK, Write
<1>2. QED
  BY <1>1 DEF FlagsAgree, FlagsStay, Exists

\* Flags agree with movements and states after every step.
LEMMA FlagsStep ==
    TypeOK /\ FlagsAgree /\ ScreensSawReturns /\ [Next]_vars => FlagsAgree' /\ FlagsStay
<1> SUFFICES ASSUME TypeOK, FlagsAgree, ScreensSawReturns, [Next]_vars
             PROVE  FlagsAgree' /\ FlagsStay
  OBVIOUS
<1>u. ASSUME UNCHANGED <<returnOrder, stock>> PROVE FlagsAgree' /\ FlagsStay
  BY <1>u DEF FlagsAgree, FlagsStay, Exists, stock
<1>a. CASE UNCHANGED vars
  BY <1>a, <1>u DEF vars
<1>1. ASSUME NEW r \in Requests, NEW d \in Returns, LookAtSource(r, d)
      PROVE  FlagsAgree' /\ FlagsStay
  BY <1>1, <1>u DEF LookAtSource
<1>2. ASSUME NEW r \in Requests, CreateRequest(r) \/ ApproveRequest(r) \/ RejectRequest(r)
      PROVE  FlagsAgree' /\ FlagsStay
  BY <1>2, <1>u DEF CreateRequest, ApproveRequest, RejectRequest
<1>3. ASSUME NEW a \in Appliers, NEW r \in Requests, ApplyRequest(a, r)
      PROVE  FlagsAgree' /\ FlagsStay
  <2>1. r \in Returns /\ stockIn' = stockIn
    BY <1>3 DEF ApplyRequest, Returns
  <2>2. CASE Exists(r)
    <3>1. returnOrder' = returnOrder
      BY <1>3, <2>1, <2>2 DEF ApplyRequest, TypeOK
    <3>2. QED
      BY <2>1, <3>1 DEF FlagsAgree, FlagsStay, Exists
  <2>3. CASE ~Exists(r)
    <3> DEFINE new == CorrectedVersion(returnOrder[entity[r]])
    <3>1. \A e \in Returns : returnOrder'[e] = IF e = r THEN new ELSE returnOrder[e]
      BY <1>3, <2>1, <2>3 DEF ApplyRequest, TypeOK
    <3>2. new.state \in {"waiting_receive", "posted_to_ar"}
      BY CorrectedVersionType
    <3>3. QED
      BY <2>1, <2>3, <3>1, <3>2 DEF FlagsAgree, FlagsStay, Exists
  <2>4. QED
    BY <2>2, <2>3
<1>4. ASSUME NEW a \in Appliers, NEW r \in Requests, ApplyThrows(a, r)
      PROVE  FlagsAgree' /\ FlagsStay
  BY <1>4, <1>u DEF ApplyThrows
<1>5. ASSUME NEW a \in Appliers, MarkFailed(a) \/ LeaveUnmarked(a)
      PROVE  FlagsAgree' /\ FlagsStay
  BY <1>5, <1>u DEF MarkFailed, LeaveUnmarked
<1>7. ASSUME NEW r \in Requests, NEW check \in {"matched", "discrepancy"},
             WarehouseRecheck(r, check)
      PROVE  FlagsAgree' /\ FlagsStay
  <2> DEFINE row == [returnOrder[r] EXCEPT !.check = check]
  <2>1. r \in Returns /\ returnOrder[r] \in ReturnOrder /\ stockIn' = stockIn
    BY <1>7 DEF WarehouseRecheck, Returns, TypeOK, stock
  <2>2. /\ row \in ReturnOrder
        /\ row.state = returnOrder[r].state
        /\ row.stockPosted = returnOrder[r].stockPosted
    BY <2>1 DEF ReturnOrder
  <2>3. row.state # "absent"
    BY <1>7, <2>2 DEF WarehouseRecheck, Exists
  <2>4. row.state \in {"received", "accounting_confirmed"} => row.stockPosted
    BY <2>1, <2>2 DEF FlagsAgree
  <2>5. Write(r, row)
    BY <1>7 DEF WarehouseRecheck
  <2> HIDE DEF row
  <2>6. QED
    BY <2>1, <2>2, <2>3, <2>4, <2>5, WriteFlags
<1>8. ASSUME NEW r \in Requests, StockRepost(r) PROVE FlagsAgree' /\ FlagsStay
  <2> DEFINE row == [returnOrder[r] EXCEPT !.stockPosted = TRUE]
  <2>1. r \in Returns /\ returnOrder[r] \in ReturnOrder
    BY <1>8 DEF Returns, TypeOK
  <2>2. row \in ReturnOrder /\ row.state = returnOrder[r].state /\ row.stockPosted
    BY <2>1 DEF ReturnOrder
  <2>3. row.state # "absent"
    BY <1>8, <2>2 DEF StockRepost, Exists
  <2>4. Write(r, row) /\ stockIn' = stockIn \cup {r}
    BY <1>8 DEF StockRepost, ReceiptsAfter
  <2> HIDE DEF row
  <2>5. QED
    BY <2>1, <2>2, <2>3, <2>4, WriteFlags
<1>9. ASSUME NEW r \in Requests, AccountingFinalize(r) PROVE FlagsAgree' /\ FlagsStay
  <2>1. r \in Returns /\ stockIn' = stockIn
    BY <1>9 DEF AccountingFinalize, Returns, stock
  <2>2. returnOrder[r].stockPosted /\ returnOrder[r].state # "absent"
    BY <1>9, <2>1 DEF AccountingFinalize, FlagsAgree, Exists
  <2>3. /\ \A e \in Returns \ {r} : returnOrder'[e] = returnOrder[e]
        /\ returnOrder'[r].stockPosted = returnOrder[r].stockPosted
        /\ returnOrder'[r].state # "absent"
    BY <1>9, <2>1, <2>2 DEF AccountingFinalize, TypeOK, ReturnOrder
  <2>4. QED
    BY <2>1, <2>2, <2>3 DEF FlagsAgree, FlagsStay, Exists
<1>10. ASSUME NEW d \in Returns, ConfirmReceive(d) PROVE FlagsAgree' /\ FlagsStay
  <2> DEFINE row == [state |-> "received",
                     check |-> IF returnOrder[d].check = "discrepancy" THEN "discrepancy"
                                                                       ELSE "matched",
                     stockPosted |-> TRUE]
  <2>1. /\ row \in ReturnOrder /\ row.state = "received" /\ row.stockPosted
        /\ Write(d, row)
    BY <1>10 DEF ConfirmReceive, ReturnOrder, RETURN_STATES
  <2>2. stockIn' = stockIn \cup {d}
    BY <1>10 DEF ConfirmReceive, ReceiptsAfter
  <2> HIDE DEF row
  <2>3. QED
    BY <2>1, <2>2, WriteFlags
<1>11. ASSUME NEW d \in Returns, NEW s \in Screens, OpenReturnOrder(s, d)
       PROVE  FlagsAgree' /\ FlagsStay
  BY <1>11, <1>u DEF OpenReturnOrder
<1>12. ASSUME NEW s \in Screens, RepeatStockIn(s) PROVE FlagsAgree' /\ FlagsStay
  <2>1. screen[s].order \in Returns /\ screen[s].seen \in ReturnOrder
    BY <1>12 DEF RepeatStockIn, TypeOK
  <2>2. screen[s].seen.state # "absent"
    BY <1>12 DEF RepeatStockIn, ScreensSawReturns
  <2>3. Write(screen[s].order, Marked(screen[s].seen)) /\ stockIn' = stockIn
    BY <1>12 DEF RepeatStockIn, stock
  <2>4. QED
    BY <2>1, <2>2, <2>3, MarkedType, WriteFlags
<1>13. ASSUME NEW s \in Screens, StockInReturnOrder(s) PROVE FlagsAgree' /\ FlagsStay
  <2> DEFINE d == screen[s].order
             received == [returnOrder[d] EXCEPT !.state = "received", !.stockPosted = TRUE]
  <2>1. d \in Returns /\ returnOrder[d] \in ReturnOrder /\ returnOrder[d].state # "absent"
    BY <1>13 DEF StockInReturnOrder, TypeOK, ScreensSawReturns, Exists
  <2>2. CASE Write(d, Marked(returnOrder[d])) /\ stockIn' = stockIn
    BY <2>1, <2>2, MarkedType, WriteFlags
  <2>3. CASE Write(d, received) /\ stockIn' = stockIn \cup {d}
    <3>1. received \in ReturnOrder /\ received.state = "received" /\ received.stockPosted
      BY <2>1 DEF ReturnOrder, RETURN_STATES
    <3> HIDE DEF received
    <3>2. QED
      BY <2>1, <2>3, <3>1, WriteFlags
  <2>4. QED
    BY <1>13, <2>2, <2>3 DEF StockInReturnOrder, ReceiptsAfter
<1>14. ASSUME NEW s \in Screens, NEW state \in RETURN_STATES, ConfirmAccounting(s, state)
       PROVE  FlagsAgree' /\ FlagsStay
  <2> DEFINE row == [screen[s].seen EXCEPT !.state = state]
  <2>1. screen[s].order \in Returns /\ screen[s].seen \in ReturnOrder
    BY <1>14 DEF ConfirmAccounting, TypeOK
  <2>2. screen[s].seen.stockPosted
    BY <1>14 DEF ConfirmAccounting, ScreensSawReturns
  <2>3. row \in ReturnOrder /\ row.state = state /\ row.stockPosted
    BY <2>1, <2>2 DEF ReturnOrder
  <2>4. state # "absent" /\ Write(screen[s].order, row) /\ stockIn' = stockIn
    BY <1>14 DEF ConfirmAccounting, stock
  <2> HIDE DEF row
  <2>5. QED
    BY <2>1, <2>3, <2>4, WriteFlags
<1>15. ASSUME NEW s \in Screens, RefuseScreen(s) PROVE FlagsAgree' /\ FlagsStay
  BY <1>15, <1>u DEF RefuseScreen
<1>16. QED
  BY <1>a, <1>1, <1>2, <1>3, <1>4, <1>5, <1>7, <1>8, <1>9, <1>10, <1>11, <1>12,
     <1>13, <1>14, <1>15 DEF Next

\* A screen goes on holding what was once true of an existing return order.
LEMMA ScreensStep ==
    TypeOK /\ FlagsAgree /\ ScreensSawReturns /\ [Next]_vars => ScreensSawReturns'
<1> SUFFICES ASSUME TypeOK, FlagsAgree, ScreensSawReturns, [Next]_vars
             PROVE  ScreensSawReturns'
  OBVIOUS
<1>1. FlagsStay
  BY FlagsStep
<1>2. CASE screen' = screen
  BY <1>1, <1>2 DEF ScreensSawReturns, FlagsStay, TypeOK
<1>3. CASE \E s \in Screens : screen' = [screen EXCEPT ![s] = None]
  BY <1>1, <1>3 DEF ScreensSawReturns, FlagsStay, TypeOK
<1>4. ASSUME NEW s \in Screens, NEW d \in Returns, OpenReturnOrder(s, d)
      PROVE  ScreensSawReturns'
  <2>1. screen'[s] = [order |-> d, seen |-> returnOrder[d]]
    BY <1>4 DEF OpenReturnOrder, TypeOK
  <2>2. \A t \in Screens \ {s} : screen'[t] = screen[t]
    BY <1>4 DEF OpenReturnOrder, TypeOK
  <2>3. Exists(d) /\ (returnOrder[d].state = "received" => returnOrder[d].stockPosted)
    BY <1>4 DEF OpenReturnOrder, FlagsAgree
  <2>4. QED
    BY <1>1, <2>1, <2>2, <2>3 DEF ScreensSawReturns, FlagsStay, Exists, TypeOK
<1>5. \/ screen' = screen
      \/ \E s \in Screens : screen' = [screen EXCEPT ![s] = None]
      \/ \E s \in Screens, d \in Returns : OpenReturnOrder(s, d)
  BY DEF Next, vars, LookAtSource, CreateRequest, ApproveRequest, RejectRequest,
         ApplyRequest, ApplyThrows, MarkFailed, LeaveUnmarked, WarehouseRecheck,
         StockRepost, AccountingFinalize, ConfirmReceive, RepeatStockIn,
         StockInReturnOrder, ConfirmAccounting, RefuseScreen
<1>6. QED
  BY <1>2, <1>3, <1>4, <1>5

-----------------------------------------------------------------------------
(* Requests *)

\* A step that leaves the requests and the reversals alone; goods it puts in
\* stock are of return orders that it stamps.
QuietStep ==
    /\ UNCHANGED <<request, stockOut>>
    /\ stockIn \subseteq stockIn'
    /\ \A r \in Requests :
          unchanged'[r] => unchanged[r] /\ (entity[r] \in stockIn' => entity[r] \in stockIn)

\* The steps of the screens, and those of apply's error path but its write,
\* are quiet.
LEMMA StepKinds ==
    ASSUME TypeOK, [Next]_vars
    PROVE  \/ \E r \in Requests, d \in Returns : LookAtSource(r, d)
           \/ \E r \in Requests : CreateRequest(r) \/ ApproveRequest(r) \/ RejectRequest(r)
           \/ \E a \in Appliers, r \in Requests : ApplyRequest(a, r)
           \/ \E a \in Appliers : MarkFailed(a)
           \/ \E r \in Requests, check \in {"matched", "discrepancy"} : WarehouseRecheck(r, check)
           \/ \E r \in Requests : StockRepost(r)
           \/ \E r \in Requests : AccountingFinalize(r)
           \/ QuietStep
<1>1. ASSUME UNCHANGED <<request, stock, unchanged>> PROVE QuietStep
  BY <1>1 DEF QuietStep, stock
<1>2. ASSUME NEW d \in Returns, UNCHANGED <<request, stockOut>>, unchanged' = Stamped({d}),
             stockIn' = stockIn \/ stockIn' = stockIn \cup {d}
      PROVE  QuietStep
  BY <1>2 DEF QuietStep, Stamped
<1>3. CASE UNCHANGED vars
  BY <1>1, <1>3 DEF vars
<1>4. ASSUME NEW a \in Appliers, NEW r \in Requests, ApplyThrows(a, r) PROVE QuietStep
  BY <1>1, <1>4 DEF ApplyThrows
<1>5. ASSUME NEW a \in Appliers, LeaveUnmarked(a) PROVE QuietStep
  BY <1>1, <1>5 DEF LeaveUnmarked
<1>6. ASSUME NEW d \in Returns, ConfirmReceive(d) PROVE QuietStep
  BY <1>2, <1>6 DEF ConfirmReceive, ReceiptsAfter, Write
<1>7. ASSUME NEW d \in Returns, NEW s \in Screens, OpenReturnOrder(s, d) PROVE QuietStep
  BY <1>1, <1>7 DEF OpenReturnOrder
<1>8. ASSUME NEW s \in Screens, NEW state \in RETURN_STATES,
             RepeatStockIn(s) \/ StockInReturnOrder(s) \/ ConfirmAccounting(s, state)
      PROVE  QuietStep
  <2>1. screen[s].order \in Returns
    BY <1>8 DEF TypeOK, RepeatStockIn, StockInReturnOrder, ConfirmAccounting
  <2>2. QED
    BY <1>2, <1>8, <2>1 DEF RepeatStockIn, StockInReturnOrder, ConfirmAccounting,
                            ReceiptsAfter, Write, stock
<1>9. ASSUME NEW s \in Screens, RefuseScreen(s) PROVE QuietStep
  BY <1>1, <1>9 DEF RefuseScreen
<1>10. RETURN_STATES # {}
  BY DEF RETURN_STATES
<1>11. QED
  BY <1>3, <1>4, <1>5, <1>6, <1>7, <1>8, <1>9, <1>10 DEF Next

\* Requests keep their sources.
LEMMA SourcesStep ==
    ASSUME TypeOK, SourcesExist, CallsHaveRequests, FlagsStay, [Next]_vars
    PROVE  SourcesExist'
<1>1. ASSUME NEW r \in Requests, NEW d \in Returns, LookAtSource(r, d) PROVE SourcesExist'
  <2>1. d # None
    BY ReturnCorrectionAssumption DEF Returns
  <2>2. \A q \in Requests : /\ entity'[q] = IF q = r THEN d ELSE entity[q]
                            /\ unchanged'[q] = IF q = r THEN TRUE ELSE unchanged[q]
    BY <1>1 DEF LookAtSource, TypeOK
  <2>3. UNCHANGED <<status, returnOrder>> /\ Exists(d)
    BY <1>1 DEF LookAtSource
  <2>4. QED
    BY <2>1, <2>2, <2>3 DEF SourcesExist, Exists
<1>2. ASSUME entity' = entity,
             \A r \in Requests : unchanged'[r] => unchanged[r],
             \A r \in Requests : status[r] = "none" /\ entity[r] = None => status'[r] = "none"
      PROVE  SourcesExist'
  BY <1>2 DEF SourcesExist, FlagsStay, Exists, TypeOK
<1>3. ASSUME NEW r \in Requests, CreateRequest(r) \/ ApproveRequest(r) \/ RejectRequest(r)
      PROVE  SourcesExist'
  BY <1>2, <1>3 DEF CreateRequest, ApproveRequest, RejectRequest, SourcesExist, TypeOK
<1>4. ASSUME NEW a \in Appliers, NEW r \in Requests, ApplyRequest(a, r) PROVE SourcesExist'
  BY <1>2, <1>4 DEF ApplyRequest, MayApply, TypeOK
<1>5. ASSUME NEW a \in Appliers, MarkFailed(a) PROVE SourcesExist'
  BY <1>2, <1>5 DEF MarkFailed, CallsHaveRequests, TypeOK
<1>6. ASSUME NEW r \in Requests, NEW check \in {"matched", "discrepancy"},
             WarehouseRecheck(r, check)
      PROVE  SourcesExist'
  BY <1>2, <1>6 DEF WarehouseRecheck, Write, Stamped, TypeOK
<1>7. ASSUME NEW r \in Requests, StockRepost(r) PROVE SourcesExist'
  BY <1>2, <1>7 DEF StockRepost, Write, Stamped, TypeOK
<1>8. ASSUME NEW r \in Requests, AccountingFinalize(r) PROVE SourcesExist'
  BY <1>2, <1>8 DEF AccountingFinalize, Stamped, TypeOK
<1>9. CASE QuietStep
  BY <1>2, <1>9 DEF QuietStep, request
<1>10. QED
  BY <1>1, <1>3, <1>4, <1>5, <1>6, <1>7, <1>8, <1>9, StepKinds

\* A request never ceases to exist, so neither do those of apply's callers.
LEMMA CallsStep ==
    ASSUME TypeOK, CallsHaveRequests, [Next]_vars
    PROVE  CallsHaveRequests'
<1>1. \A r \in Requests : status[r] # "none" => status'[r] # "none"
  <2>1. CASE QuietStep
    BY <2>1 DEF QuietStep, request
  <2>2. ASSUME NEW r \in Requests, NEW new, new # "none", status' = [status EXCEPT ![r] = new]
        PROVE  \A q \in Requests : status[q] # "none" => status'[q] # "none"
    BY <2>2 DEF TypeOK
  <2>3. ASSUME NEW r \in Requests, NEW d \in Returns, LookAtSource(r, d)
        PROVE  status' = status
    BY <2>3 DEF LookAtSource
  <2>4. ASSUME NEW r \in Requests,
               CreateRequest(r) \/ ApproveRequest(r) \/ RejectRequest(r)
        PROVE  \E new : new # "none" /\ status' = [status EXCEPT ![r] = new]
    BY <2>4 DEF CreateRequest, ApproveRequest, RejectRequest
  <2>5. ASSUME NEW a \in Appliers, NEW r \in Requests, ApplyRequest(a, r)
        PROVE  \E new : new # "none" /\ status' = [status EXCEPT ![r] = new]
    BY <2>5 DEF ApplyRequest
  <2>6. ASSUME NEW a \in Appliers, MarkFailed(a)
        PROVE  \E r \in Requests : \E new : new # "none" /\ status' = [status EXCEPT ![r] = new]
    BY <2>6 DEF MarkFailed, TypeOK
  <2>7. ASSUME NEW r \in Requests, NEW check \in {"matched", "discrepancy"},
               WarehouseRecheck(r, check)
        PROVE  \E new : new # "none" /\ status' = [status EXCEPT ![r] = new]
    BY <2>7 DEF WarehouseRecheck
  <2>8. ASSUME NEW r \in Requests, StockRepost(r) \/ AccountingFinalize(r)
        PROVE  \E new : new # "none" /\ status' = [status EXCEPT ![r] = new]
    BY <2>8 DEF StockRepost, AccountingFinalize
  <2>9. QED
    BY <2>1, <2>2, <2>3, <2>4, <2>5, <2>6, <2>7, <2>8, StepKinds
<1>2. CASE applying' = applying
  BY <1>1, <1>2 DEF CallsHaveRequests, TypeOK
<1>3. ASSUME NEW a \in Appliers, applying' = [applying EXCEPT ![a] = None]
      PROVE  CallsHaveRequests'
  BY <1>1, <1>3 DEF CallsHaveRequests, TypeOK
<1>4. ASSUME NEW a \in Appliers, NEW r \in Requests, ApplyThrows(a, r)
      PROVE  CallsHaveRequests'
  <2>1. \A b \in Appliers :
           applying'[b] = IF b = a THEN [request |-> r, metadata |-> metadata[r]] ELSE applying[b]
    BY <1>4 DEF ApplyThrows, TypeOK
  <2>2. status[r] # "none"
    BY <1>4 DEF ApplyThrows
  <2>3. QED
    BY <1>1, <2>1, <2>2 DEF CallsHaveRequests, TypeOK
<1>5. \/ applying' = applying
      \/ \E a \in Appliers : applying' = [applying EXCEPT ![a] = None]
      \/ \E a \in Appliers, r \in Requests : ApplyThrows(a, r)
  BY DEF Next, vars, LookAtSource, CreateRequest, ApproveRequest, RejectRequest,
         ApplyRequest, MarkFailed, LeaveUnmarked, WarehouseRecheck, StockRepost,
         AccountingFinalize, ConfirmReceive, OpenReturnOrder, RepeatStockIn,
         StockInReturnOrder, ConfirmAccounting, RefuseScreen
<1>6. QED
  BY <1>2, <1>3, <1>4, <1>5

\* A finalized request has ended or was marked failed, and cannot come back.
LEMMA FinalizedStep ==
    ASSUME TypeOK, SourcesExist, FinalizedHasEnded, FinalizedOnce, [Next]_vars
    PROVE  FinalizedHasEnded' /\ FinalizedOnce'
<1>1. ASSUME NEW r \in Requests, NEW d \in Returns, LookAtSource(r, d)
      PROVE  FinalizedHasEnded' /\ FinalizedOnce'
  <2>1. finalized[r] = 0
    BY <1>1 DEF LookAtSource, SourcesExist, FinalizedHasEnded
  <2>2. QED
    BY <1>1, <2>1 DEF LookAtSource, FinalizedHasEnded, FinalizedOnce, TypeOK
<1>2. ASSUME NEW r \in Requests, CreateRequest(r) \/ ApproveRequest(r) \/ RejectRequest(r)
      PROVE  FinalizedHasEnded' /\ FinalizedOnce'
  BY <1>2 DEF CreateRequest, ApproveRequest, RejectRequest, FinalizedHasEnded,
              FinalizedOnce, TypeOK
<1>3. ASSUME NEW a \in Appliers, NEW r \in Requests, ApplyRequest(a, r)
      PROVE  FinalizedHasEnded' /\ FinalizedOnce'
  BY <1>3 DEF ApplyRequest, MayApply, FinalizedHasEnded, FinalizedOnce, TypeOK
<1>4. ASSUME NEW a \in Appliers, MarkFailed(a) PROVE FinalizedHasEnded' /\ FinalizedOnce'
  BY <1>4 DEF MarkFailed, FinalizedHasEnded, FinalizedOnce, TypeOK
<1>5. ASSUME NEW r \in Requests, NEW check \in {"matched", "discrepancy"},
             WarehouseRecheck(r, check)
      PROVE  FinalizedHasEnded' /\ FinalizedOnce'
  BY <1>5 DEF WarehouseRecheck, Write, Stamped, FinalizedHasEnded, FinalizedOnce, TypeOK
<1>6. ASSUME NEW r \in Requests, StockRepost(r) PROVE FinalizedHasEnded' /\ FinalizedOnce'
  BY <1>6 DEF StockRepost, Write, Stamped, FinalizedHasEnded, FinalizedOnce, TypeOK
<1>7. ASSUME NEW r \in Requests, AccountingFinalize(r)
      PROVE  FinalizedHasEnded' /\ FinalizedOnce'
  <2>1. finalized[r] = 0
    BY <1>7 DEF AccountingFinalize, FinalizedHasEnded
  <2>2. finalized'[r] = 1 /\ status'[r] = "applied" /\ ~unchanged'[r]
    <3>1. finalized'[r] = 1
      BY <1>7, <2>1 DEF AccountingFinalize, TypeOK
    <3>2. status'[r] = "applied"
      BY <1>7 DEF AccountingFinalize, TypeOK
    <3>3. ~unchanged'[r]
      BY <1>7 DEF AccountingFinalize, Stamped
    <3>4. QED
      BY <3>1, <3>2, <3>3
  <2>3. ASSUME NEW q \in Requests, q # r
        PROVE  finalized'[q] = finalized[q] /\ status'[q] = status[q]
    BY <1>7, <2>3 DEF AccountingFinalize, TypeOK
  <2>4. FinalizedHasEnded'
    <3>1. ASSUME NEW q \in Requests, q # r, finalized'[q] # 0
          PROVE  status'[q] \in {"applied", "failed"} /\ ~unchanged'[q]
      <4>1. status[q] \in {"applied", "failed"} /\ ~unchanged[q]
        BY <2>3, <3>1 DEF FinalizedHasEnded
      <4>2. unchanged'[q] => unchanged[q]
        BY <1>7 DEF AccountingFinalize, Stamped
      <4>3. QED
        BY <2>3, <3>1, <4>1, <4>2
    <3>2. QED
      BY <2>2, <3>1 DEF FinalizedHasEnded
  <2>5. FinalizedOnce'
    <3>1. ASSUME NEW q \in Requests, q # r PROVE finalized'[q] <= 1
      BY <2>3, <3>1 DEF FinalizedOnce
    <3>2. finalized'[r] <= 1
      BY <2>2
    <3>3. QED
      BY <3>1, <3>2 DEF FinalizedOnce
  <2>6. QED
    BY <2>4, <2>5
<1>8. CASE QuietStep
  BY <1>8 DEF QuietStep, request, FinalizedHasEnded, FinalizedOnce
<1>9. QED
  BY <1>1, <1>2, <1>3, <1>4, <1>5, <1>6, <1>7, <1>8, StepKinds

\* Reversals, their record and the source's stock agree after every step.
LEMMA ReversalStep ==
    ASSUME TypeOK, FlagsAgree, SourcesExist, FlagsStay, ReversedIsPosted,
           ReversalAsRecorded, SourceTakenBack, [Next]_vars
    PROVE  ReversedIsPosted' /\ ReversalAsRecorded' /\ SourceTakenBack'
<1> DEFINE Goal == ReversedIsPosted' /\ ReversalAsRecorded' /\ SourceTakenBack'
<1>1. ASSUME NEW r \in Requests, NEW d \in Returns, LookAtSource(r, d) PROVE Goal
  <2>1. r \notin stockOut /\ ~Applied(r)
    BY <1>1 DEF LookAtSource, ReversedIsPosted, SourcesExist, Applied
  <2>2. QED
    BY <1>1, <2>1 DEF LookAtSource, stock, ReversedIsPosted, ReversalAsRecorded,
                      SourceTakenBack, Applied, TypeOK
<1>2. ASSUME NEW r \in Requests, CreateRequest(r) \/ ApproveRequest(r) \/ RejectRequest(r)
      PROVE  Goal
  BY <1>2 DEF CreateRequest, ApproveRequest, RejectRequest, stock, ReversedIsPosted,
              ReversalAsRecorded, SourceTakenBack, Applied, TypeOK
<1>3. ASSUME NEW a \in Appliers, NEW r \in Requests, ApplyRequest(a, r) PROVE Goal
  <2> DEFINE e == entity[r]
  <2>1. e # None /\ e \in Returns /\ unchanged[r]
    BY <1>3 DEF ApplyRequest, MayApply, SourcesExist, TypeOK
  <2>2. ReversedIsPosted'
    BY <1>3, <2>1 DEF ApplyRequest, ReversalRequired, ReversedIsPosted, FlagsStay, TypeOK
  <2>3. metadata'[r].reversed <=> r \in stockOut'
    <3>1. metadata'[r].reversed = returnOrder[e].stockPosted
      BY <1>3 DEF ApplyRequest, ReversalRequired, TypeOK
    <3>2. r \in stockOut' <=> returnOrder[e].stockPosted
      BY <1>3 DEF ApplyRequest, ReversalRequired, ReversedIsPosted
    <3>3. QED
      BY <3>1, <3>2
  <2>4. \A q \in Requests \ {r} : /\ metadata'[q] = metadata[q]
                                   /\ status'[q] = status[q]
                                   /\ q \in stockOut' <=> q \in stockOut
    BY <1>3 DEF ApplyRequest, TypeOK
  <2>5. ReversalAsRecorded'
    <3>1. ASSUME NEW q \in Requests, q # r, Applied(q)'
          PROVE  metadata'[q].reversed <=> q \in stockOut'
      <4>1. status'[q] = status[q] /\ metadata'[q] = metadata[q]
        BY <1>3, <3>1 DEF ApplyRequest, TypeOK
      <4>2. q \in stockOut' <=> q \in stockOut
        BY <1>3, <3>1 DEF ApplyRequest
      <4>3. Applied(q)
        BY <3>1, <4>1 DEF Applied
      <4>4. metadata[q].reversed <=> q \in stockOut
        BY <4>3 DEF ReversalAsRecorded
      <4>5. QED
        BY <4>1, <4>2, <4>4
    <3>2. QED
      BY <2>3, <3>1 DEF ReversalAsRecorded
  <2>6. e \in stockIn => r \in stockOut'
    BY <1>3, <2>1 DEF ApplyRequest, ReversalRequired, FlagsAgree
  <2>7. SourceTakenBack'
    BY <1>3, <2>4, <2>6 DEF ApplyRequest, SourceTakenBack, Applied
  <2>8. QED
    BY <2>2, <2>5, <2>7
<1>4. ASSUME NEW a \in Appliers, MarkFailed(a) PROVE Goal
  BY <1>4 DEF MarkFailed, stock, ReversedIsPosted, ReversalAsRecorded, SourceTakenBack,
              Applied, TypeOK
<1>5. ASSUME NEW r \in Requests, Applied(r), UNCHANGED <<entity, metadata, stockOut>>,
             \A q \in Requests \ {r} : status'[q] = status[q],
             \A q \in Requests :
                unchanged'[q] => unchanged[q] /\ (entity[q] \in stockIn' => entity[q] \in stockIn)
      PROVE  Goal
  <2>1. \A q \in Requests : Applied(q)' => Applied(q)
    BY <1>5 DEF Applied
  <2>2. ReversedIsPosted'
    BY <1>5 DEF ReversedIsPosted, FlagsStay, TypeOK
  <2>3. QED
    BY <1>5, <2>1, <2>2 DEF ReversalAsRecorded, SourceTakenBack
<1>6. ASSUME NEW r \in Requests, NEW check \in {"matched", "discrepancy"},
             WarehouseRecheck(r, check)
      PROVE  Goal
  BY <1>5, <1>6 DEF WarehouseRecheck, Write, Stamped, stock, Applied, TypeOK
<1>7. ASSUME NEW r \in Requests, StockRepost(r) PROVE Goal
  BY <1>5, <1>7 DEF StockRepost, ReceiptsAfter, Write, Stamped, Applied, TypeOK
<1>8. ASSUME NEW r \in Requests, AccountingFinalize(r) PROVE Goal
  BY <1>5, <1>8 DEF AccountingFinalize, Stamped, stock, Applied, TypeOK
<1>9. CASE QuietStep
  <2>1. ReversedIsPosted'
    BY <1>9 DEF QuietStep, request, ReversedIsPosted, FlagsStay, TypeOK
  <2>2. QED
    BY <1>9, <2>1 DEF QuietStep, request, ReversalAsRecorded, SourceTakenBack, Applied
<1>10. QED
  BY <1>1, <1>2, <1>3, <1>4, <1>6, <1>7, <1>8, <1>9, StepKinds

\* Where accounting may finalize, the corrected goods stay in stock.
LEMMA RestockedStep ==
    ASSUME TypeOK, FlagsStay, CorrectionIsRestocked, [Next]_vars
    PROVE  CorrectionIsRestocked'
<1> DEFINE Late == {"waiting_accounting_finalize", "applied"}
<1>1. ASSUME stockIn \subseteq stockIn',
             \A r \in Requests : status'[r] \in Late => status[r] \in Late
      PROVE  CorrectionIsRestocked'
  BY <1>1 DEF CorrectionIsRestocked, FlagsStay, Returns
<1>2. ASSUME NEW r \in Requests, StockRepost(r) PROVE CorrectionIsRestocked'
  <2>1. r \in stockIn' /\ stockIn \subseteq stockIn' /\ returnOrder'[r].stockPosted
    BY <1>2 DEF StockRepost, ReceiptsAfter, Write, TypeOK, ReturnOrder, Returns
  <2>2. \A q \in Requests \ {r} : status'[q] = status[q]
    BY <1>2 DEF StockRepost, TypeOK
  <2>3. QED
    BY <2>1, <2>2 DEF CorrectionIsRestocked, FlagsStay, Returns
<1>3. CASE QuietStep
  BY <1>1, <1>3 DEF QuietStep, request
<1>4. CASE ~QuietStep /\ \A r \in Requests : ~StockRepost(r)
  <2>1. stockIn' = stockIn
    BY <1>4, StepKinds DEF LookAtSource, CreateRequest, ApproveRequest, RejectRequest,
          ApplyRequest, MarkFailed, WarehouseRecheck, AccountingFinalize, stock
  <2>2. \A q \in Requests : status'[q] \in Late => status[q] \in Late
    <3>1. ASSUME NEW r \in Requests, NEW new, new \notin Late,
                 status' = [status EXCEPT ![r] = new]
          PROVE  \A q \in Requests : status'[q] \in Late => status[q] \in Late
      BY <3>1 DEF TypeOK
    <3>2. ASSUME NEW r \in Requests, NEW d \in Returns, LookAtSource(r, d)
          PROVE  status' = status
      BY <3>2 DEF LookAtSource
    <3>3. ASSUME NEW r \in Requests,
                 CreateRequest(r) \/ ApproveRequest(r) \/ RejectRequest(r)
          PROVE  \E new : new \notin Late /\ status' = [status EXCEPT ![r] = new]
      BY <3>3 DEF CreateRequest, ApproveRequest, RejectRequest
    <3>4. ASSUME NEW a \in Appliers, NEW r \in Requests, ApplyRequest(a, r)
          PROVE  \E new : new \notin Late /\ status' = [status EXCEPT ![r] = new]
      BY <3>4 DEF ApplyRequest
    <3>5. ASSUME NEW a \in Appliers, MarkFailed(a)
          PROVE  \E r \in Requests : \E new : new \notin Late /\ status' = [status EXCEPT ![r] = new]
      BY <3>5 DEF MarkFailed, TypeOK
    <3>6. ASSUME NEW r \in Requests, NEW check \in {"matched", "discrepancy"},
                 WarehouseRecheck(r, check)
          PROVE  \E new : new \notin Late /\ status' = [status EXCEPT ![r] = new]
      BY <3>6 DEF WarehouseRecheck
    <3>7. ASSUME NEW r \in Requests, AccountingFinalize(r)
          PROVE  \A q \in Requests : status'[q] \in Late => status[q] \in Late
      BY <3>7 DEF AccountingFinalize, TypeOK
    <3> HIDE DEF Late
    <3>8. QED
      BY <1>4, <3>1, <3>2, <3>3, <3>4, <3>5, <3>6, <3>7, StepKinds
  <2>3. QED
    BY <1>1, <2>1, <2>2
<1>5. QED
  BY <1>2, <1>3, <1>4

-----------------------------------------------------------------------------
(* The theorems *)

\* Initially no request exists, and flags, movements and states agree.
LEMMA InitInv == Init => IInv
<1> SUFFICES ASSUME Init PROVE IInv
  OBVIOUS
<1>1. FlagsAgree
  <2>1. PICK waiting, received \in SUBSET Orders :
          /\ stockIn = Orders \ waiting
          /\ returnOrder = [d \in Returns |->
                [state |-> IF d \in Requests THEN "absent"
                           ELSE IF d \in waiting THEN "waiting_receive"
                           ELSE IF d \in received THEN "received"
                           ELSE "posted_to_ar",
                 check |-> IF d \in Orders THEN "matched" ELSE "pending",
                 stockPosted |-> d \in Orders \ waiting]]
    BY DEF Init
  <2>2. ASSUME NEW d \in Returns
        PROVE  /\ d \in stockIn => returnOrder[d].stockPosted
               /\ returnOrder[d].state \in {"received", "accounting_confirmed"}
                     => returnOrder[d].stockPosted
               /\ returnOrder[d].state = "absent" => ~returnOrder[d].stockPosted
    <3>1. CASE d \in Requests
      <4>1. d \notin Orders
        BY <3>1, ReturnCorrectionAssumption
      <4>2. returnOrder[d].state = "absent"
        BY <2>1, <3>1
      <4>3. returnOrder[d].stockPosted = (d \in Orders \ waiting)
        BY <2>1
      <4>4. QED
        BY <2>1, <4>1, <4>2, <4>3
    <3>2. CASE d \in Orders
      <4>1. d \notin Requests
        BY <3>2, ReturnCorrectionAssumption
      <4>2. returnOrder[d].state = IF d \in waiting THEN "waiting_receive"
                                   ELSE IF d \in received THEN "received"
                                   ELSE "posted_to_ar"
        BY <2>1, <4>1
      <4>3. returnOrder[d].stockPosted = (d \in Orders \ waiting)
        BY <2>1
      <4>4. QED
        BY <2>1, <3>2, <4>2, <4>3
    <3>3. QED
      BY <3>1, <3>2 DEF Returns
  <2>3. QED
    BY <2>2 DEF FlagsAgree, Exists
<1>2. ScreensSawReturns /\ CallsHaveRequests
  BY DEF Init, ScreensSawReturns, CallsHaveRequests
<1>3. SourcesExist /\ ReversedIsPosted
  BY DEF Init, SourcesExist, ReversedIsPosted
<1>4. FinalizedHasEnded /\ FinalizedOnce
  BY DEF Init, FinalizedHasEnded, FinalizedOnce
<1>5. ReversalAsRecorded /\ CorrectionIsRestocked /\ SourceTakenBack
  BY DEF Init, ReversalAsRecorded, CorrectionIsRestocked, SourceTakenBack, Applied
<1>6. QED
  BY <1>1, <1>2, <1>3, <1>4, <1>5, TypeInit DEF IInv

\* Every step preserves the invariant.
LEMMA StepInv == IInv /\ [Next]_vars => IInv'
<1> SUFFICES ASSUME IInv, [Next]_vars PROVE IInv'
  OBVIOUS
<1>1. TypeOK'
  BY TypeStep DEF IInv
<1>2. FlagsAgree' /\ FlagsStay /\ ScreensSawReturns'
  BY FlagsStep, ScreensStep DEF IInv
<1>3. SourcesExist' /\ CallsHaveRequests'
  BY <1>2, SourcesStep, CallsStep DEF IInv
<1>4. FinalizedHasEnded' /\ FinalizedOnce'
  BY FinalizedStep DEF IInv
<1>5. ReversedIsPosted' /\ ReversalAsRecorded' /\ SourceTakenBack'
  BY <1>2, ReversalStep DEF IInv
<1>6. CorrectionIsRestocked'
  BY <1>2, RestockedStep DEF IInv
<1>7. QED
  BY <1>1, <1>2, <1>3, <1>4, <1>5, <1>6 DEF IInv

\* IInv is an invariant of the specification.
LEMMA Invariance == Spec => []IInv
BY InitInv, StepInv, PTL DEF Spec

\* The collections and the calls keep their types.
THEOREM TypeCorrect == Spec => []TypeOK
<1>1. IInv => TypeOK
  BY DEF IInv
<1>2. QED
  BY <1>1, Invariance, PTL

\* Accounting finalizes a request at most once, however often it is marked
\* failed and applied again.
THEOREM CorrectionFinalizedOnce == Spec => []FinalizedOnce
<1>1. IInv => FinalizedOnce
  BY DEF IInv
<1>2. QED
  BY <1>1, Invariance, PTL

\* A request under way knows whether its source's stock was taken back.
THEOREM ReversalRecorded == Spec => []ReversalAsRecorded
<1>1. IInv => ReversalAsRecorded
  BY DEF IInv
<1>2. QED
  BY <1>1, Invariance, PTL

\* A request that accounting may finalize has its goods in stock.
THEOREM CorrectionRestocked == Spec => []CorrectionIsRestocked
<1>1. IInv => CorrectionIsRestocked
  BY DEF IInv
<1>2. QED
  BY <1>1, Invariance, PTL

\* An untouched source's goods are not in stock besides the corrected ones.
THEOREM UntouchedSourceTakenBack == Spec => []SourceTakenBack
<1>1. IInv => SourceTakenBack
  BY DEF IInv
<1>2. QED
  BY <1>1, Invariance, PTL
=============================================================================

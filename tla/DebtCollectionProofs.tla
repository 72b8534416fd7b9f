------------------------ MODULE DebtCollectionProofs ------------------------
(***************************************************************************)
(* What holds of DebtCollection for any orders, calls and amounts.  The    *)
(* argument is about transactions: a call that holds an order's lock holds *)
(* it alone and nobody has written it since the call's snapshot, while a   *)
(* collection the snapshot misses has left its locks and its key marked as *)
(* changed.  So a lock that can be written is a lock whose collections are *)
(* all in the snapshot.                                                    *)
(*                                                                         *)
(* The second half is about amounts: sums over the collections of a state, *)
(* which are finitely many.  A complete snapshot bounds what is collected; *)
(* a confirmation takes no lock, and is bounded because of two clerks who  *)
(* confirm at once the later one counted the collection of the other.      *)
(*                                                                         *)
(* Together they make the service an implementation of DebtBook.           *)
(***************************************************************************)
EXTENDS DebtCollection, SumTheorems, TLAPS

\* Locks are written by open transactions, for their own orders, by one at a
\* time, and not if another has written them since the snapshot.
LocksAreHeldAlone ==
    /\ \A c \in Calls : held[c] # {} => pc[c] = "open"
    /\ \A c, d \in Calls : c # d => held[c] \cap held[d] = {}
    /\ \A c \in Calls : \A n \in held[c] : Lock(n) \notin changed[c]

\* A collection created behind an open submit call's back is on record.
UnseenIsMarked ==
    \A c, d \in Calls :
        pc[c] = "open" /\ col[d] # "absent" /\ snap[c].col[d] = "absent"
        => Locks(LocksOf(d)) \cup KeyDoc(d) \subseteq changed[c]

\* A collection nobody has written since the clerk's snapshot is as it was.
UnmarkedIsSubmitted ==
    \A a \in Clerks :
        doc[a] # NoDoc /\ <<"collection", doc[a]>> \notin changed[a]
        => col[doc[a]] = "submitted"

OnlyCreatedExist ==
    \A c \in Calls : pc[c] # "created" => col[c] = "absent"

\* The lookup found no active collection with the key, and a rejected one in
\* the snapshot stays rejected.
LookupFoundNone ==
    \A c, d \in Calls :
        pc[c] = "open" /\ SameKey(c, d)
        => \/ snap[c].col[d] = "absent"
           \/ snap[c].col[d] = "rejected" /\ col[d] = "rejected"

IInv ==
    /\ TypeOK
    /\ LocksAreHeldAlone
    /\ UnseenIsMarked
    /\ UnmarkedIsSubmitted
    /\ OnlyCreatedExist
    /\ LookupFoundNone
    /\ PostedIffConfirmed
    /\ OneCollectionPerKey
    /\ RepeatIsAnswered

-----------------------------------------------------------------------------
\* The lock an operation takes next is one of the order names.
LEMMA LocksOfType ==
    ASSUME NEW c \in Calls
    PROVE  LocksOf(c) \subseteq LockNames
BY DebtCollectionAssumption DEF LocksOf, LockName, OrdersOf, LockNames

\* What a call marks are documents.
LEMMA DocumentTypes ==
    /\ \A n \in LockNames : Lock(n) \in Documents
    /\ \A c \in Calls : KeyDoc(c) \subseteq Documents
    /\ \A c \in Calls : <<"collection", c>> \in Documents
    /\ \A c \in Calls : ConfirmWrites(c) \subseteq Documents
<1>1. \A n \in LockNames : Lock(n) \in Documents
  BY DEF Lock, Documents
<1>2. \A c \in Calls : KeyDoc(c) \subseteq Documents
  BY DEF KeyDoc, Documents, Keys
<1>3. \A c \in Calls : <<"collection", c>> \in Documents
  BY DEF Documents
<1>4. \A c \in Calls : ConfirmWrites(c) \subseteq Documents
  BY <1>3 DEF ConfirmWrites, ExternalOf, Documents
<1> QED BY <1>1, <1>2, <1>3, <1>4

\* Locks, keys and collections are different documents.
LEMMA DocumentsDiffer ==
    /\ \A m, n \in LockNames : m # n => Lock(m) # Lock(n)
    /\ \A n, c : Lock(n) # <<"collection", c>>
    /\ \A n : \A c \in Calls : Lock(n) \notin KeyDoc(c)
    /\ \A n, o : Lock(n) # <<"external", o>>
    /\ \A c \in Calls : \A d : <<"collection", d>> \notin KeyDoc(c)
BY DEF Lock, KeyDoc

LEMMA StartType ==
    ASSUME TypeOK, NEW t \in Txns, Start(t)
    PROVE  /\ snap' \in [Txns -> Snapshot]
           /\ changed' \in [Txns -> SUBSET Documents]
BY DEF TypeOK, Start, Now, Snapshot

LEMMA FinishType ==
    ASSUME TypeOK, NEW t \in Txns, NEW W \in SUBSET Documents, Finish(t, W)
    PROVE  /\ snap' \in [Txns -> Snapshot]
           /\ changed' \in [Txns -> SUBSET Documents]
<1>1. NoSnapshot \in Snapshot
  BY DEF NoSnapshot, Snapshot, Status
<1> QED BY <1>1 DEF TypeOK, Finish

LEMMA WriteType ==
    ASSUME TypeOK, NEW W \in SUBSET Documents, Write(W)
    PROVE  /\ snap' \in [Txns -> Snapshot]
           /\ changed' \in [Txns -> SUBSET Documents]
BY DEF TypeOK, Write

LEMMA InitInv == Init => IInv
<1> SUFFICES ASSUME Init PROVE IInv
  OBVIOUS
<1>1. TypeOK
  <2>1. NoSnapshot \in Snapshot
    BY DEF NoSnapshot, Snapshot, Status
  <2> QED BY <2>1, DebtCollectionAssumption DEF Init, TypeOK, Status
<1>2. LocksAreHeldAlone
  BY DEF Init, LocksAreHeldAlone
<1>3. UnseenIsMarked /\ UnmarkedIsSubmitted /\ OnlyCreatedExist /\ LookupFoundNone
  BY DEF Init, UnseenIsMarked, UnmarkedIsSubmitted, OnlyCreatedExist, LookupFoundNone
<1>4. PostedIffConfirmed /\ OneCollectionPerKey /\ RepeatIsAnswered
  BY DEF Init, PostedIffConfirmed, OneCollectionPerKey, RepeatIsAnswered
<1> QED BY <1>1, <1>2, <1>3, <1>4 DEF IInv

LEMMA TypeStep == TypeOK /\ [Next]_vars => TypeOK'
<1> SUFFICES ASSUME TypeOK, [Next]_vars PROVE TypeOK'
  OBVIOUS
<1> USE DebtCollectionAssumption
<1>1. ASSUME NEW c \in Calls, Submit(c) PROVE TypeOK'
  BY <1>1 DEF Submit, TypeOK, database
<1>2. ASSUME NEW c \in Calls, EnsureLock(c) PROVE TypeOK'
  <2>1. PICK n \in LockNames : /\ ensured' = [ensured EXCEPT ![c] = @ \cup {n}]
                               /\ Write({Lock(n)})
    BY <1>2 DEF EnsureLock
  <2>2. {Lock(n)} \in SUBSET Documents
    BY DocumentTypes
  <2>3. snap' \in [Txns -> Snapshot] /\ changed' \in [Txns -> SUBSET Documents]
    BY <2>1, <2>2, WriteType
  <2> QED BY <1>2, <2>1, <2>3 DEF EnsureLock, TypeOK, database
<1>3. ASSUME NEW c \in Calls, AnswerExisting(c) PROVE TypeOK'
  BY <1>3 DEF AnswerExisting, TypeOK, database, Ended
<1>4. ASSUME NEW c \in Calls, OpenSubmit(c) PROVE TypeOK'
  <2>1. c \in Txns /\ Start(c)
    BY <1>4 DEF OpenSubmit, Txns
  <2>2. snap' \in [Txns -> Snapshot] /\ changed' \in [Txns -> SUBSET Documents]
    BY <2>1, StartType
  <2> QED BY <1>4, <2>2 DEF OpenSubmit, TypeOK, database
<1>5. ASSUME NEW c \in Calls, LockOrder(c) PROVE TypeOK'
  BY <1>5 DEF LockOrder, TypeOK, database
<1>6. ASSUME NEW c \in Calls, Retry(c) \/ Lose(c) PROVE TypeOK'
  <2>1. c \in Txns /\ Finish(c, {})
    BY <1>6 DEF Retry, Lose, Txns
  <2>2. snap' \in [Txns -> Snapshot] /\ changed' \in [Txns -> SUBSET Documents]
    BY <2>1, FinishType
  <2> QED BY <1>6, <2>2 DEF Retry, Lose, TypeOK, database, Ended
<1>7. ASSUME NEW c \in Calls, Refuse(c) PROVE TypeOK'
  <2>1. c \in Txns /\ Finish(c, Locks(held[c]))
    BY <1>7 DEF Refuse, Txns
  <2>2. Locks(held[c]) \in SUBSET Documents
    BY DocumentTypes DEF Locks, TypeOK
  <2>3. snap' \in [Txns -> Snapshot] /\ changed' \in [Txns -> SUBSET Documents]
    BY <2>1, <2>2, FinishType
  <2> QED BY <1>7, <2>3 DEF Refuse, TypeOK, database, Ended
<1>8. ASSUME NEW c \in Calls, Create(c) PROVE TypeOK'
  <2> DEFINE W == Locks(held[c]) \cup KeyDoc(c) \cup {<<"collection", c>>}
  <2>1. c \in Txns /\ (Finish(c, {}) \/ Finish(c, W))
    BY <1>8 DEF Create, Txns
  <2>2. W \in SUBSET Documents
    BY DocumentTypes DEF Locks, TypeOK
  <2>3. snap' \in [Txns -> Snapshot] /\ changed' \in [Txns -> SUBSET Documents]
    <3> HIDE DEF W
    <3> QED BY <2>1, <2>2, FinishType
  <2>4. col' \in [Calls -> Status] /\ pc' \in [Calls -> {"idle", "preparing", "open"} \cup Ended]
    BY <1>8 DEF Create, TypeOK, Status, Active, Ended
  <2> QED BY <1>8, <2>3, <2>4 DEF Create, TypeOK
<1>9. ASSUME NEW c \in Calls, Reject(c) PROVE TypeOK'
  <2>1. {<<"collection", c>>} \in SUBSET Documents /\ Write({<<"collection", c>>})
    BY <1>9, DocumentTypes DEF Reject
  <2>2. snap' \in [Txns -> Snapshot] /\ changed' \in [Txns -> SUBSET Documents]
    BY <2>1, WriteType
  <2> QED BY <1>9, <2>2 DEF Reject, TypeOK, Status
<1>10. ASSUME NEW a \in Clerks, NEW c \in Calls, OpenConfirm(a, c) PROVE TypeOK'
  <2>1. a \in Txns /\ Start(a)
    BY <1>10 DEF OpenConfirm, Txns
  <2>2. snap' \in [Txns -> Snapshot] /\ changed' \in [Txns -> SUBSET Documents]
    BY <2>1, StartType
  <2> QED BY <1>10, <2>2 DEF OpenConfirm, TypeOK, database
<1>11. ASSUME NEW a \in Clerks, RefuseConfirm(a) \/ AbortConfirm(a) PROVE TypeOK'
  <2>1. a \in Txns /\ Finish(a, {})
    BY <1>11 DEF RefuseConfirm, AbortConfirm, EndConfirm, Txns
  <2>2. snap' \in [Txns -> Snapshot] /\ changed' \in [Txns -> SUBSET Documents]
    BY <2>1, FinishType
  <2> QED BY <1>11, <2>2 DEF RefuseConfirm, AbortConfirm, EndConfirm, TypeOK, database
<1>12. ASSUME NEW a \in Clerks, Confirm(a) PROVE TypeOK'
  <2>1. doc[a] \in Calls /\ a \in Txns /\ Finish(a, ConfirmWrites(doc[a]))
    BY <1>12 DEF Confirm, EndConfirm, Txns, TypeOK
  <2>2. ConfirmWrites(doc[a]) \in SUBSET Documents
    BY <2>1, DocumentTypes
  <2>3. snap' \in [Txns -> Snapshot] /\ changed' \in [Txns -> SUBSET Documents]
    BY <2>1, <2>2, FinishType
  <2>4. /\ DOMAIN external' = ExternalOrders
        /\ \A o \in ExternalOrders : external'[o].paid \in Nat
    <3>1. \A o \in ExternalOrders : Alloc[doc[a]][o] \in Nat
      BY <2>1
    <3>2. \A o \in ExternalOrders :
            external'[o].paid \in {external[o].paid, external[o].paid + Alloc[doc[a]][o]}
      BY <1>12 DEF Confirm
    <3>3. DOMAIN external' = ExternalOrders
      BY <1>12 DEF Confirm
    <3> QED BY <3>1, <3>2, <3>3 DEF TypeOK
  <2>5. /\ col' \in [Calls -> Status]
        /\ receipts' \subseteq Calls /\ fund' \subseteq Calls /\ doc' \in [Clerks -> Calls \cup {NoDoc}]
    BY <1>12, <2>1 DEF Confirm, EndConfirm, TypeOK, Status, Active
  <2> QED BY <1>12, <2>3, <2>4, <2>5 DEF Confirm, TypeOK
<1>13. ASSUME NEW o \in Orders, CreditOrder(o) PROVE TypeOK'
  BY <1>13 DEF CreditOrder, TypeOK
<1>14. CASE UNCHANGED vars
  BY <1>14 DEF vars, database, TypeOK
<1> QED
  BY <1>1, <1>2, <1>3, <1>4, <1>5, <1>6, <1>7, <1>8, <1>9, <1>10, <1>11, <1>12,
     <1>13, <1>14 DEF Next, Advance

-----------------------------------------------------------------------------
\* The end of a transaction leaves the others their snapshot and adds what it
\* has written to their marks.
LEMMA FinishOthers ==
    ASSUME TypeOK, NEW t \in Txns, NEW W, Finish(t, W), NEW u \in Txns, u # t
    PROVE  /\ snap'[u] = snap[u]
           /\ Open(u) => changed'[u] = changed[u] \cup W
BY DEF Finish, TypeOK

LEMMA WriteOthers ==
    ASSUME TypeOK, NEW W, Write(W), NEW u \in Txns
    PROVE  /\ snap'[u] = snap[u]
           /\ Open(u) => changed'[u] = changed[u] \cup W
BY DEF Write, TypeOK

LEMMA StartOthers ==
    ASSUME TypeOK, NEW t \in Txns, Start(t), NEW u \in Txns, u # t
    PROVE  snap'[u] = snap[u] /\ changed'[u] = changed[u]
BY DEF Start, TypeOK

LEMMA OpenTxns ==
    /\ \A c \in Calls : c \in Txns /\ (Open(c) <=> pc[c] = "open")
    /\ \A a \in Clerks : a \in Txns /\ (Open(a) <=> doc[a] # NoDoc)
    /\ \A c \in Calls, a \in Clerks : a # c
BY DebtCollectionAssumption DEF Txns, Open

\* What the end of a call's transaction does to the other calls: all of a
\* commit, a refusal and an abort that the lock invariants see.
LEMMA LocksAfterEnd ==
    ASSUME TypeOK, LocksAreHeldAlone,
           NEW c \in Calls, NEW W, Finish(c, W),
           \A n \in LockNames : Lock(n) \in W => n \in held[c],
           held' = [held EXCEPT ![c] = {}],
           NEW p, pc' = [pc EXCEPT ![c] = p]
    PROVE  LocksAreHeldAlone'
<1>1. \A d \in Calls : held'[d] # {} => d # c /\ held'[d] = held[d] /\ pc'[d] = "open"
  BY DEF LocksAreHeldAlone, TypeOK
<1>2. \A d \in Calls : \A n \in held'[d] : Lock(n) \notin changed'[d]
  <2> SUFFICES ASSUME NEW d \in Calls, NEW n \in held'[d]
               PROVE  Lock(n) \notin changed'[d]
    OBVIOUS
  <2>1. d # c /\ held'[d] = held[d] /\ pc[d] = "open"
    BY <1>1 DEF LocksAreHeldAlone
  <2>2. n \in LockNames
    BY <2>1 DEF TypeOK
  <2>3. n \notin held[c] /\ Lock(n) \notin changed[d]
    BY <2>1 DEF LocksAreHeldAlone
  <2>4. changed'[d] = changed[d] \cup W
    BY <2>1, FinishOthers, OpenTxns
  <2> QED BY <2>2, <2>3, <2>4
<1>3. \A d, e \in Calls : d # e => held'[d] \cap held'[e] = {}
  BY DEF LocksAreHeldAlone, TypeOK
<1> QED BY <1>1, <1>2, <1>3 DEF LocksAreHeldAlone

\* A clerk's step, or a step outside the transactions, that writes no lock.
LEMMA LocksAfterWrite ==
    ASSUME TypeOK, LocksAreHeldAlone, NEW W,
           \A u \in Calls : Open(u) => changed'[u] \subseteq changed[u] \cup W,
           \A d \in Calls : \A n \in held[d] : Lock(n) \notin W,
           UNCHANGED <<held, pc>>
    PROVE  LocksAreHeldAlone'
<1>1. \A d \in Calls : \A n \in held[d] : Lock(n) \notin changed'[d]
  BY OpenTxns DEF LocksAreHeldAlone
<1> QED BY <1>1 DEF LocksAreHeldAlone

\* Mutual exclusion, and freshness, of the order locks.
LEMMA LocksStep == TypeOK /\ LocksAreHeldAlone /\ [Next]_vars => LocksAreHeldAlone'
<1> SUFFICES ASSUME TypeOK, LocksAreHeldAlone, [Next]_vars
             PROVE  LocksAreHeldAlone'
  OBVIOUS
<1>1. ASSUME NEW c \in Calls, Submit(c) \/ AnswerExisting(c) PROVE LocksAreHeldAlone'
  BY <1>1 DEF Submit, AnswerExisting, LocksAreHeldAlone, TypeOK
<1>2. ASSUME NEW c \in Calls, EnsureLock(c) PROVE LocksAreHeldAlone'
  <2>1. PICK n \in LockNames : (\A d \in Calls : n \notin held[d]) /\ Write({Lock(n)})
    BY <1>2 DEF EnsureLock
  <2>2. \A u \in Calls : Open(u) => changed'[u] \subseteq changed[u] \cup {Lock(n)}
    BY <2>1, WriteOthers, OpenTxns
  <2>3. \A d \in Calls : \A m \in held[d] : Lock(m) \notin {Lock(n)}
    BY <2>1 DEF Lock
  <2> QED BY <1>2, <2>2, <2>3, LocksAfterWrite DEF EnsureLock
<1>3. ASSUME NEW c \in Calls, OpenSubmit(c) PROVE LocksAreHeldAlone'
  BY <1>3, StartOthers, OpenTxns DEF OpenSubmit, LocksAreHeldAlone, TypeOK
<1>4. ASSUME NEW c \in Calls, LockOrder(c) PROVE LocksAreHeldAlone'
  <2>1. PICK n \in LockNames : /\ ~LockConflict(c, n)
                               /\ held' = [held EXCEPT ![c] = @ \cup {n}]
    BY <1>4 DEF LockOrder
  <2>2. pc[c] = "open" /\ UNCHANGED <<pc, changed>>
    BY <1>4 DEF LockOrder
  <2> QED BY <2>1, <2>2 DEF LockConflict, LocksAreHeldAlone, TypeOK
<1>5. ASSUME NEW c \in Calls, Retry(c) \/ Lose(c) PROVE LocksAreHeldAlone'
  <2> DEFINE None == {}
  <2>1. Finish(c, None) /\ held' = [held EXCEPT ![c] = {}]
    BY <1>5 DEF Retry, Lose
  <2>2. PICK p \in {"preparing", "lost"} : pc' = [pc EXCEPT ![c] = p]
    BY <1>5 DEF Retry, Lose
  <2>3. \A n \in LockNames : Lock(n) \notin None
    OBVIOUS
  <2> HIDE DEF None
  <2> QED BY <2>1, <2>2, <2>3, LocksAfterEnd
<1>6. ASSUME NEW c \in Calls, Refuse(c) PROVE LocksAreHeldAlone'
  <2>1. /\ Finish(c, Locks(held[c])) /\ held' = [held EXCEPT ![c] = {}]
        /\ pc' = [pc EXCEPT ![c] = "refused"]
    BY <1>6 DEF Refuse
  <2>2. \A n \in LockNames : Lock(n) \in Locks(held[c]) => n \in held[c]
    BY DEF Locks, Lock
  <2> QED BY <2>1, <2>2, LocksAfterEnd
<1>7. ASSUME NEW c \in Calls, Create(c) PROVE LocksAreHeldAlone'
  <2> DEFINE W == Locks(held[c]) \cup KeyDoc(c) \cup {<<"collection", c>>}
  <2>1. /\ Finish(c, {}) \/ Finish(c, W)
        /\ held' = [held EXCEPT ![c] = {}]
    BY <1>7 DEF Create
  <2>p. PICK p \in {"duplicate_key", "created"} : pc' = [pc EXCEPT ![c] = p]
    BY <1>7 DEF Create
  <2>2. \A n \in LockNames : Lock(n) \in W => n \in held[c]
    BY DocumentsDiffer DEF Locks, Lock
  <2> HIDE DEF W
  <2>3. CASE Finish(c, {})
    <3> DEFINE None == {}
    <3>1. Finish(c, None) /\ (\A n \in LockNames : Lock(n) \notin None)
      BY <2>3
    <3> HIDE DEF None
    <3> QED BY <2>1, <2>p, <3>1, LocksAfterEnd
  <2>4. CASE Finish(c, W)
    BY <2>1, <2>p, <2>2, <2>4, LocksAfterEnd
  <2> QED BY <2>1, <2>3, <2>4
<1>8. ASSUME NEW c \in Calls, Reject(c) PROVE LocksAreHeldAlone'
  <2>1. Write({<<"collection", c>>}) /\ UNCHANGED <<held, pc>>
    BY <1>8 DEF Reject
  <2>2. \A u \in Calls : Open(u) => changed'[u] \subseteq changed[u] \cup {<<"collection", c>>}
    BY <2>1, WriteOthers, OpenTxns
  <2> QED BY <2>1, <2>2, LocksAfterWrite, DocumentsDiffer
<1>9. ASSUME NEW a \in Clerks, NEW c \in Calls, OpenConfirm(a, c) PROVE LocksAreHeldAlone'
  BY <1>9, StartOthers, OpenTxns DEF OpenConfirm, LocksAreHeldAlone
<1>10. ASSUME NEW a \in Clerks, RefuseConfirm(a) \/ AbortConfirm(a) \/ Confirm(a)
       PROVE  LocksAreHeldAlone'
  <2>1. PICK W \in {{}, ConfirmWrites(doc[a])} : Finish(a, W)
    BY <1>10 DEF RefuseConfirm, AbortConfirm, Confirm, EndConfirm
  <2>2. UNCHANGED <<held, pc>>
    BY <1>10 DEF RefuseConfirm, AbortConfirm, Confirm, database
  <2>3. \A u \in Calls : Open(u) => changed'[u] \subseteq changed[u] \cup W
    BY <2>1, FinishOthers, OpenTxns
  <2>4. \A n : Lock(n) \notin W
    BY <2>1, DocumentsDiffer DEF ConfirmWrites
  <2> QED BY <2>2, <2>3, <2>4, LocksAfterWrite
<1>11. ASSUME NEW o \in Orders, CreditOrder(o) PROVE LocksAreHeldAlone'
  BY <1>11 DEF CreditOrder, LocksAreHeldAlone
<1>12. CASE UNCHANGED vars
  BY <1>12 DEF vars, LocksAreHeldAlone
<1> QED
  BY <1>1, <1>2, <1>3, <1>4, <1>5, <1>6, <1>7, <1>8, <1>9, <1>10, <1>11, <1>12
  DEF Next, Advance

\* The collections a submit call misses have left their marks with it.
LEMMA UnseenStep ==
    TypeOK /\ UnseenIsMarked /\ UnmarkedIsSubmitted /\ [Next]_vars => UnseenIsMarked'
<1> SUFFICES ASSUME TypeOK, UnseenIsMarked, UnmarkedIsSubmitted, [Next]_vars,
                    NEW c \in Calls, NEW d \in Calls,
                    pc'[c] = "open", col'[d] # "absent", snap'[c].col[d] = "absent"
             PROVE  Locks(LocksOf(d)) \cup KeyDoc(d) \subseteq changed'[c]
  BY DEF UnseenIsMarked
<1> DEFINE Marks == Locks(LocksOf(d)) \cup KeyDoc(d)
\* A step that leaves c its snapshot and its marks, and creates nothing.
<1>a. ASSUME pc[c] = "open", snap'[c] = snap[c], changed[c] \subseteq changed'[c],
             col[d] # "absent"
      PROVE  Marks \subseteq changed'[c]
  BY <1>a DEF UnseenIsMarked
<1> HIDE DEF Marks
<1>1. ASSUME NEW e \in Calls, Submit(e) \/ AnswerExisting(e) \/ LockOrder(e)
      PROVE  Marks \subseteq changed'[c]
  <2>1. pc[c] = "open" /\ UNCHANGED <<snap, changed, col>>
    BY <1>1 DEF Submit, AnswerExisting, LockOrder, TypeOK, database
  <2> QED BY <2>1, <1>a
<1>2. ASSUME NEW e \in Calls, EnsureLock(e) PROVE Marks \subseteq changed'[c]
  <2>1. PICK n \in LockNames : Write({Lock(n)})
    BY <1>2 DEF EnsureLock
  <2>2. pc[c] = "open" /\ UNCHANGED col
    BY <1>2 DEF EnsureLock, database
  <2> QED BY <2>1, <2>2, <1>a, WriteOthers, OpenTxns
<1>3. ASSUME NEW e \in Calls, OpenSubmit(e) PROVE Marks \subseteq changed'[c]
  <2>1. Start(e) /\ UNCHANGED col
    BY <1>3 DEF OpenSubmit, database
  <2>2. CASE c = e
    <3>1. snap'[c].col = col
      BY <2>1, <2>2, OpenTxns DEF Start, Now, TypeOK
    <3> QED BY <2>1, <3>1
  <2>3. CASE c # e
    <3>1. pc[c] = "open"
      BY <1>3, <2>3 DEF OpenSubmit, TypeOK
    <3> QED BY <2>1, <2>3, <3>1, <1>a, StartOthers, OpenTxns
  <2> QED BY <2>2, <2>3
<1>4. ASSUME NEW e \in Calls, Retry(e) \/ Lose(e) \/ Refuse(e)
      PROVE  Marks \subseteq changed'[c]
  <2>1. PICK W \in {{}, Locks(held[e])} : Finish(e, W)
    BY <1>4 DEF Retry, Lose, Refuse
  <2>2. c # e /\ pc[c] = "open" /\ UNCHANGED col
    BY <1>4 DEF Retry, Lose, Refuse, TypeOK, database
  <2> QED BY <2>1, <2>2, <1>a, FinishOthers, OpenTxns
<1>5. ASSUME NEW e \in Calls, Create(e) PROVE Marks \subseteq changed'[c]
  <2> DEFINE W == Locks(held[e]) \cup KeyDoc(e) \cup {<<"collection", e>>}
  <2>1. c # e /\ pc[c] = "open"
    BY <1>5 DEF Create, TypeOK
  <2>2. CASE KeyTaken(e)
    <3>1. Finish(e, {}) /\ UNCHANGED col
      BY <1>5, <2>2 DEF Create
    <3> QED BY <2>1, <3>1, <1>a, FinishOthers, OpenTxns
  <2>3. CASE ~KeyTaken(e)
    <3>1. Finish(e, W) /\ col' = [col EXCEPT ![e] = "submitted"]
      BY <1>5, <2>3 DEF Create
    <3>2. snap'[c] = snap[c] /\ changed'[c] = changed[c] \cup W
      <4> HIDE DEF W
      <4> QED BY <2>1, <3>1, FinishOthers, OpenTxns
    <3>3. CASE d = e
      <4>1. held[e] = LocksOf(e)
        BY <1>5 DEF Create
      <4> QED BY <3>2, <3>3, <4>1 DEF Marks
    <3>4. CASE d # e
      <4>1. col[d] # "absent"
        BY <3>1, <3>4 DEF TypeOK
      <4> QED BY <2>1, <3>2, <4>1, <1>a
    <3> QED BY <3>3, <3>4
  <2> QED BY <2>2, <2>3
<1>6. ASSUME NEW e \in Calls, Reject(e) PROVE Marks \subseteq changed'[c]
  <2>1. Write({<<"collection", e>>}) /\ pc[c] = "open" /\ col[d] # "absent"
    BY <1>6 DEF Reject, RejectApplies, TypeOK
  <2> QED BY <2>1, <1>a, WriteOthers, OpenTxns
<1>7. ASSUME NEW a \in Clerks, NEW e \in Calls, OpenConfirm(a, e)
      PROVE  Marks \subseteq changed'[c]
  <2>1. Start(a) /\ pc[c] = "open" /\ UNCHANGED col
    BY <1>7 DEF OpenConfirm, database
  <2> QED BY <2>1, <1>a, StartOthers, OpenTxns
<1>8. ASSUME NEW a \in Clerks, RefuseConfirm(a) \/ AbortConfirm(a)
      PROVE  Marks \subseteq changed'[c]
  <2>1. Finish(a, {}) /\ pc[c] = "open" /\ UNCHANGED col
    BY <1>8 DEF RefuseConfirm, AbortConfirm, EndConfirm, database
  <2> QED BY <2>1, <1>a, FinishOthers, OpenTxns
<1>9. ASSUME NEW a \in Clerks, Confirm(a)
      PROVE  Marks \subseteq changed'[c]
  <2>1. Finish(a, ConfirmWrites(doc[a])) /\ pc[c] = "open"
    BY <1>9 DEF Confirm, EndConfirm
  <2>2. col[d] # "absent"
    <3>1. col[doc[a]] = "submitted"
      BY <1>9 DEF Confirm, ConfirmConflict, ConfirmWrites, UnmarkedIsSubmitted
    <3> QED BY <1>9, <3>1 DEF Confirm, TypeOK
  <2> QED BY <2>1, <2>2, <1>a, FinishOthers, OpenTxns
<1>10. ASSUME NEW o \in Orders, CreditOrder(o) PROVE Marks \subseteq changed'[c]
  <2>1. pc[c] = "open" /\ UNCHANGED <<snap, changed, col>>
    BY <1>10 DEF CreditOrder
  <2> QED BY <2>1, <1>a
<1>11. ASSUME UNCHANGED vars PROVE Marks \subseteq changed'[c]
  <2>1. pc[c] = "open" /\ UNCHANGED <<snap, changed, col>>
    BY <1>11 DEF vars, database
  <2> QED BY <2>1, <1>a
<1>12. Marks \subseteq changed'[c]
  BY <1>1, <1>2, <1>3, <1>4, <1>5, <1>6, <1>7, <1>8, <1>9, <1>10, <1>11
  DEF Next, Advance
<1> QED BY <1>12 DEF Marks

\* What a clerk's snapshot says of its collection holds until somebody marks
\* it, and a call that has not created its collection has none.
LEMMA CollectionStep ==
    TypeOK /\ UnmarkedIsSubmitted /\ OnlyCreatedExist /\ PostedIffConfirmed /\ [Next]_vars
    => UnmarkedIsSubmitted' /\ OnlyCreatedExist' /\ PostedIffConfirmed'
<1> SUFFICES ASSUME TypeOK, UnmarkedIsSubmitted, OnlyCreatedExist, PostedIffConfirmed, [Next]_vars
             PROVE  UnmarkedIsSubmitted' /\ OnlyCreatedExist' /\ PostedIffConfirmed'
  OBVIOUS
<1> DEFINE Goal == UnmarkedIsSubmitted' /\ OnlyCreatedExist' /\ PostedIffConfirmed'
           Kept(a) == doc'[a] # NoDoc =>
                         doc'[a] = doc[a] /\ changed[a] \subseteq changed'[a]
\* A step that decides nothing.
<1>a. ASSUME UNCHANGED <<col, receipts, fund>>,
             \A a \in Clerks : Kept(a),
             \A c \in Calls : pc[c] = "created" => pc'[c] = "created"
      PROVE  Goal
  <2>1. UnmarkedIsSubmitted'
    BY <1>a DEF UnmarkedIsSubmitted
  <2> QED BY <1>a, <2>1 DEF OnlyCreatedExist, PostedIffConfirmed
<1>1. ASSUME NEW c \in Calls, Submit(c) \/ AnswerExisting(c) \/ LockOrder(c) PROVE Goal
  <2>1. /\ UNCHANGED <<col, receipts, fund, doc, changed>>
        /\ \A d \in Calls : pc[d] = "created" => pc'[d] = "created"
    BY <1>1 DEF Submit, AnswerExisting, LockOrder, TypeOK, database
  <2> HIDE DEF Goal
  <2> QED BY <2>1, <1>a
<1>2. ASSUME NEW c \in Calls, EnsureLock(c) PROVE Goal
  <2>1. PICK n \in LockNames : Write({Lock(n)})
    BY <1>2 DEF EnsureLock
  <2>2. UNCHANGED <<col, receipts, fund, doc, pc>>
    BY <1>2 DEF EnsureLock, database
  <2>3. \A a \in Clerks : Kept(a)
    BY <2>1, <2>2, WriteOthers, OpenTxns
  <2> HIDE DEF Goal, Kept
  <2> QED BY <2>2, <2>3, <1>a
<1>3. ASSUME NEW c \in Calls, OpenSubmit(c) PROVE Goal
  <2>1. /\ Start(c) /\ UNCHANGED <<col, receipts, fund, doc>>
        /\ \A d \in Calls : pc[d] = "created" => pc'[d] = "created"
    BY <1>3 DEF OpenSubmit, TypeOK, database
  <2>2. \A a \in Clerks : Kept(a)
    BY <2>1, StartOthers, OpenTxns
  <2> HIDE DEF Goal, Kept
  <2> QED BY <2>1, <2>2, <1>a
<1>4. ASSUME NEW c \in Calls, Retry(c) \/ Lose(c) \/ Refuse(c) PROVE Goal
  <2>1. PICK W \in {{}, Locks(held[c])} : Finish(c, W)
    BY <1>4 DEF Retry, Lose, Refuse
  <2>2. /\ UNCHANGED <<col, receipts, fund, doc>>
        /\ \A d \in Calls : pc[d] = "created" => pc'[d] = "created"
    BY <1>4 DEF Retry, Lose, Refuse, TypeOK, database
  <2>3. \A a \in Clerks : Kept(a)
    BY <2>1, <2>2, FinishOthers, OpenTxns
  <2> HIDE DEF Goal, Kept
  <2> QED BY <2>2, <2>3, <1>a
<1>5. ASSUME NEW c \in Calls, Create(c) PROVE Goal
  <2>1. PICK W : Finish(c, W)
    BY <1>5 DEF Create
  <2>2. \A a \in Clerks : Kept(a)
    BY <1>5, <2>1, FinishOthers, OpenTxns DEF Create
  <2>3. CASE KeyTaken(c)
    <3>1. /\ UNCHANGED <<col, receipts, fund, doc>>
          /\ \A d \in Calls : pc[d] = "created" => pc'[d] = "created"
      BY <1>5, <2>3 DEF Create, TypeOK
    <3> HIDE DEF Goal, Kept
    <3> QED BY <2>2, <3>1, <1>a
  <2>4. CASE ~KeyTaken(c)
    <3>1. /\ pc' = [pc EXCEPT ![c] = "created"] /\ col' = [col EXCEPT ![c] = "submitted"]
          /\ UNCHANGED <<receipts, fund, doc>>
      BY <1>5, <2>4 DEF Create
    <3>2. col[c] = "absent"
      BY <1>5 DEF Create, OnlyCreatedExist
    <3>3. UnmarkedIsSubmitted'
      BY <2>2, <3>1 DEF UnmarkedIsSubmitted, TypeOK
    <3>4. OnlyCreatedExist'
      BY <3>1 DEF OnlyCreatedExist, TypeOK
    <3>5. PostedIffConfirmed'
      BY <3>1, <3>2 DEF PostedIffConfirmed, TypeOK
    <3> QED BY <3>3, <3>4, <3>5
  <2> QED BY <2>3, <2>4
<1>6. ASSUME NEW c \in Calls, Reject(c) PROVE Goal
  <2>1. /\ col[c] = "submitted" /\ col' = [col EXCEPT ![c] = "rejected"]
        /\ Write({<<"collection", c>>}) /\ UNCHANGED <<receipts, fund, pc, doc>>
    BY <1>6 DEF Reject, RejectApplies
  <2>2. UnmarkedIsSubmitted'
    <3>1. \A a \in Clerks : doc[a] # NoDoc => changed'[a] = changed[a] \cup {<<"collection", c>>}
      BY <2>1, WriteOthers, OpenTxns
    <3> QED BY <2>1, <3>1 DEF UnmarkedIsSubmitted, TypeOK
  <2>3. OnlyCreatedExist'
    BY <2>1 DEF OnlyCreatedExist, TypeOK
  <2>4. PostedIffConfirmed'
    BY <2>1 DEF PostedIffConfirmed, TypeOK
  <2> QED BY <2>2, <2>3, <2>4
<1>7. ASSUME NEW a \in Clerks, NEW c \in Calls, OpenConfirm(a, c) PROVE Goal
  <2>1. /\ col[c] = "submitted" /\ doc' = [doc EXCEPT ![a] = c] /\ Start(a)
        /\ UNCHANGED <<col, receipts, fund, pc>>
    BY <1>7 DEF OpenConfirm, database
  <2>2. \A b \in Clerks \ {a} : doc'[b] = doc[b] /\ changed'[b] = changed[b]
    BY <2>1, StartOthers, OpenTxns DEF TypeOK
  <2>3. UnmarkedIsSubmitted'
    BY <2>1, <2>2 DEF UnmarkedIsSubmitted, TypeOK
  <2> QED BY <2>1, <2>3 DEF OnlyCreatedExist, PostedIffConfirmed
<1>8. ASSUME NEW a \in Clerks, RefuseConfirm(a) \/ AbortConfirm(a) PROVE Goal
  <2>1. /\ Finish(a, {}) /\ doc' = [doc EXCEPT ![a] = NoDoc]
        /\ UNCHANGED <<col, receipts, fund, pc>>
    BY <1>8 DEF RefuseConfirm, AbortConfirm, EndConfirm, database
  <2>2. \A b \in Clerks : Kept(b)
    BY <2>1, FinishOthers, OpenTxns DEF TypeOK
  <2> HIDE DEF Goal, Kept
  <2> QED BY <2>1, <2>2, <1>a
<1>9. ASSUME NEW a \in Clerks, Confirm(a) PROVE Goal
  <2> DEFINE c == doc[a]
  <2>1. /\ c \in Calls /\ Finish(a, ConfirmWrites(c)) /\ doc' = [doc EXCEPT ![a] = NoDoc]
        /\ col' = [col EXCEPT ![c] = "accounting_confirmed"]
        /\ receipts' = receipts \cup {c} /\ fund' = fund \cup {c} /\ UNCHANGED pc
    BY <1>9 DEF Confirm, EndConfirm, TypeOK
  <2>2. col[c] = "submitted"
    BY <1>9 DEF Confirm, ConfirmConflict, ConfirmWrites, UnmarkedIsSubmitted
  <2>3. UnmarkedIsSubmitted'
    <3>1. \A b \in Clerks : doc'[b] # NoDoc =>
            doc'[b] = doc[b] /\ changed'[b] = changed[b] \cup ConfirmWrites(c)
      BY <2>1, FinishOthers, OpenTxns DEF TypeOK
    <3>2. <<"collection", c>> \in ConfirmWrites(c)
      BY DEF ConfirmWrites
    <3> QED BY <2>1, <3>1, <3>2 DEF UnmarkedIsSubmitted, TypeOK
  <2>4. OnlyCreatedExist'
    BY <2>1, <2>2 DEF OnlyCreatedExist, TypeOK
  <2>5. PostedIffConfirmed'
    BY <2>1, <2>2 DEF PostedIffConfirmed, TypeOK
  <2> QED BY <2>3, <2>4, <2>5
<1>10. ASSUME NEW o \in Orders, CreditOrder(o) PROVE Goal
  BY <1>10 DEF CreditOrder, UnmarkedIsSubmitted, OnlyCreatedExist, PostedIffConfirmed
<1>11. ASSUME UNCHANGED vars PROVE Goal
  BY <1>11 DEF vars, database, UnmarkedIsSubmitted, OnlyCreatedExist, PostedIffConfirmed
<1> HIDE DEF Goal
<1>12. Goal
  BY <1>1, <1>2, <1>3, <1>4, <1>5, <1>6, <1>7, <1>8, <1>9, <1>10, <1>11
  DEF Next, Advance
<1> QED BY <1>12 DEF Goal

\* A step leaves a collection as it is, submits one that was not there, or
\* decides one that is submitted.
LEMMA CollectionChange ==
    ASSUME TypeOK, UnmarkedIsSubmitted, OnlyCreatedExist, [Next]_vars
    PROVE  \/ UNCHANGED col
           \/ \E c \in Calls : /\ Create(c) /\ ~KeyTaken(c)
                              /\ col[c] = "absent" /\ col' = [col EXCEPT ![c] = "submitted"]
           \/ \E c \in Calls : \E s \in {"rejected", "accounting_confirmed"} :
                 col[c] = "submitted" /\ col' = [col EXCEPT ![c] = s]
<1>1. CASE UNCHANGED vars
  BY <1>1 DEF vars, database
<1>2. ASSUME NEW c \in Calls, Submit(c) \/ EnsureLock(c) \/ AnswerExisting(c) \/ OpenSubmit(c)
                              \/ LockOrder(c) \/ Retry(c) \/ Refuse(c) \/ Lose(c)
      PROVE  UNCHANGED col
  BY <1>2 DEF Submit, EnsureLock, AnswerExisting, OpenSubmit, LockOrder, Retry, Refuse, Lose, database
<1>3. ASSUME NEW c \in Calls, Create(c)
      PROVE  \/ UNCHANGED col
             \/ ~KeyTaken(c) /\ col[c] = "absent" /\ col' = [col EXCEPT ![c] = "submitted"]
  BY <1>3 DEF Create, OnlyCreatedExist
<1>4. ASSUME NEW c \in Calls, Reject(c)
      PROVE  col[c] = "submitted" /\ col' = [col EXCEPT ![c] = "rejected"]
  BY <1>4 DEF Reject, RejectApplies
<1>5. ASSUME NEW a \in Clerks, NEW c \in Calls,
             OpenConfirm(a, c) \/ RefuseConfirm(a) \/ AbortConfirm(a)
      PROVE  UNCHANGED col
  BY <1>5 DEF OpenConfirm, RefuseConfirm, AbortConfirm, database
<1>6. ASSUME NEW a \in Clerks, RefuseConfirm(a) \/ AbortConfirm(a)
      PROVE  UNCHANGED col
  BY <1>6 DEF RefuseConfirm, AbortConfirm, database
<1>7. ASSUME NEW a \in Clerks, Confirm(a)
      PROVE  /\ doc[a] \in Calls /\ col[doc[a]] = "submitted"
             /\ col' = [col EXCEPT ![doc[a]] = "accounting_confirmed"]
  BY <1>7 DEF Confirm, ConfirmConflict, ConfirmWrites, UnmarkedIsSubmitted, TypeOK
<1>8. ASSUME NEW o \in Orders, CreditOrder(o) PROVE UNCHANGED col
  BY <1>8 DEF CreditOrder
<1> QED
  BY <1>1, <1>2, <1>3, <1>4, <1>5, <1>6, <1>7, <1>8 DEF Next, Advance

\* Decided collections stay decided.
LEMMA DecisionStep ==
    TypeOK /\ UnmarkedIsSubmitted /\ OnlyCreatedExist /\ [Next]_vars =>
        \A c \in Calls : col[c] \in {"accounting_confirmed", "rejected"} => col'[c] = col[c]
BY CollectionChange DEF TypeOK

\* An open call keeps its snapshot, or takes it now.
LEMMA SnapshotKept ==
    ASSUME TypeOK, [Next]_vars, NEW c \in Calls, pc'[c] = "open"
    PROVE  \/ pc[c] = "open" /\ snap'[c] = snap[c]
           \/ ~Existing(c) /\ snap'[c].col = col /\ UNCHANGED col
<1>1. CASE UNCHANGED vars
  BY <1>1 DEF vars
<1>2. ASSUME NEW d \in Calls, Submit(d) \/ AnswerExisting(d) \/ LockOrder(d)
      PROVE  pc[c] = "open" /\ snap'[c] = snap[c]
  BY <1>2 DEF Submit, AnswerExisting, LockOrder, TypeOK
<1>3. ASSUME NEW d \in Calls, EnsureLock(d)
      PROVE  pc[c] = "open" /\ snap'[c] = snap[c]
  BY <1>3 DEF EnsureLock, Write
<1>4. ASSUME NEW d \in Calls, OpenSubmit(d)
      PROVE  \/ pc[c] = "open" /\ snap'[c] = snap[c]
             \/ ~Existing(c) /\ snap'[c].col = col /\ UNCHANGED col
  BY <1>4, OpenTxns DEF OpenSubmit, Start, Now, TypeOK, database
<1>5. ASSUME NEW d \in Calls, Retry(d) \/ Refuse(d) \/ Create(d) \/ Lose(d)
      PROVE  pc[c] = "open" /\ snap'[c] = snap[c]
  <2>1. d # c /\ pc[c] = "open"
    BY <1>5 DEF Retry, Refuse, Create, Lose, TypeOK
  <2>2. PICK W : Finish(d, W)
    BY <1>5 DEF Retry, Refuse, Create, Lose
  <2> QED BY <2>1, <2>2, FinishOthers, OpenTxns
<1>6. ASSUME NEW d \in Calls, Reject(d)
      PROVE  pc[c] = "open" /\ snap'[c] = snap[c]
  BY <1>6 DEF Reject, Write
<1>7. ASSUME NEW a \in Clerks, NEW d \in Calls, OpenConfirm(a, d)
      PROVE  pc[c] = "open" /\ snap'[c] = snap[c]
  BY <1>7, StartOthers, OpenTxns DEF OpenConfirm
<1>8. ASSUME NEW a \in Clerks, RefuseConfirm(a) \/ AbortConfirm(a) \/ Confirm(a)
      PROVE  pc[c] = "open" /\ snap'[c] = snap[c]
  <2>1. PICK W : Finish(a, W)
    BY <1>8 DEF RefuseConfirm, AbortConfirm, Confirm, EndConfirm
  <2>2. UNCHANGED pc
    BY <1>8 DEF RefuseConfirm, AbortConfirm, Confirm
  <2> QED BY <2>1, <2>2, FinishOthers, OpenTxns
<1>9. ASSUME NEW o \in Orders, CreditOrder(o)
      PROVE  pc[c] = "open" /\ snap'[c] = snap[c]
  BY <1>9 DEF CreditOrder
<1> QED
  BY <1>1, <1>2, <1>3, <1>4, <1>5, <1>6, <1>7, <1>8, <1>9 DEF Next, Advance

\* A call is told of a duplicate key by Create alone.
LEMMA DuplicateKeyStep ==
    ASSUME TypeOK, [Next]_vars, NEW c \in Calls, pc'[c] = "duplicate_key"
    PROVE  pc[c] = "duplicate_key" \/ (Create(c) /\ KeyTaken(c) /\ UNCHANGED col)
<1>1. CASE UNCHANGED vars
  BY <1>1 DEF vars
<1>2. ASSUME NEW d \in Calls, Submit(d) \/ EnsureLock(d) \/ AnswerExisting(d) \/ OpenSubmit(d)
                              \/ LockOrder(d) \/ Retry(d) \/ Refuse(d) \/ Lose(d) \/ Reject(d)
      PROVE  pc[c] = "duplicate_key"
  BY <1>2 DEF Submit, EnsureLock, AnswerExisting, OpenSubmit, LockOrder, Retry, Refuse, Lose,
              Reject, TypeOK
<1>3. ASSUME NEW d \in Calls, Create(d)
      PROVE  pc[c] = "duplicate_key" \/ (Create(c) /\ KeyTaken(c) /\ UNCHANGED col)
  BY <1>3 DEF Create, TypeOK
<1>4. ASSUME NEW a \in Clerks, NEW d \in Calls, OpenConfirm(a, d) PROVE UNCHANGED pc
  BY <1>4 DEF OpenConfirm
<1>5. ASSUME NEW a \in Clerks, RefuseConfirm(a) \/ AbortConfirm(a) \/ Confirm(a)
      PROVE  UNCHANGED pc
  BY <1>5 DEF RefuseConfirm, AbortConfirm, Confirm
<1>6. ASSUME NEW o \in Orders, CreditOrder(o) PROVE UNCHANGED pc
  BY <1>6 DEF CreditOrder
<1> QED
  BY <1>1, <1>2, <1>3, <1>4, <1>5, <1>6 DEF Next, Advance

\* Idempotency keys: the lookup, the index, and what a repetition is told.
LEMMA KeyStep ==
    IInv /\ [Next]_vars => LookupFoundNone' /\ OneCollectionPerKey' /\ RepeatIsAnswered'
<1> SUFFICES ASSUME IInv, [Next]_vars
             PROVE  LookupFoundNone' /\ OneCollectionPerKey' /\ RepeatIsAnswered'
  OBVIOUS
<1> USE DEF IInv
<1>d. \A c \in Calls : col[c] = "rejected" => col'[c] = "rejected"
  BY DecisionStep
<1>1. LookupFoundNone'
  <2> SUFFICES ASSUME NEW c \in Calls, NEW d \in Calls, pc'[c] = "open", SameKey(c, d)
               PROVE  \/ snap'[c].col[d] = "absent"
                      \/ snap'[c].col[d] = "rejected" /\ col'[d] = "rejected"
    BY DEF LookupFoundNone, SameKey
  <2>1. CASE pc[c] = "open" /\ snap'[c] = snap[c]
    BY <2>1, <1>d DEF LookupFoundNone
  <2>2. CASE ~Existing(c) /\ snap'[c].col = col /\ UNCHANGED col
    BY <2>2 DEF Existing, TypeOK, Status, Active
  <2> QED BY <2>1, <2>2, SnapshotKept
<1>2. OneCollectionPerKey'
  <2>1. CASE UNCHANGED col
    BY <2>1 DEF OneCollectionPerKey, SameKey
  <2>2. ASSUME NEW c \in Calls, Create(c), ~KeyTaken(c), col[c] = "absent",
               col' = [col EXCEPT ![c] = "submitted"]
        PROVE  OneCollectionPerKey'
    <3>1. \A d \in Calls : d # c /\ SameKey(c, d) => col[d] = "absent"
      <4> SUFFICES ASSUME NEW d \in Calls, d # c, SameKey(c, d), col[d] # "absent"
                   PROVE  FALSE
        OBVIOUS
      <4>1. pc[c] = "open" /\ KeyDoc(c) \cap changed[c] = {}
        BY <2>2 DEF Create
      <4>2. snap[c].col[d] = "absent"
        BY <2>2 DEF KeyTaken
      <4>3. KeyDoc(d) \subseteq changed[c]
        BY <4>1, <4>2 DEF UnseenIsMarked
      <4>4. KeyDoc(d) = KeyDoc(c) /\ KeyDoc(c) # {}
        BY DEF SameKey, KeyDoc
      <4> QED BY <4>1, <4>3, <4>4
    <3> QED BY <2>2, <3>1 DEF OneCollectionPerKey, SameKey, TypeOK
  <2>3. ASSUME NEW c \in Calls, NEW s \in {"rejected", "accounting_confirmed"},
               col[c] = "submitted", col' = [col EXCEPT ![c] = s]
        PROVE  OneCollectionPerKey'
    BY <2>3 DEF OneCollectionPerKey, SameKey, TypeOK
  <2> QED BY <2>1, <2>2, <2>3, CollectionChange
<1>3. RepeatIsAnswered'
  <2> SUFFICES ASSUME NEW c \in Calls, pc'[c] = "duplicate_key"
               PROVE  \E d \in Calls \ {c} : SameKey(c, d) /\ col'[d] = "rejected"
    BY DEF RepeatIsAnswered, SameKey
  <2>1. CASE pc[c] = "duplicate_key"
    BY <2>1, <1>d DEF RepeatIsAnswered
  <2>2. CASE Create(c) /\ KeyTaken(c) /\ UNCHANGED col
    <3>1. PICK d \in Calls : SameKey(c, d) /\ snap[c].col[d] # "absent"
      BY <2>2 DEF KeyTaken
    <3>2. pc[c] = "open" /\ col[c] = "absent"
      BY <2>2 DEF Create, OnlyCreatedExist
    <3>3. col[d] = "rejected"
      BY <3>1, <3>2 DEF LookupFoundNone
    <3> QED BY <2>2, <3>1, <3>2, <3>3
  <2> QED BY <2>1, <2>2, DuplicateKeyStep
<1> QED BY <1>1, <1>2, <1>3

LEMMA StepInv == IInv /\ [Next]_vars => IInv'
<1> SUFFICES ASSUME IInv, [Next]_vars PROVE IInv'
  OBVIOUS
<1>1. /\ TypeOK /\ LocksAreHeldAlone /\ UnseenIsMarked /\ UnmarkedIsSubmitted
      /\ OnlyCreatedExist /\ PostedIffConfirmed
  BY DEF IInv
<1>2. TypeOK' /\ LocksAreHeldAlone' /\ UnseenIsMarked'
  BY <1>1, TypeStep, LocksStep, UnseenStep
<1>3. UnmarkedIsSubmitted' /\ OnlyCreatedExist' /\ PostedIffConfirmed'
  BY <1>1, CollectionStep
<1>4. LookupFoundNone' /\ OneCollectionPerKey' /\ RepeatIsAnswered'
  BY KeyStep
<1> QED BY <1>2, <1>3, <1>4 DEF IInv

\* Locks, snapshots and collections agree in the sense of IInv throughout.
THEOREM Invariance == Spec => []IInv
BY InitInv, StepInv, PTL DEF Spec

-----------------------------------------------------------------------------
\* The variables keep their types.
THEOREM TypeCorrect == Spec => []TypeOK
<1>1. IInv => TypeOK
  BY DEF IInv
<1> QED BY <1>1, Invariance, PTL

\* The lock that makes the snapshot complete.
LEMMA HolderSees == IInv => HolderSeesEveryCollection
<1> SUFFICES ASSUME IInv, NEW c \in Calls, NEW d \in Calls, col[d] # "absent",
                    held[c] \cap LocksOf(d) # {}, snap[c].col[d] = "absent"
             PROVE  FALSE
  BY DEF HolderSeesEveryCollection
<1>1. PICK n : n \in held[c] /\ n \in LocksOf(d)
  OBVIOUS
<1>2. pc[c] = "open" /\ Lock(n) \notin changed[c]
  BY <1>1 DEF IInv, LocksAreHeldAlone
<1>3. Lock(n) \in changed[c]
  BY <1>1, <1>2 DEF IInv, UnseenIsMarked, Locks
<1> QED BY <1>2, <1>3

\* checkAvailableDebt never misses a collection on an order whose lock the
\* call has written: the snapshot, although taken before, has them all.
THEOREM LockMakesSnapshotComplete == Spec => []HolderSeesEveryCollection
BY HolderSees, Invariance, PTL

\* The ledgers hold a receipt and a cash entry for the confirmed collections,
\* and for no other, however confirmations, rejections and crashes interleave.
THEOREM PostedExactlyWhenConfirmed == Spec => []PostedIffConfirmed
<1>1. IInv => PostedIffConfirmed
  BY DEF IInv
<1> QED BY <1>1, Invariance, PTL

\* An idempotency key makes at most one collection.
THEOREM KeyMakesOneCollection == Spec => []OneCollectionPerKey
<1>1. IInv => OneCollectionPerKey
  BY DEF IInv
<1> QED BY <1>1, Invariance, PTL

\* A repeated command fails on its key only if the first one's collection was
\* rejected.
THEOREM RepetitionAnswered == Spec => []RepeatIsAnswered
<1>1. IInv => RepeatIsAnswered
  BY DEF IInv
<1> QED BY <1>1, Invariance, PTL

\* A confirmed or rejected collection stays so.
THEOREM DecisionStands == Spec => DecisionIsFinal
<1>1. IInv /\ [Next]_vars =>
        [\A c \in Calls : col[c] \in {"accounting_confirmed", "rejected"} => col'[c] = col[c]]_vars
  BY DecisionStep DEF IInv
<1> QED BY <1>1, Invariance, PTL DEF Spec, DecisionIsFinal

-----------------------------------------------------------------------------
(* What collections allocate, in sum *)

\* Those of C that allocate something to o.
On(C, o) == {c \in C : Alloc[c][o] > 0}

LEMMA AllocatedNat ==
    ASSUME NEW C \in SUBSET Calls, IsFiniteSet(C), NEW o \in Orders
    PROVE  Allocated(C, o) \in Nat
<1> DEFINE f == [c \in Calls |-> Alloc[c][o]]
<1>1. \A c \in C : f[c] \in Nat
  BY DebtCollectionAssumption
<1> HIDE DEF f
<1>2. SumFunctionOnSet(f, C) \in Nat
  BY <1>1, SumNat
<1> QED BY <1>2 DEF Allocated, f

LEMMA AllocatedEmpty == \A o : Allocated({}, o) = 0
BY SumEmpty DEF Allocated

LEMMA AllocatedUnion ==
    ASSUME NEW C \in SUBSET Calls, NEW D \in SUBSET Calls, IsFiniteSet(C), IsFiniteSet(D),
           C \cap D = {}, NEW o \in Orders
    PROVE  Allocated(C \cup D, o) = Allocated(C, o) + Allocated(D, o)
<1> DEFINE f == [c \in Calls |-> Alloc[c][o]]
<1>1. IntsOn(f, C) /\ IntsOn(f, D)
  BY DebtCollectionAssumption DEF IntsOn
<1> HIDE DEF f
<1>2. SumFunctionOnSet(f, C \cup D) = SumFunctionOnSet(f, C) + SumFunctionOnSet(f, D)
  BY <1>1, SumUnion
<1> QED BY <1>2 DEF Allocated, f

LEMMA AllocatedWith ==
    ASSUME NEW C \in SUBSET Calls, IsFiniteSet(C), NEW c \in Calls, c \notin C, NEW o \in Orders
    PROVE  /\ IsFiniteSet(C \cup {c})
           /\ Allocated(C \cup {c}, o) = Alloc[c][o] + Allocated(C, o)
<1> DEFINE f == [d \in Calls |-> Alloc[d][o]]
<1>1. IntsOn(f, C) /\ f[c] \in Int /\ f[c] = Alloc[c][o]
  BY DebtCollectionAssumption DEF IntsOn
<1> HIDE DEF f
<1>2. SumFunctionOnSet(f, C \cup {c}) = f[c] + SumFunctionOnSet(f, C)
  BY <1>1, SumPutIn
<1> QED BY <1>1, <1>2, FS_AddElement DEF Allocated, f

\* Only the collections on o count, and more of them allocate no less.
LEMMA AllocatedWithin ==
    ASSUME NEW C \in SUBSET Calls, NEW D \in SUBSET Calls, IsFiniteSet(C), IsFiniteSet(D),
           NEW o \in Orders, On(C, o) \subseteq D
    PROVE  Allocated(C, o) <= Allocated(D, o)
<1> DEFINE f == [c \in Calls |-> Alloc[c][o]]
           U == C \cup D
<1>1. /\ \A c \in U : f[c] \in Nat
      /\ \A c \in C \ D : f[c] = 0
  BY DebtCollectionAssumption DEF On
<1> HIDE DEF f
<1>2. /\ IntsOn(f, D) /\ IntsOn(f, C) /\ IntsOn(f, U) /\ IntsOn(f, C \ D)
      /\ IsFiniteSet(C \ D) /\ IsFiniteSet(U)
  <2>1. IntsOn(f, D) /\ IntsOn(f, C) /\ IntsOn(f, U) /\ IntsOn(f, C \ D)
    BY <1>1 DEF IntsOn
  <2> QED BY <2>1, FS_Difference, FS_Union
<1>3. SumFunctionOnSet(f, C) <= SumFunctionOnSet(f, U)
  <2>1. C \in SUBSET U /\ \A c \in U \ C : f[c] \in Nat
    BY <1>1
  <2> HIDE DEF U
  <2> QED BY <1>2, <2>1, SumOfPart
<1>4. SumFunctionOnSet(f, U) = SumFunctionOnSet(f, D) + SumFunctionOnSet(f, C \ D)
  <2>1. U = D \cup (C \ D) /\ D \cap (C \ D) = {}
    OBVIOUS
  <2> HIDE DEF U
  <2> QED BY <1>2, <2>1, SumUnion
<1>5. SumFunctionOnSet(f, C \ D) = 0
  BY <1>1, <1>2, SumZero
<1>6. SumFunctionOnSet(f, D) \in Int
  BY <1>2, SumInt
<1>7. SumFunctionOnSet(f, C) <= SumFunctionOnSet(f, D)
  BY <1>3, <1>4, <1>5, <1>6
<1> QED BY <1>7 DEF Allocated, f

LEMMA AllocatedSame ==
    ASSUME NEW C \in SUBSET Calls, NEW D \in SUBSET Calls, IsFiniteSet(C), IsFiniteSet(D),
           NEW o \in Orders, On(C, o) = On(D, o)
    PROVE  Allocated(C, o) = Allocated(D, o)
<1>1. On(C, o) \subseteq D /\ On(D, o) \subseteq C
  BY DEF On
<1>2. Allocated(C, o) <= Allocated(D, o) /\ Allocated(D, o) <= Allocated(C, o)
  BY <1>1, AllocatedWithin
<1> QED BY <1>2, AllocatedNat

-----------------------------------------------------------------------------
(* checkAvailableDebt *)

\* An amount above zero that fits is below the balance itself: rounding to
\* zero within the tolerance never lets one through.
LEMMA AvailableFits ==
    ASSUME NEW x \in Int, NEW p \in Nat, NEW n \in Nat, n > 0,
           n <= Normalize(Normalize(x) - p)
    PROVE  n + p <= x /\ Normalize(x) = x
<1>1. Tolerance \in Nat
  BY DebtCollectionAssumption
<1>2. Normalize(x) \in Int /\ (Normalize(x) = x \/ Normalize(x) = 0)
  BY <1>1 DEF Normalize
<1> DEFINE y == Normalize(x) - p
<1>3. y \in Int /\ (Normalize(y) = y \/ Normalize(y) = 0)
  BY <1>1, <1>2 DEF Normalize
<1>4. n <= y
  BY <1>3
<1> QED BY <1>2, <1>4

-----------------------------------------------------------------------------
(* Snapshots are past states of the database *)

\* A collection is submitted once and decided once.
Precedes(s, t) == s = t \/ s = "absent" \/ (s = "submitted" /\ t # "absent")

Earlier(old, new) ==
    /\ \A c \in Calls : Precedes(old.col[c], new.col[c])
    /\ old.credited \subseteq new.credited

\* Every snapshot is of the past, carries the receipts of its confirmed
\* collections, and of two one is the older.
SnapshotsArePast ==
    /\ \A t \in Txns : Earlier(snap[t], Now)
    /\ \A t \in Txns : snap[t].receipts = {c \in Calls : snap[t].col[c] = "accounting_confirmed"}
    /\ \A t, u \in Txns : Earlier(snap[t], snap[u]) \/ Earlier(snap[u], snap[t])

\* The collection a clerk decides on was submitted in the clerk's snapshot.
DocWasSubmitted == \A a \in Clerks : doc[a] # NoDoc => snap[a].col[doc[a]] = "submitted"

Made == {c \in Calls : col[c] # "absent"}

\* Only so many calls have created anything.
FinitelyMany == IsFiniteSet(Made)

\* What a step does to the database.
LEMMA DatabaseStep ==
    ASSUME TypeOK, UnmarkedIsSubmitted, OnlyCreatedExist, [Next]_vars
    PROVE  \/ UNCHANGED database
           \/ \E c \in Calls : /\ Create(c) /\ ~KeyTaken(c) /\ col[c] = "absent"
                              /\ col' = [col EXCEPT ![c] = "submitted"]
                              /\ UNCHANGED <<receipts, fund, credited, external, doc>>
           \/ \E c \in Calls : /\ col[c] = "submitted" /\ col' = [col EXCEPT ![c] = "rejected"]
                              /\ UNCHANGED <<receipts, fund, credited, external, doc>>
           \/ \E a \in Clerks : /\ Confirm(a) /\ doc[a] \in Calls /\ col[doc[a]] = "submitted"
                               /\ <<"collection", doc[a]>> \notin changed[a]
                               /\ col' = [col EXCEPT ![doc[a]] = "accounting_confirmed"]
                               /\ receipts' = receipts \cup {doc[a]} /\ UNCHANGED credited
           \/ \E o \in Orders : CreditOrder(o)
<1>1. CASE UNCHANGED vars
  BY <1>1 DEF vars
<1>2. ASSUME NEW c \in Calls, Submit(c) \/ EnsureLock(c) \/ AnswerExisting(c) \/ OpenSubmit(c)
                              \/ LockOrder(c) \/ Retry(c) \/ Refuse(c) \/ Lose(c)
      PROVE  UNCHANGED database
  BY <1>2 DEF Submit, EnsureLock, AnswerExisting, OpenSubmit, LockOrder, Retry, Refuse, Lose
<1>3. ASSUME NEW c \in Calls, Create(c)
      PROVE  \/ UNCHANGED database
             \/ /\ ~KeyTaken(c) /\ col[c] = "absent" /\ col' = [col EXCEPT ![c] = "submitted"]
                /\ UNCHANGED <<receipts, fund, credited, external, doc>>
  BY <1>3 DEF Create, OnlyCreatedExist, database
<1>4. ASSUME NEW c \in Calls, Reject(c)
      PROVE  /\ col[c] = "submitted" /\ col' = [col EXCEPT ![c] = "rejected"]
             /\ UNCHANGED <<receipts, fund, credited, external, doc>>
  BY <1>4 DEF Reject, RejectApplies
<1>5. ASSUME NEW a \in Clerks, NEW c \in Calls, OpenConfirm(a, c)
      PROVE  UNCHANGED database
  BY <1>5 DEF OpenConfirm
<1>6. ASSUME NEW a \in Clerks, RefuseConfirm(a) \/ AbortConfirm(a)
      PROVE  UNCHANGED database
  BY <1>6 DEF RefuseConfirm, AbortConfirm
<1>7. ASSUME NEW a \in Clerks, Confirm(a)
      PROVE  /\ doc[a] \in Calls /\ col[doc[a]] = "submitted"
             /\ <<"collection", doc[a]>> \notin changed[a]
             /\ col' = [col EXCEPT ![doc[a]] = "accounting_confirmed"]
             /\ receipts' = receipts \cup {doc[a]} /\ UNCHANGED credited
  BY <1>7 DEF Confirm, ConfirmConflict, ConfirmWrites, UnmarkedIsSubmitted, TypeOK
<1> QED
  BY <1>1, <1>2, <1>3, <1>4, <1>5, <1>6, <1>7 DEF Next, Advance

\* A transaction keeps its snapshot, takes one, or drops it; a clerk who is
\* at work afterwards was so before, and sees at least the same marks, or
\* has just begun.
LEMMA SnapshotStep ==
    ASSUME TypeOK, [Next]_vars
    PROVE  /\ \A t \in Txns : \/ snap'[t] = snap[t]
                              \/ snap'[t] = NoSnapshot
                              \/ snap'[t] = Now /\ UNCHANGED database
           /\ \A a \in Clerks : doc'[a] # NoDoc =>
                \/ /\ doc[a] # NoDoc /\ doc'[a] = doc[a] /\ snap'[a] = snap[a]
                   /\ changed[a] \subseteq changed'[a]
                \/ /\ doc'[a] \in Calls /\ col[doc'[a]] = "submitted"
                   /\ snap'[a] = Now /\ UNCHANGED database
<1> DEFINE Snaps == \A t \in Txns : \/ snap'[t] = snap[t]
                                    \/ snap'[t] = NoSnapshot
                                    \/ snap'[t] = Now /\ UNCHANGED database
           Kept(a) == /\ doc[a] # NoDoc /\ doc'[a] = doc[a] /\ snap'[a] = snap[a]
                      /\ changed[a] \subseteq changed'[a]
           Begun(a) == /\ doc'[a] \in Calls /\ col[doc'[a]] = "submitted"
                       /\ snap'[a] = Now /\ UNCHANGED database
           Goal == Snaps /\ \A a \in Clerks : doc'[a] # NoDoc => Kept(a) \/ Begun(a)
<1>a. ASSUME NEW t \in Txns, NEW W, Finish(t, W),
             \A a \in Clerks : doc'[a] # NoDoc => a # t /\ doc'[a] = doc[a]
      PROVE  Goal
  <2>1. Snaps
    BY <1>a DEF Finish, TypeOK
  <2>2. \A a \in Clerks : doc'[a] # NoDoc => Kept(a)
    BY <1>a, FinishOthers, OpenTxns
  <2> QED BY <2>1, <2>2
<1>b. ASSUME NEW W, Write(W), UNCHANGED doc
      PROVE  Goal
  <2>1. Snaps
    BY <1>b DEF Write
  <2>2. \A a \in Clerks : doc'[a] # NoDoc => Kept(a)
    BY <1>b, WriteOthers, OpenTxns
  <2> QED BY <2>1, <2>2
<1>1. ASSUME UNCHANGED <<snap, changed, doc>>
      PROVE  Goal
  BY <1>1
<1>2. ASSUME NEW c \in Calls, OpenSubmit(c)
      PROVE  Goal
  <2>1. Start(c) /\ UNCHANGED <<database, doc>>
    BY <1>2 DEF OpenSubmit
  <2>2. Snaps
    BY <2>1 DEF Start, TypeOK
  <2>3. \A a \in Clerks : doc'[a] # NoDoc => Kept(a)
    BY <2>1, StartOthers, OpenTxns
  <2> QED BY <2>2, <2>3
<1>3. ASSUME NEW a \in Clerks, NEW c \in Calls, OpenConfirm(a, c)
      PROVE  Goal
  <2>1. /\ Start(a) /\ UNCHANGED database /\ col[c] = "submitted"
        /\ doc' = [doc EXCEPT ![a] = c]
    BY <1>3 DEF OpenConfirm
  <2>2. Snaps
    BY <2>1 DEF Start, TypeOK
  <2>3. Begun(a)
    BY <2>1, OpenTxns DEF Start, TypeOK
  <2>4. \A b \in Clerks \ {a} : doc'[b] # NoDoc => Kept(b)
    BY <2>1, StartOthers, OpenTxns DEF TypeOK
  <2> QED BY <2>2, <2>3, <2>4
<1>4. ASSUME NEW a \in Clerks, RefuseConfirm(a) \/ AbortConfirm(a) \/ Confirm(a)
      PROVE  Goal
  <2>1. PICK W : Finish(a, W)
    BY <1>4 DEF RefuseConfirm, AbortConfirm, Confirm, EndConfirm
  <2>2. doc' = [doc EXCEPT ![a] = NoDoc]
    BY <1>4 DEF RefuseConfirm, AbortConfirm, Confirm, EndConfirm
  <2>3. \A b \in Clerks : doc'[b] # NoDoc => b # a /\ doc'[b] = doc[b]
    BY <2>2 DEF TypeOK
  <2> HIDE DEF Goal
  <2> QED BY <2>1, <2>3, <1>a, OpenTxns
<1>5. ASSUME NEW c \in Calls, Retry(c) \/ Refuse(c) \/ Create(c) \/ Lose(c)
      PROVE  Goal
  <2>1. PICK W : Finish(c, W)
    BY <1>5 DEF Retry, Refuse, Create, Lose
  <2>2. UNCHANGED doc
    BY <1>5 DEF Retry, Refuse, Create, Lose
  <2> HIDE DEF Goal
  <2> QED BY <2>1, <2>2, <1>a, OpenTxns
<1>6. ASSUME NEW c \in Calls, EnsureLock(c) \/ Reject(c)
      PROVE  Goal
  <2>1. PICK W : Write(W)
    BY <1>6 DEF EnsureLock, Reject
  <2>2. UNCHANGED doc
    BY <1>6 DEF EnsureLock, Reject
  <2> HIDE DEF Goal
  <2> QED BY <2>1, <2>2, <1>b
<1>7. ASSUME NEW c \in Calls, Submit(c) \/ AnswerExisting(c) \/ LockOrder(c)
      PROVE  Goal
  BY <1>1, <1>7 DEF Submit, AnswerExisting, LockOrder
<1>8. ASSUME NEW o \in Orders, CreditOrder(o)
      PROVE  Goal
  BY <1>1, <1>8 DEF CreditOrder
<1>9. ASSUME UNCHANGED vars
      PROVE  Goal
  BY <1>1, <1>9 DEF vars
<1> HIDE DEF Goal
<1>10. Goal
  BY <1>2, <1>3, <1>4, <1>5, <1>6, <1>7, <1>8, <1>9 DEF Next, Advance
<1> QED BY <1>10 DEF Goal

\* Time passes: what precedes is an order, and a step goes forward in it.
LEMMA EarlierTransitive ==
    \A r, s, t : Earlier(r, s) /\ Earlier(s, t) => Earlier(r, t)
BY DEF Earlier, Precedes

LEMMA NoSnapshotFirst == \A t : Earlier(NoSnapshot, t)
BY DEF Earlier, NoSnapshot, Precedes

LEMMA Forward ==
    ASSUME TypeOK, UnmarkedIsSubmitted, OnlyCreatedExist, [Next]_vars
    PROVE  Earlier(Now, Now')
<1> SUFFICES /\ \A c \in Calls : Precedes(col[c], col'[c])
             /\ credited \subseteq credited'
  BY DEF Earlier, Now
<1>1. CASE UNCHANGED database
  BY <1>1 DEF database, Precedes
<1>2. ASSUME NEW c \in Calls, col[c] = "absent", col' = [col EXCEPT ![c] = "submitted"],
             UNCHANGED credited
      PROVE  (\A d \in Calls : Precedes(col[d], col'[d])) /\ credited \subseteq credited'
  BY <1>2 DEF Precedes, TypeOK
<1>3. ASSUME NEW c \in Calls, NEW s \in {"rejected", "accounting_confirmed"},
             col[c] = "submitted", col' = [col EXCEPT ![c] = s], UNCHANGED credited
      PROVE  (\A d \in Calls : Precedes(col[d], col'[d])) /\ credited \subseteq credited'
  BY <1>3 DEF Precedes, TypeOK
<1>4. ASSUME NEW o \in Orders, CreditOrder(o)
      PROVE  (\A d \in Calls : Precedes(col[d], col'[d])) /\ credited \subseteq credited'
  BY <1>4 DEF CreditOrder, Precedes
<1> QED BY <1>1, <1>2, <1>3, <1>4, DatabaseStep

LEMMA PastStep ==
    ASSUME TypeOK, UnmarkedIsSubmitted, OnlyCreatedExist, PostedIffConfirmed,
           SnapshotsArePast, [Next]_vars
    PROVE  SnapshotsArePast'
<1>1. \A t \in Txns : \/ snap'[t] = snap[t]
                      \/ snap'[t] = NoSnapshot
                      \/ snap'[t] = Now /\ UNCHANGED database
  BY SnapshotStep
<1>2. Earlier(Now, Now')
  BY Forward
<1>3. \A t \in Txns : Earlier(snap[t], Now)
  BY DEF SnapshotsArePast
<1>4. \A t \in Txns : Earlier(snap'[t], Now')
  BY <1>1, <1>2, <1>3, EarlierTransitive, NoSnapshotFirst
<1>5. \A t \in Txns : snap'[t].receipts = {c \in Calls : snap'[t].col[c] = "accounting_confirmed"}
  <2> SUFFICES ASSUME NEW t \in Txns
               PROVE  snap'[t].receipts = {c \in Calls : snap'[t].col[c] = "accounting_confirmed"}
    OBVIOUS
  <2>1. CASE snap'[t] = snap[t]
    BY <2>1 DEF SnapshotsArePast
  <2>2. CASE snap'[t] = NoSnapshot
    BY <2>2 DEF NoSnapshot
  <2>3. CASE snap'[t] = Now
    BY <2>3 DEF Now, PostedIffConfirmed
  <2> QED BY <1>1, <2>1, <2>2, <2>3
<1>6. \A t, u \in Txns : Earlier(snap'[t], snap'[u]) \/ Earlier(snap'[u], snap'[t])
  <2>1. \A t, u \in Txns : Earlier(snap[t], snap[u]) \/ Earlier(snap[u], snap[t])
    BY DEF SnapshotsArePast
  <2>2. Earlier(Now, Now)
    BY DEF Earlier, Precedes
  <2> QED BY <1>1, <1>3, <2>1, <2>2, NoSnapshotFirst
<1> QED BY <1>4, <1>5, <1>6 DEF SnapshotsArePast

LEMMA DocStep ==
    ASSUME TypeOK, DocWasSubmitted, [Next]_vars
    PROVE  DocWasSubmitted'
<1> SUFFICES ASSUME NEW a \in Clerks, doc'[a] # NoDoc
             PROVE  snap'[a].col[doc'[a]] = "submitted"
  BY DEF DocWasSubmitted
<1>1. CASE doc[a] # NoDoc /\ doc'[a] = doc[a] /\ snap'[a] = snap[a]
  BY <1>1 DEF DocWasSubmitted
<1>2. CASE doc'[a] \in Calls /\ col[doc'[a]] = "submitted" /\ snap'[a] = Now
  BY <1>2 DEF Now
<1> QED BY <1>1, <1>2, SnapshotStep

LEMMA FiniteStep ==
    ASSUME TypeOK, UnmarkedIsSubmitted, OnlyCreatedExist, FinitelyMany, [Next]_vars
    PROVE  FinitelyMany'
<1>1. CASE UNCHANGED col
  BY <1>1 DEF FinitelyMany, Made
<1>2. ASSUME NEW c \in Calls, NEW s, col' = [col EXCEPT ![c] = s]
      PROVE  FinitelyMany'
  <2>1. Made' \in SUBSET (Made \cup {c})
    BY <1>2 DEF Made, TypeOK
  <2>2. IsFiniteSet(Made \cup {c})
    BY FS_AddElement DEF FinitelyMany
  <2>3. IsFiniteSet(Made')
    BY <2>1, <2>2, FS_Subset
  <2> QED BY <2>3 DEF FinitelyMany
<1>3. UNCHANGED database => UNCHANGED col
  BY DEF database
<1>4. \A o \in Orders : CreditOrder(o) => UNCHANGED col
  BY DEF CreditOrder
<1> QED BY <1>1, <1>2, <1>3, <1>4, DatabaseStep

\* The invariant of the amounts.
AInv ==
    /\ SnapshotsArePast
    /\ DocWasSubmitted
    /\ FinitelyMany

LEMMA AInvariance == Spec => []AInv
<1>1. Init => AInv
  <2> SUFFICES ASSUME Init PROVE AInv
    OBVIOUS
  <2>1. \A t \in Txns : snap[t] = NoSnapshot
    BY DEF Init
  <2>2. SnapshotsArePast
    BY <2>1, NoSnapshotFirst DEF SnapshotsArePast, NoSnapshot
  <2>3. DocWasSubmitted
    BY DEF Init, DocWasSubmitted
  <2>4. Made = {}
    BY DEF Init, Made
  <2>5. FinitelyMany
    BY <2>4, FS_EmptySet DEF FinitelyMany
  <2> QED BY <2>2, <2>3, <2>5 DEF AInv
<1>2. IInv /\ AInv /\ [Next]_vars => AInv'
  BY PastStep, DocStep, FiniteStep DEF IInv, AInv
<1> QED BY <1>1, <1>2, Invariance, PTL DEF Spec

\* The sets of collections the sums run over are finite.
LEMMA FiniteSums ==
    ASSUME IInv, AInv
    PROVE  /\ \A C \in SUBSET Made : IsFiniteSet(C)
           /\ \A t \in Txns : \A d \in Calls : snap[t].col[d] # "absent" => d \in Made
           /\ receipts \subseteq Made
           /\ \A t \in Txns : snap[t].receipts \subseteq Made
<1>1. \A C \in SUBSET Made : IsFiniteSet(C)
  BY FS_Subset DEF AInv, FinitelyMany
<1>2. \A t \in Txns : \A d \in Calls : snap[t].col[d] # "absent" => d \in Made
  BY DEF AInv, SnapshotsArePast, Earlier, Precedes, Now, Made
<1>3. receipts \subseteq Made
  BY DEF IInv, PostedIffConfirmed, Made
<1>4. \A t \in Txns : snap[t].receipts \subseteq Made
  BY <1>2 DEF AInv, SnapshotsArePast
<1> QED BY <1>1, <1>2, <1>3, <1>4

-----------------------------------------------------------------------------
(* Submitting *)

\* Calls that share an order call it by the same name.  All of them do where
\* every caller sends the order's id; the code takes what it is given.
OneNamePerOrder ==
    \A c, d \in Calls : \A o \in OrdersOf(c) \cap OrdersOf(d) : LockName(c, o) = LockName(d, o)

\* The balance of an order, read from one state of the database.
LEMMA BalanceType ==
    ASSUME NEW db, db.receipts \in SUBSET Calls, IsFiniteSet(db.receipts), NEW o \in Orders
    PROVE  Balance(db, o) \in Int
<1>1. Debt[o] \in Nat /\ Credit[o] \in Nat
  BY DebtCollectionAssumption
<1>2. Allocated(db.receipts, o) \in Nat
  BY AllocatedNat
<1> QED BY <1>1, <1>2 DEF Balance

\* The check of a transaction that may write: what it allocates to o, and
\* what its snapshot has pending and posted there, fit the debt.
LEMMA CheckedFits ==
    ASSUME IInv, AInv, NEW t \in Txns, NEW c \in Calls, NEW except, NEW o \in OrdersOf(c),
           Available(snap[t], c, except)
    PROVE  LET S == {d \in Calls \ except : snap[t].col[d] = "submitted"}
           IN  /\ IsFiniteSet(S) /\ S \in SUBSET Calls
               /\ Alloc[c][o] + Allocated(S, o) <= Balance(snap[t], o)
               /\ Normalize(Balance(snap[t], o)) = Balance(snap[t], o)
<1> DEFINE S == {d \in Calls \ except : snap[t].col[d] = "submitted"}
           R == snap[t].receipts
<1>1. o \in Orders /\ Alloc[c][o] \in Nat /\ Alloc[c][o] > 0
  BY DebtCollectionAssumption DEF OrdersOf
<1>2. S \subseteq Made /\ R \subseteq Made
  BY FiniteSums
<1>3. IsFiniteSet(S) /\ IsFiniteSet(R) /\ R \in SUBSET Calls /\ S \in SUBSET Calls
  BY <1>2, FiniteSums DEF Made
<1>4. Balance(snap[t], o) \in Int
  BY <1>1, <1>3, BalanceType
<1>5. Allocated(S, o) \in Nat
  <2> HIDE DEF S
  <2> QED BY <1>1, <1>3, AllocatedNat
<1>6. Alloc[c][o] <= Normalize(Normalize(Balance(snap[t], o)) - Allocated(S, o))
  BY DEF Available, PendingOn
<1> HIDE DEF S, R
<1>7. /\ Alloc[c][o] + Allocated(S, o) <= Balance(snap[t], o)
      /\ Normalize(Balance(snap[t], o)) = Balance(snap[t], o)
  BY <1>1, <1>4, <1>5, <1>6, AvailableFits
<1> QED BY <1>3, <1>7 DEF S

\* The debt less the credits of C.
Uncredited(C, o) == Debt[o] - (IF o \in C THEN Credit[o] ELSE 0)

LEMMA UncreditedType ==
    ASSUME NEW C, NEW o \in Orders
    PROVE  Uncredited(C, o) \in Int /\ Uncredited(C, o) <= Debt[o]
BY DebtCollectionAssumption DEF Uncredited

\* A call with all its locks has seen every collection on its orders.
LEMMA ActiveWasSeen ==
    ASSUME IInv, AInv, OneNamePerOrder, NEW c \in Calls, held[c] = LocksOf(c),
           NEW o \in OrdersOf(c), NEW d \in Calls, o \in OrdersOf(d), col[d] \in Active
    PROVE  snap[c].col[d] \in Active
<1>1. LockName(c, o) \in held[c] /\ LockName(c, o) \in LocksOf(d)
  BY DEF OneNamePerOrder, LocksOf
<1>2. snap[c].col[d] # "absent"
  BY <1>1, HolderSees DEF HolderSeesEveryCollection, Active
<1>3. Precedes(snap[c].col[d], col[d])
  BY OpenTxns DEF AInv, SnapshotsArePast, Earlier, Now
<1>4. snap[c].col[d] \in Status
  BY OpenTxns DEF IInv, TypeOK, Snapshot
<1> QED BY <1>2, <1>3, <1>4 DEF Precedes, Active, Status

\* What a call creates fits what is left of its orders at that moment, by the
\* credits its snapshot shows.
LEMMA CreateFits ==
    ASSUME IInv, AInv, OneNamePerOrder, NEW c \in Calls, Create(c), NEW o \in OrdersOf(c)
    PROVE  /\ o \in Orders
           /\ Alloc[c][o] + Allocated({d \in Calls : col[d] \in Active}, o)
                <= Uncredited(snap[c].credited, o)
<1> DEFINE A == {d \in Calls : col[d] \in Active}
           S == {d \in Calls : snap[c].col[d] = "submitted"}
           R == snap[c].receipts
           left == Uncredited(snap[c].credited, o)
<1>1. /\ A \in SUBSET Calls /\ S \in SUBSET Calls /\ R \in SUBSET Calls
      /\ IsFiniteSet(A) /\ IsFiniteSet(S) /\ IsFiniteSet(R)
      /\ o \in Orders
  <2>1. A \subseteq Made /\ S \subseteq Made /\ R \subseteq Made /\ c \in Txns
    BY FiniteSums, OpenTxns DEF Made, Active
  <2> QED BY <2>1, FiniteSums DEF Made, OrdersOf
<1>2. Alloc[c][o] + Allocated(S, o) <= Balance(snap[c], o)
  <2>1. Available(snap[c], c, {}) /\ Calls \ {} = Calls
    BY DEF Create
  <2> QED BY OpenTxns, <2>1, CheckedFits
<1>3. Balance(snap[c], o) = left - Allocated(R, o) /\ left \in Int
  BY <1>1, UncreditedType DEF Balance, Uncredited
<1>4. S \cap R = {}
  BY OpenTxns DEF AInv, SnapshotsArePast
<1>5. On(A, o) \subseteq S \cup R
  <2> SUFFICES ASSUME NEW d \in A, Alloc[d][o] > 0
               PROVE  d \in S \cup R
    BY DEF On
  <2>1. o \in OrdersOf(d) /\ held[c] = LocksOf(c)
    BY <1>1 DEF OrdersOf, Create
  <2>2. snap[c].col[d] \in Active
    BY <2>1, ActiveWasSeen
  <2> QED BY OpenTxns, <2>2 DEF AInv, SnapshotsArePast, Active
<1>6. IsFiniteSet(S \cup R)
  BY <1>1, FS_Union
<1> HIDE DEF A, S, R, left
<1>7. /\ Allocated(A, o) <= Allocated(S \cup R, o)
      /\ Allocated(S \cup R, o) = Allocated(S, o) + Allocated(R, o)
  BY <1>1, <1>4, <1>5, <1>6, AllocatedWithin, AllocatedUnion
<1>8. /\ Allocated(A, o) \in Nat /\ Allocated(S, o) \in Nat /\ Allocated(R, o) \in Nat
      /\ Alloc[c][o] \in Nat
  BY <1>1, AllocatedNat, DebtCollectionAssumption
<1>9. Alloc[c][o] + Allocated(A, o) <= left
  BY <1>2, <1>3, <1>7, <1>8
<1> QED BY <1>1, <1>9 DEF A, left

LEMMA CollectedStep ==
    ASSUME IInv, AInv, OneNamePerOrder, NoOverCollection, [Next]_vars
    PROVE  NoOverCollection'
<1> SUFFICES ASSUME NEW o \in Orders
             PROVE  Allocated({c \in Calls : col'[c] \in Active}, o) <= Debt[o]
  BY DEF NoOverCollection, Allocated
<1> DEFINE A == {c \in Calls : col[c] \in Active}
           B == {c \in Calls : col'[c] \in Active}
<1>0. A \in SUBSET Calls /\ IsFiniteSet(A) /\ Allocated(A, o) <= Debt[o]
  <2>1. A \subseteq Made
    BY DEF Made, Active
  <2> QED BY <2>1, FiniteSums DEF NoOverCollection
<1>t. TypeOK /\ UnmarkedIsSubmitted /\ OnlyCreatedExist
  BY DEF IInv
<1>1. CASE UNCHANGED col
  BY <1>0, <1>1
<1>2. ASSUME NEW c \in Calls, Create(c), col[c] = "absent", col' = [col EXCEPT ![c] = "submitted"]
      PROVE  Allocated(B, o) <= Debt[o]
  <2>1. B = A \cup {c} /\ c \notin A
    BY <1>2, <1>t DEF Active, TypeOK
  <2>2. Alloc[c][o] + Allocated(A, o) <= Debt[o]
    <3>1. /\ Alloc[c][o] \in Nat /\ Allocated(A, o) \in Nat /\ Debt[o] \in Nat
          /\ Uncredited(snap[c].credited, o) \in Int
          /\ Uncredited(snap[c].credited, o) <= Debt[o]
      <4> HIDE DEF A
      <4> QED BY <1>0, AllocatedNat, UncreditedType, DebtCollectionAssumption
    <3>2. CASE o \in OrdersOf(c)
      <4>1. Alloc[c][o] + Allocated(A, o) <= Uncredited(snap[c].credited, o)
        BY <1>2, <3>2, CreateFits
      <4> HIDE DEF A
      <4> QED BY <3>1, <4>1
    <3>3. CASE o \notin OrdersOf(c)
      <4>1. Alloc[c][o] = 0
        BY <3>1, <3>3 DEF OrdersOf
      <4> HIDE DEF A
      <4> QED BY <1>0, <3>1, <4>1
    <3> QED BY <3>2, <3>3
  <2> HIDE DEF A, B
  <2> QED BY <1>0, <2>1, <2>2, AllocatedWith
<1>3. ASSUME NEW c \in Calls, NEW s \in {"rejected", "accounting_confirmed"},
             col[c] = "submitted", col' = [col EXCEPT ![c] = s]
      PROVE  Allocated(B, o) <= Debt[o]
  <2>1. B \in SUBSET A
    BY <1>3, <1>t DEF Active, TypeOK
  <2>2. IsFiniteSet(B) /\ B \in SUBSET Calls /\ On(B, o) \subseteq A
    BY <1>0, <2>1, FS_Subset DEF On
  <2> HIDE DEF A, B
  <2>3. Allocated(B, o) <= Allocated(A, o) /\ Allocated(B, o) \in Nat /\ Allocated(A, o) \in Nat
    BY <1>0, <2>2, AllocatedWithin, AllocatedNat
  <2>4. Debt[o] \in Nat
    BY DebtCollectionAssumption
  <2> QED BY <1>0, <2>3, <2>4
<1>4. UNCHANGED database => UNCHANGED col
  BY DEF database
<1>5. \A p \in Orders : CreditOrder(p) => UNCHANGED col
  BY DEF CreditOrder
<1> HIDE DEF A, B
<1>6. Allocated(B, o) <= Debt[o]
  BY <1>t, <1>1, <1>2, <1>3, <1>4, <1>5, DatabaseStep DEF B
<1> QED BY <1>6 DEF B

\* What is collected on an order and not rejected never exceeds its debt,
\* for any calls that name the order alike, whatever they collect at once.
THEOREM NothingOverCollected ==
    ASSUME OneNamePerOrder
    PROVE  Spec => []NoOverCollection
<1>1. Init => NoOverCollection
  <2> SUFFICES ASSUME Init, NEW o \in Orders
               PROVE  Allocated({c \in Calls : col[c] \in Active}, o) <= Debt[o]
    BY DEF NoOverCollection
  <2>1. {c \in Calls : col[c] \in Active} = {}
    BY DEF Init, Active
  <2>2. Allocated({c \in Calls : col[c] \in Active}, o) = 0
    BY <2>1, AllocatedEmpty
  <2>3. Debt[o] \in Nat
    BY DebtCollectionAssumption
  <2> QED BY <2>2, <2>3
<1>2. IInv /\ AInv /\ NoOverCollection /\ [Next]_vars => NoOverCollection'
  BY CollectedStep
<1> QED BY <1>1, <1>2, Invariance, AInvariance, PTL DEF Spec

-----------------------------------------------------------------------------
(* External debt orders *)

\* Other modules credit sales orders only.
NoForeignCredit == \A o \in ExternalOrders : Credit[o] = 0

\* An external order that nobody marked for a clerk has the receipts the
\* clerk's snapshot shows.
ReceiptsAsSeen ==
    \A a \in Clerks, o \in ExternalOrders :
        doc[a] # NoDoc /\ <<"external", o>> \notin changed[a]
        => On(snap[a].receipts, o) = On(receipts, o)

LEMMA ReceiptsStep ==
    ASSUME IInv, ReceiptsAsSeen, [Next]_vars
    PROVE  ReceiptsAsSeen'
<1> SUFFICES ASSUME NEW a \in Clerks, NEW o \in ExternalOrders,
                    doc'[a] # NoDoc, <<"external", o>> \notin changed'[a]
             PROVE  On(snap'[a].receipts, o) = On(receipts', o)
  BY DEF ReceiptsAsSeen, On
<1>t. TypeOK /\ UnmarkedIsSubmitted /\ OnlyCreatedExist
  BY DEF IInv
<1>1. CASE doc'[a] \in Calls /\ snap'[a] = Now /\ UNCHANGED database
  BY <1>1 DEF Now, database
<1>2. CASE /\ doc[a] # NoDoc /\ doc'[a] = doc[a] /\ snap'[a] = snap[a]
           /\ changed[a] \subseteq changed'[a]
  <2>1. On(snap'[a].receipts, o) = On(receipts, o)
    BY <1>2 DEF ReceiptsAsSeen
  <2>2. ASSUME NEW b \in Clerks, Confirm(b), doc[b] \in Calls, receipts' = receipts \cup {doc[b]}
        PROVE  On(receipts', o) = On(receipts, o)
    <3>1. Finish(b, ConfirmWrites(doc[b])) /\ doc'[b] = NoDoc
      BY <1>t, <2>2 DEF Confirm, EndConfirm, TypeOK
    <3>2. b # a /\ changed'[a] = changed[a] \cup ConfirmWrites(doc[b])
      BY <1>t, <1>2, <3>1, FinishOthers, OpenTxns
    <3>3. o \notin ExternalOf(doc[b])
      BY <3>2 DEF ConfirmWrites
    <3>4. ~(Alloc[doc[b]][o] > 0)
      BY <3>3, DebtCollectionAssumption DEF ExternalOf, OrdersOf
    <3> QED BY <2>2, <3>4 DEF On
  <2>3. \A p \in Orders : CreditOrder(p) => UNCHANGED receipts
    BY DEF CreditOrder
  <2>4. UNCHANGED database => UNCHANGED receipts
    BY DEF database
  <2> QED BY <1>t, <2>1, <2>2, <2>3, <2>4, DatabaseStep
<1> QED BY <1>t, <1>1, <1>2, SnapshotStep

\* The balance of an external order is its debt less its receipts.
LEMMA ExternalBalance ==
    ASSUME NoForeignCredit, NEW o \in ExternalOrders, NEW db
    PROVE  Balance(db, o) = Debt[o] - 0 - Allocated(db.receipts, o)
BY DEF NoForeignCredit, Balance

LEMMA ExternalStep ==
    ASSUME IInv, AInv, NoForeignCredit, ReceiptsAsSeen, ExternalOrderMirrorsLedger, [Next]_vars
    PROVE  ExternalOrderMirrorsLedger'
<1>t. TypeOK /\ UnmarkedIsSubmitted /\ OnlyCreatedExist
  BY DEF IInv
<1> SUFFICES ASSUME NEW o \in ExternalOrders
             PROVE  /\ external'[o].paid = Allocated(receipts', o)
                    /\ external'[o].remaining = Debt[o] - 0 - Allocated(receipts', o)
  <2>1. \A o \in ExternalOrders : Balance(Now', o) = Debt[o] - 0 - Allocated(receipts', o)
    BY ExternalBalance DEF Now
  <2> QED BY <2>1 DEF ExternalOrderMirrorsLedger, Now, Balance, Allocated
<1>0. /\ o \in Orders /\ Debt[o] \in Nat
      /\ receipts \in SUBSET Calls /\ IsFiniteSet(receipts) /\ Allocated(receipts, o) \in Nat
  <2>1. o \in Orders /\ Debt[o] \in Nat /\ receipts \in SUBSET Calls /\ IsFiniteSet(receipts)
    BY <1>t, FiniteSums, DebtCollectionAssumption DEF TypeOK
  <2> QED BY <2>1, AllocatedNat
<1>m. /\ external[o].paid = Allocated(receipts, o)
      /\ external[o].remaining = Debt[o] - 0 - Allocated(receipts, o)
  <2>1. Balance(Now, o) = Debt[o] - 0 - Allocated(receipts, o)
    BY ExternalBalance DEF Now
  <2> QED BY <2>1 DEF ExternalOrderMirrorsLedger
<1>1. CASE UNCHANGED <<receipts, external>>
  BY <1>1, <1>m
<1>2. ASSUME NEW a \in Clerks, Confirm(a), doc[a] \in Calls, col[doc[a]] = "submitted",
             receipts' = receipts \cup {doc[a]}
      PROVE  /\ external'[o].paid = Allocated(receipts', o)
             /\ external'[o].remaining = Debt[o] - 0 - Allocated(receipts', o)
  <2> DEFINE c == doc[a]
  <2>1. c \notin receipts
    BY <1>2 DEF IInv, PostedIffConfirmed
  <2>2. Allocated(receipts', o) = Alloc[c][o] + Allocated(receipts, o)
    BY <1>0, <1>2, <2>1, AllocatedWith
  <2>3. CASE o \notin ExternalOf(c)
    <3>1. Alloc[c][o] = 0
      BY <1>0, <1>2, <2>3, DebtCollectionAssumption DEF ExternalOf, OrdersOf
    <3>2. external'[o] = external[o]
      BY <1>2, <2>3 DEF Confirm
    <3> QED BY <1>0, <1>m, <2>2, <3>1, <3>2
  <2>4. CASE o \in ExternalOf(c)
    <3>1. /\ external'[o].paid = external[o].paid + Alloc[c][o]
          /\ external'[o].remaining = Normalize(Balance(snap[a], o)) - Alloc[c][o]
      BY <1>2, <2>4 DEF Confirm
    <3>2. On(snap[a].receipts, o) = On(receipts, o)
      BY <1>2, <2>4 DEF Confirm, ConfirmConflict, ConfirmWrites, ReceiptsAsSeen
    <3>3. snap[a].receipts \in SUBSET Calls /\ IsFiniteSet(snap[a].receipts)
      BY FiniteSums, OpenTxns DEF Made
    <3>4. Allocated(snap[a].receipts, o) = Allocated(receipts, o)
      BY <1>0, <3>2, <3>3, AllocatedSame
    <3>5. Normalize(Balance(snap[a], o)) = Balance(snap[a], o)
      BY <1>2, <2>4, CheckedFits, OpenTxns DEF Confirm, ConfirmPasses, ExternalOf
    <3>6. Balance(snap[a], o) = Debt[o] - 0 - Allocated(receipts, o)
      BY <3>4, ExternalBalance
    <3>7. Alloc[c][o] \in Nat
      BY <1>0, <1>2, DebtCollectionAssumption
    <3> QED BY <1>0, <1>m, <2>2, <3>1, <3>5, <3>6, <3>7
  <2> QED BY <2>3, <2>4
<1>3. \A p \in Orders : CreditOrder(p) => UNCHANGED <<receipts, external>>
  BY DEF CreditOrder
<1>4. UNCHANGED database => UNCHANGED <<receipts, external>>
  BY DEF database
<1> QED BY <1>t, <1>1, <1>2, <1>3, <1>4, DatabaseStep

\* An external debt order carries what its receipts say, whatever confirmations
\* run at once, as long as no other module posts to it.
THEOREM ExternalOrdersFollowLedger ==
    ASSUME NoForeignCredit
    PROVE  Spec => []ExternalOrderMirrorsLedger
<1>1. Init => ReceiptsAsSeen /\ ExternalOrderMirrorsLedger
  <2> SUFFICES ASSUME Init PROVE ReceiptsAsSeen /\ ExternalOrderMirrorsLedger
    OBVIOUS
  <2>1. ReceiptsAsSeen
    BY DEF Init, ReceiptsAsSeen
  <2>2. ASSUME NEW o \in ExternalOrders
        PROVE  /\ external[o].paid = Allocated(receipts, o)
               /\ external[o].remaining = Balance(Now, o)
    <3>1. Allocated(receipts, o) = 0
      BY AllocatedEmpty DEF Init
    <3>2. Balance(Now, o) = Debt[o] - 0 - 0 /\ Debt[o] \in Nat
      BY <3>1, ExternalBalance, DebtCollectionAssumption DEF Now
    <3> QED BY <3>1, <3>2 DEF Init
  <2> QED BY <2>1, <2>2 DEF ExternalOrderMirrorsLedger
<1>2. IInv /\ AInv /\ ReceiptsAsSeen /\ ExternalOrderMirrorsLedger /\ [Next]_vars
      => ReceiptsAsSeen' /\ ExternalOrderMirrorsLedger'
  BY ReceiptsStep, ExternalStep
<1> QED BY <1>1, <1>2, Invariance, AInvariance, PTL DEF Spec

-----------------------------------------------------------------------------
(* Confirming *)

\* What the receipts R and the credits of C leave of an order.
Left(R, C, o) == Balance([receipts |-> R, credited |-> C], o)

\* What was submitted beside a's collection at its snapshot, and still is.
StillPending(a) == {d \in Calls \ {doc[a]} : snap[a].col[d] = "submitted" /\ col[d] = "submitted"}

\* A clerk's confirmation that may still succeed has its amounts left, by the
\* credits it knows of, and beside them what it saw pending.  Whatever another
\* clerk confirms meanwhile was either pending for both, or submitted later:
\* then that clerk counted this collection.
DebtIsReserved ==
    \A a \in Clerks :
        /\ doc[a] # NoDoc /\ <<"collection", doc[a]>> \notin changed[a]
        /\ ConfirmPasses(a)
        => \A o \in OrdersOf(doc[a]) :
             Alloc[doc[a]][o] + Allocated(StillPending(a), o)
               <= Left(receipts, snap[a].credited, o)

LEMMA PendingType ==
    ASSUME IInv, AInv, NEW a \in Clerks
    PROVE  StillPending(a) \in SUBSET Calls /\ IsFiniteSet(StillPending(a))
<1>1. StillPending(a) \in SUBSET Calls /\ StillPending(a) \subseteq Made
  BY DEF StillPending, Made
<1> QED BY <1>1, FiniteSums

LEMMA LeftType ==
    ASSUME NEW R \in SUBSET Calls, IsFiniteSet(R), NEW C, NEW o \in Orders
    PROVE  /\ Left(R, C, o) \in Int
           /\ Left(R, C, o) = Uncredited(C, o) - Allocated(R, o)
<1>1. Left(R, C, o) = Uncredited(C, o) - Allocated(R, o)
  BY DEF Left, Balance, Uncredited
<1>2. Uncredited(C, o) \in Int /\ Allocated(R, o) \in Nat
  BY UncreditedType, AllocatedNat
<1> QED BY <1>1, <1>2

LEMMA ReceiptsType ==
    ASSUME IInv, AInv
    PROVE  /\ receipts \in SUBSET Calls /\ IsFiniteSet(receipts)
           /\ \A C : \A o \in Orders : Left(receipts, C, o) \in Int
<1>1. receipts \in SUBSET Calls /\ IsFiniteSet(receipts)
  BY FiniteSums DEF IInv, TypeOK
<1> QED BY <1>1, LeftType

\* A receipt takes its amount off what is left.
LEMMA LeftAfterReceipt ==
    ASSUME IInv, AInv, NEW c \in Calls, c \notin receipts, NEW C, NEW o \in Orders
    PROVE  Left(receipts \cup {c}, C, o) = Left(receipts, C, o) - Alloc[c][o]
<1> DEFINE x == Uncredited(C, o)
           R == receipts \cup {c}
<1>1. R \in SUBSET Calls /\ IsFiniteSet(R) /\ Allocated(R, o) = Alloc[c][o] + Allocated(receipts, o)
  BY ReceiptsType, AllocatedWith
<1>2. x \in Int /\ Alloc[c][o] \in Int /\ Allocated(receipts, o) \in Int
  BY ReceiptsType, UncreditedType, AllocatedNat, DebtCollectionAssumption
<1>3. Left(receipts, C, o) = x - Allocated(receipts, o)
  BY ReceiptsType, LeftType
<1> HIDE DEF R
<1>4. Left(R, C, o) = x - Allocated(R, o)
  BY <1>1, LeftType
<1> HIDE DEF x
<1>5. Left(R, C, o) = Left(receipts, C, o) - Alloc[c][o]
  BY <1>1, <1>2, <1>3, <1>4
<1> QED BY <1>5 DEF R

\* Who knows of more credits has less left.
LEMMA LeftByMoreCredits ==
    ASSUME IInv, AInv, NEW C, NEW D, C \subseteq D, NEW o \in Orders
    PROVE  Left(receipts, D, o) <= Left(receipts, C, o)
<1>1. Uncredited(D, o) <= Uncredited(C, o)
  BY DebtCollectionAssumption DEF Uncredited
<1>2. /\ Left(receipts, C, o) = Uncredited(C, o) - Allocated(receipts, o)
      /\ Left(receipts, D, o) = Uncredited(D, o) - Allocated(receipts, o)
  BY ReceiptsType, LeftType
<1>3. Uncredited(C, o) \in Int /\ Uncredited(D, o) \in Int /\ Allocated(receipts, o) \in Nat
  BY ReceiptsType, UncreditedType, AllocatedNat
<1> QED BY <1>1, <1>2, <1>3

\* Another clerk b confirms what a has not seen: b's snapshot is the later
\* one, and b left a's collection, and all a saw pending, their amounts.
LEMMA LaterConfirmLeavesRoom ==
    ASSUME IInv, AInv, DebtIsReserved, NEW a \in Clerks, NEW b \in Clerks,
           doc[a] # NoDoc, <<"collection", doc[a]>> \notin changed[a],
           Confirm(b), <<"collection", doc[b]>> \notin changed[b],
           snap[a].col[doc[b]] = "absent",
           NEW o \in Orders, o \in OrdersOf(doc[a]), o \in OrdersOf(doc[b])
    PROVE  Alloc[doc[a]][o] + Allocated(StillPending(a), o) + Alloc[doc[b]][o]
             <= Left(receipts, snap[a].credited, o)
<1> DEFINE c == doc[a]
           d == doc[b]
           room(t) == Left(receipts, snap[t].credited, o)
<1>1. /\ c \in Calls /\ d \in Calls /\ doc[b] # NoDoc
      /\ snap[a].col[c] = "submitted" /\ snap[b].col[d] = "submitted"
      /\ col[c] = "submitted" /\ col[d] = "submitted"
  BY DEF Confirm, IInv, TypeOK, AInv, DocWasSubmitted, UnmarkedIsSubmitted
<1>2. Earlier(snap[a], snap[b])
  <2>1. ~Earlier(snap[b], snap[a])
    BY <1>1 DEF Earlier, Precedes
  <2> QED BY <2>1, OpenTxns DEF AInv, SnapshotsArePast
<1>3. room(b) <= room(a)
  BY <1>2, LeftByMoreCredits DEF Earlier
<1>4. Alloc[d][o] + Allocated(StillPending(b), o) <= room(b)
  <2>1. ConfirmPasses(b)
    BY DEF Confirm
  <2> QED BY <1>1, <2>1 DEF DebtIsReserved
<1>5. \A e \in Calls : snap[a].col[e] = "submitted" /\ col[e] = "submitted"
         => snap[b].col[e] = "submitted"
  BY <1>2, OpenTxns DEF Earlier, Precedes, AInv, SnapshotsArePast, Now
<1>6. StillPending(a) \cup {c} \in SUBSET StillPending(b) /\ c \notin StillPending(a)
  BY <1>1, <1>5 DEF StillPending
<1>7. /\ StillPending(a) \in SUBSET Calls /\ IsFiniteSet(StillPending(a))
      /\ StillPending(b) \in SUBSET Calls /\ IsFiniteSet(StillPending(b))
  BY PendingType
<1> HIDE DEF c, d
<1>8. /\ IsFiniteSet(StillPending(a) \cup {c})
      /\ Allocated(StillPending(a) \cup {c}, o) = Alloc[c][o] + Allocated(StillPending(a), o)
  BY <1>1, <1>6, <1>7, AllocatedWith
<1>9. Allocated(StillPending(a) \cup {c}, o) <= Allocated(StillPending(b), o)
  <2>1. /\ StillPending(a) \cup {c} \in SUBSET Calls
        /\ On(StillPending(a) \cup {c}, o) \subseteq StillPending(b)
    BY <1>1, <1>6, <1>7 DEF On
  <2> QED BY <1>7, <1>8, <2>1, AllocatedWithin
<1>10. /\ Alloc[c][o] \in Nat /\ Alloc[d][o] \in Nat /\ room(a) \in Int /\ room(b) \in Int
       /\ Allocated(StillPending(a), o) \in Nat /\ Allocated(StillPending(b), o) \in Nat
  BY <1>1, <1>7, ReceiptsType, AllocatedNat, DebtCollectionAssumption
<1> HIDE DEF room
<1>11. Alloc[c][o] + Allocated(StillPending(a), o) + Alloc[d][o] <= room(a)
  BY <1>3, <1>4, <1>8, <1>9, <1>10
<1> QED BY <1>11 DEF c, d, room

LEMMA ReservedStep ==
    ASSUME IInv, AInv, DebtIsReserved, [Next]_vars
    PROVE  DebtIsReserved'
<1>t. TypeOK /\ UnmarkedIsSubmitted /\ OnlyCreatedExist /\ PostedIffConfirmed
  BY DEF IInv
<1> SUFFICES ASSUME NEW a \in Clerks, doc'[a] # NoDoc,
                    <<"collection", doc'[a]>> \notin changed'[a], ConfirmPasses(a)',
                    NEW o \in Orders, o \in OrdersOf(doc'[a])
             PROVE  Alloc[doc'[a]][o] + Allocated(StillPending(a)', o)
                      <= Left(receipts', snap'[a].credited, o)
  BY DEF DebtIsReserved, OrdersOf, Allocated, Left, Balance
<1> DEFINE c == doc'[a]
           P == StillPending(a)
           Goal == Alloc[c][o] + Allocated(StillPending(a)', o) <= Left(receipts', snap'[a].credited, o)
\* The clerk begins: what the check computed is what is left.
<1>1. CASE doc'[a] \in Calls /\ snap'[a] = Now /\ UNCHANGED database
  <2>1. Available(Now, c, {c})
    BY <1>1 DEF ConfirmPasses
  <2> DEFINE S == {d \in Calls \ {c} : col[d] = "submitted"}
             B == Left(receipts, credited, o)
  <2>2. StillPending(a)' = S
    BY <1>1 DEF StillPending, Now, database
  <2>3. S \in SUBSET Calls /\ IsFiniteSet(S)
    <3>1. S \in SUBSET Calls /\ S \subseteq Made
      BY DEF Made
    <3> QED BY <3>1, FiniteSums
  <2>4. Alloc[c][o] <= Normalize(Normalize(B) - Allocated(S, o))
    BY <2>1 DEF Available, PendingOn, Now, Left, Balance
  <2>5. Alloc[c][o] \in Nat /\ Alloc[c][o] > 0 /\ B \in Int
    BY <1>1, ReceiptsType, DebtCollectionAssumption DEF OrdersOf
  <2>8. Left(receipts', snap'[a].credited, o) = B
    BY <1>1 DEF Now, database
  <2> HIDE DEF S, B, c
  <2>6. Allocated(S, o) \in Nat
    BY <2>3, AllocatedNat
  <2>7. Alloc[c][o] + Allocated(S, o) <= B
    BY <2>4, <2>5, <2>6, AvailableFits
  <2> QED BY <2>2, <2>7, <2>8 DEF c
<1>2. CASE /\ doc[a] # NoDoc /\ doc'[a] = doc[a] /\ snap'[a] = snap[a]
           /\ changed[a] \subseteq changed'[a]
  <2> DEFINE seen == snap[a].credited
  <2>1. /\ c \in Calls /\ <<"collection", doc[a]>> \notin changed[a] /\ ConfirmPasses(a)
        /\ snap[a].col[c] = "submitted" /\ col[c] = "submitted"
    BY <1>2, <1>t DEF ConfirmPasses, AInv, DocWasSubmitted, UnmarkedIsSubmitted, TypeOK
  <2>3. Alloc[c][o] + Allocated(P, o) <= Left(receipts, seen, o)
    BY <1>2, <2>1 DEF DebtIsReserved
  <2>4. P \in SUBSET Calls /\ IsFiniteSet(P)
    BY PendingType
  <2>5. /\ Alloc[c][o] \in Nat /\ Allocated(P, o) \in Nat /\ Left(receipts, seen, o) \in Int
    BY <2>1, <2>4, ReceiptsType, AllocatedNat, DebtCollectionAssumption
  <2>p. StillPending(a)' = {d \in Calls \ {c} : snap[a].col[d] = "submitted" /\ col'[d] = "submitted"}
    BY <1>2 DEF StillPending
  \* Fewer may be pending than before: that leaves more.
  <2>a. ASSUME StillPending(a)' \subseteq P, UNCHANGED receipts
        PROVE  Goal
    <3>1. /\ StillPending(a)' \in SUBSET Calls /\ IsFiniteSet(StillPending(a)')
          /\ On(StillPending(a)', o) \subseteq P
      BY <2>4, <2>a, FS_Subset DEF On
    <3>2. Allocated(StillPending(a)', o) <= Allocated(P, o) /\ Allocated(StillPending(a)', o) \in Nat
      BY <2>4, <3>1, AllocatedWithin, AllocatedNat
    <3>3. Left(receipts', snap'[a].credited, o) = Left(receipts, seen, o)
      BY <1>2, <2>a
    <3> HIDE DEF P, c, seen
    <3> QED BY <2>3, <2>5, <3>2, <3>3 DEF c
  <2>6. ASSUME UNCHANGED <<col, receipts>>
        PROVE  Goal
    <3>1. StillPending(a)' = P
      BY <1>2, <2>6 DEF StillPending
    <3> QED BY <2>6, <3>1, <2>a
  <2>7. ASSUME NEW d \in Calls, col[d] = "absent", col' = [col EXCEPT ![d] = "submitted"],
               UNCHANGED receipts
        PROVE  Goal
    <3>1. snap[a].col[d] = "absent"
      BY <2>7, OpenTxns DEF AInv, SnapshotsArePast, Earlier, Precedes, Now
    <3>2. StillPending(a)' \subseteq P
      BY <1>2, <1>t, <2>7, <2>p, <3>1 DEF StillPending, TypeOK
    <3> QED BY <2>7, <3>2, <2>a
  <2>8. ASSUME NEW d \in Calls, col[d] = "submitted", col' = [col EXCEPT ![d] = "rejected"],
               UNCHANGED receipts
        PROVE  Goal
    <3>1. StillPending(a)' \subseteq P
      BY <1>2, <1>t, <2>8, <2>p DEF StillPending, TypeOK
    <3> QED BY <2>8, <3>1, <2>a
  <2>9. ASSUME NEW b \in Clerks, Confirm(b), doc[b] \in Calls, col[doc[b]] = "submitted",
               <<"collection", doc[b]>> \notin changed[b],
               col' = [col EXCEPT ![doc[b]] = "accounting_confirmed"],
               receipts' = receipts \cup {doc[b]}
        PROVE  Goal
    <3> DEFINE d == doc[b]
    <3>1. d \notin receipts /\ Alloc[d][o] \in Nat
      BY <2>9, <1>t, DebtCollectionAssumption DEF PostedIffConfirmed
    <3>2. Left(receipts', snap'[a].credited, o) = Left(receipts, seen, o) - Alloc[d][o]
      BY <1>2, <2>9, <3>1, LeftAfterReceipt
    <3>3. d # c
      <4>1. Finish(b, ConfirmWrites(d)) /\ doc'[b] = NoDoc
        BY <1>t, <2>9 DEF Confirm, EndConfirm, TypeOK
      <4>2. b # a /\ changed'[a] = changed[a] \cup ConfirmWrites(d)
        BY <1>t, <1>2, <4>1, FinishOthers, OpenTxns
      <4> QED BY <4>2 DEF ConfirmWrites
    <3>6. snap[a].col[d] \in {"absent", "submitted"}
      BY <2>9, OpenTxns DEF AInv, SnapshotsArePast, Earlier, Precedes, Now
    <3>7. CASE snap[a].col[d] = "submitted"
      <4> DEFINE Q == P \ {d}
      <4>1. d \in P /\ StillPending(a)' = Q
        BY <1>2, <1>t, <2>9, <2>p, <3>3, <3>7 DEF StillPending, TypeOK
      <4>2. P = Q \cup {d} /\ Q \in SUBSET Calls /\ IsFiniteSet(Q)
        BY <2>4, <4>1, FS_Subset
      <4> HIDE DEF Q, P, d, c, seen
      <4>3. Allocated(P, o) = Alloc[d][o] + Allocated(Q, o) /\ Allocated(Q, o) \in Nat
        BY <2>9, <4>2, AllocatedWith, AllocatedNat DEF Q, d
      <4> QED BY <2>3, <2>5, <3>1, <3>2, <4>1, <4>3 DEF c
    <3>8. CASE snap[a].col[d] = "absent"
      <4>1. StillPending(a)' = P
        BY <1>2, <1>t, <2>9, <2>p, <3>8 DEF StillPending, TypeOK
      <4>2. Alloc[c][o] + Allocated(P, o) + Alloc[d][o] <= Left(receipts, seen, o)
        <5>1. CASE o \in OrdersOf(d)
          BY <1>2, <2>1, <2>9, <3>8, <5>1, LaterConfirmLeavesRoom
        <5>2. CASE o \notin OrdersOf(d)
          <6>1. Alloc[d][o] = 0
            BY <3>1, <5>2 DEF OrdersOf
          <6> HIDE DEF P, d, c, seen
          <6> QED BY <2>3, <2>5, <6>1
        <5> QED BY <5>1, <5>2
      <4> HIDE DEF P, d, c, seen
      <4> QED BY <2>5, <3>1, <3>2, <4>1, <4>2 DEF c
    <3> QED BY <3>6, <3>7, <3>8
  <2>10. \A p \in Orders : CreditOrder(p) => UNCHANGED <<col, receipts>>
    BY DEF CreditOrder
  <2>11. UNCHANGED database => UNCHANGED <<col, receipts>>
    BY DEF database
  <2> HIDE DEF Goal
  <2>12. Goal
    BY <1>t, <2>6, <2>7, <2>8, <2>9, <2>10, <2>11, DatabaseStep
  <2> QED BY <2>12 DEF Goal
<1> QED BY <1>t, <1>1, <1>2, SnapshotStep

LEMMA ReservedInvariance == Spec => []DebtIsReserved
<1>1. Init => DebtIsReserved
  BY DEF Init, DebtIsReserved
<1>2. IInv /\ AInv /\ DebtIsReserved /\ [Next]_vars => DebtIsReserved'
  BY ReservedStep
<1> QED BY <1>1, <1>2, Invariance, AInvariance, PTL DEF Spec

\* What a confirmation posts is left, by the credits its snapshot shows.
LEMMA ConfirmFits ==
    ASSUME IInv, AInv, DebtIsReserved, NEW a \in Clerks, Confirm(a), NEW o \in OrdersOf(doc[a])
    PROVE  /\ doc[a] \in Calls /\ doc[a] \notin receipts /\ o \in Orders
           /\ Alloc[doc[a]][o] <= Left(receipts, snap[a].credited, o)
<1> DEFINE c == doc[a]
<1>1. /\ c \in Calls /\ doc[a] # NoDoc /\ <<"collection", c>> \notin changed[a]
      /\ ConfirmPasses(a) /\ o \in Orders
  BY DEF Confirm, ConfirmConflict, ConfirmWrites, IInv, TypeOK, OrdersOf
<1>2. c \notin receipts
  BY <1>1 DEF IInv, UnmarkedIsSubmitted, PostedIffConfirmed
<1>3. Alloc[c][o] + Allocated(StillPending(a), o) <= Left(receipts, snap[a].credited, o)
  BY <1>1 DEF DebtIsReserved
<1>4. /\ Alloc[c][o] \in Nat /\ Allocated(StillPending(a), o) \in Nat
      /\ Left(receipts, snap[a].credited, o) \in Int
  BY <1>1, PendingType, ReceiptsType, AllocatedNat, DebtCollectionAssumption
<1> HIDE DEF c
<1>5. Alloc[c][o] <= Left(receipts, snap[a].credited, o)
  BY <1>3, <1>4
<1> QED BY <1>1, <1>2, <1>5 DEF c

\* A confirmation overdraws no order that nobody credited since the
\* confirmation's snapshot, whatever is confirmed, rejected and submitted
\* meanwhile, although confirmations take no lock.
THEOREM ConfirmationsStayWithinDebt == Spec => FreshConfirmNeverOverdraws
<1>1. IInv /\ AInv /\ DebtIsReserved /\ [Next]_vars =>
        [\A a \in Clerks : Confirm(a) /\ credited = snap[a].credited =>
           \A o \in OrdersOf(doc[a]) : Balance(Now', o) >= 0]_vars
  <2> SUFFICES ASSUME IInv, AInv, DebtIsReserved, NEW a \in Clerks, Confirm(a),
                      credited = snap[a].credited, NEW o \in OrdersOf(doc[a])
               PROVE  Balance(Now', o) >= 0
    OBVIOUS
  <2> DEFINE c == doc[a]
             B == Left(receipts, credited, o)
  <2>1. c \in Calls /\ c \notin receipts /\ o \in Orders /\ Alloc[c][o] <= B
    BY ConfirmFits
  <2>2. Balance(Now', o) = Left(receipts \cup {c}, credited, o)
    BY DEF Confirm, Now, Left, Balance
  <2>3. Balance(Now', o) = B - Alloc[c][o]
    BY <2>1, <2>2, LeftAfterReceipt
  <2>4. Alloc[c][o] \in Nat /\ B \in Int
    BY <2>1, ReceiptsType, DebtCollectionAssumption
  <2> HIDE DEF c, B
  <2> QED BY <2>1, <2>3, <2>4
<1> QED BY <1>1, Invariance, AInvariance, ReservedInvariance, PTL DEF Spec, FreshConfirmNeverOverdraws

-----------------------------------------------------------------------------
(* The book of DebtBook *)

\* The credits a transaction goes by, if it is open.
Known(t) == IF Open(t) THEN {snap[t].credited} ELSE {}

Reserved(o) == Allocated({c \in Calls : col[c] \in Active}, o)

LEMMA BookDatabase ==
    ASSUME UNCHANGED <<col, receipts, credited>>
    PROVE  /\ UNCHANGED <<[o \in Orders |-> Reserved(o)], [o \in Orders |-> Allocated(receipts, o)]>>
           /\ UNCHANGED <<col, credited>>
BY DEF Reserved

\* A transaction that does not begin or end goes by the same credits.
LEMMA KnownStays ==
    ASSUME UNCHANGED <<snap, doc>>, NEW c \in Calls, NEW p, TypeOK,
           pc[c] # "open", p # "open", pc' = [pc EXCEPT ![c] = p]
    PROVE  UNCHANGED [t \in Txns |-> Known(t)]
BY DEF Known, Open, TypeOK

LEMMA KnownSame ==
    ASSUME UNCHANGED <<snap, doc, pc>>
    PROVE  UNCHANGED [t \in Txns |-> Known(t)]
BY DEF Known, Open

LEMMA KnownBegins ==
    ASSUME TypeOK, NEW t \in Txns, ~Open(t), Open(t)', Start(t),
           \A u \in Txns \ {t} : Open(u)' <=> Open(u)
    PROVE  /\ Known(t) = {}
           /\ [u \in Txns |-> Known(u)]' = [[u \in Txns |-> Known(u)] EXCEPT ![t] = {credited}]
<1>1. Known(t) = {} /\ Known(t)' = {credited}
  BY DEF Known, Start, Now, TypeOK
<1>2. \A u \in Txns \ {t} : Known(u)' = Known(u)
  BY StartOthers DEF Known
<1> HIDE DEF Known
<1> QED BY <1>1, <1>2

LEMMA KnownEnds ==
    ASSUME TypeOK, NEW t \in Txns, ~Open(t)', NEW W, Finish(t, W),
           \A u \in Txns \ {t} : Open(u)' <=> Open(u)
    PROVE  [u \in Txns |-> Known(u)]' = [[u \in Txns |-> Known(u)] EXCEPT ![t] = {}]
<1>1. Known(t)' = {}
  BY DEF Known
<1>2. \A u \in Txns \ {t} : Known(u)' = Known(u)
  BY FinishOthers DEF Known
<1> HIDE DEF Known
<1> QED BY <1>1, <1>2

\* The submit calls and the clerks change their own transactions only.
LEMMA CallOpens ==
    ASSUME TypeOK, NEW c \in Calls, NEW p, pc' = [pc EXCEPT ![c] = p], UNCHANGED doc
    PROVE  /\ Open(c)' <=> p = "open"
           /\ \A u \in Txns \ {c} : Open(u)' <=> Open(u)
BY OpenTxns, DebtCollectionAssumption DEF Open, Txns, TypeOK

LEMMA ClerkOpens ==
    ASSUME TypeOK, NEW a \in Clerks, NEW d, doc' = [doc EXCEPT ![a] = d], UNCHANGED pc
    PROVE  /\ Open(a)' <=> d # NoDoc
           /\ \A u \in Txns \ {a} : Open(u)' <=> Open(u)
BY OpenTxns, DebtCollectionAssumption DEF Open, Txns, TypeOK

\* The steps of a call that enter nothing.
LEMMA CallStepOnBook ==
    ASSUME TypeOK, NEW c \in Calls,
           \/ Submit(c) \/ EnsureLock(c) \/ AnswerExisting(c) \/ OpenSubmit(c)
           \/ LockOrder(c) \/ Retry(c) \/ Refuse(c) \/ Lose(c)
    PROVE  Book!Next \/ UNCHANGED Book!book
<1>0. c \in Txns /\ UNCHANGED <<col, receipts, credited, doc>>
  BY OpenTxns DEF Submit, EnsureLock, AnswerExisting, OpenSubmit, LockOrder, Retry, Refuse, Lose,
                  database
<1>d. /\ UNCHANGED <<[o \in Orders |-> Reserved(o)], [o \in Orders |-> Allocated(receipts, o)]>>
      /\ UNCHANGED <<col, credited>>
  BY <1>0, BookDatabase
<1>1. CASE Submit(c) \/ AnswerExisting(c)
  <2>1. UNCHANGED [t \in Txns |-> Known(t)]
    <3>1. CASE Submit(c)
      BY <3>1, KnownStays DEF Submit
    <3>2. CASE AnswerExisting(c)
      BY <3>2, KnownStays DEF AnswerExisting
    <3> QED BY <1>1, <3>1, <3>2
  <2> QED BY <1>d, <2>1 DEF Book!book, Reserved, Known
<1>2. CASE EnsureLock(c) \/ LockOrder(c)
  <2>1. UNCHANGED [t \in Txns |-> Known(t)]
    BY <1>2, KnownSame DEF EnsureLock, LockOrder, Write
  <2> QED BY <1>d, <2>1 DEF Book!book, Reserved, Known
<1>3. CASE OpenSubmit(c)
  <2>1. /\ Known(c) = {}
        /\ [u \in Txns |-> Known(u)]' = [[u \in Txns |-> Known(u)] EXCEPT ![c] = {credited}]
    <3>1. Start(c) /\ ~Open(c) /\ pc' = [pc EXCEPT ![c] = "open"]
      BY <1>3, OpenTxns DEF OpenSubmit
    <3> QED BY <1>0, <3>1, CallOpens, KnownBegins
  <2>2. Book!Begin(c)
    BY <1>0, <1>d, <2>1 DEF Book!Begin, Reserved, Known
  <2> QED BY <1>0, <2>2 DEF Book!Next, Txns
<1>4. CASE Retry(c) \/ Refuse(c) \/ Lose(c)
  <2>1. PICK W : Finish(c, W)
    BY <1>4 DEF Retry, Refuse, Lose
  <2>2. PICK p \in {"preparing", "refused", "lost"} : pc' = [pc EXCEPT ![c] = p]
    BY <1>4 DEF Retry, Refuse, Lose
  <2>3. [u \in Txns |-> Known(u)]' = [[u \in Txns |-> Known(u)] EXCEPT ![c] = {}]
    BY <1>0, <2>1, <2>2, CallOpens, KnownEnds
  <2>4. Book!Leave(c)
    BY <1>d, <2>3 DEF Book!Leave, Book!Forget, Reserved, Known
  <2> QED BY <1>0, <2>4 DEF Book!Next, Txns
<1> QED BY <1>1, <1>2, <1>3, <1>4

\* A clerk who begins, or gives up.
LEMMA ClerkStepOnBook ==
    ASSUME TypeOK, NEW a \in Clerks,
           (\E c \in Calls : OpenConfirm(a, c)) \/ RefuseConfirm(a) \/ AbortConfirm(a)
    PROVE  Book!Next
<1>0. a \in Txns /\ UNCHANGED <<col, receipts, credited, pc>>
  BY OpenTxns DEF OpenConfirm, RefuseConfirm, AbortConfirm, database
<1>d. /\ UNCHANGED <<[o \in Orders |-> Reserved(o)], [o \in Orders |-> Allocated(receipts, o)]>>
      /\ UNCHANGED <<col, credited>>
  BY <1>0, BookDatabase
<1>1. ASSUME NEW c \in Calls, OpenConfirm(a, c)
      PROVE  Book!Next
  <2>1. /\ Known(a) = {}
        /\ [u \in Txns |-> Known(u)]' = [[u \in Txns |-> Known(u)] EXCEPT ![a] = {credited}]
    <3>1. Start(a) /\ ~Open(a) /\ doc' = [doc EXCEPT ![a] = c] /\ c # NoDoc
      BY <1>1, OpenTxns, DebtCollectionAssumption DEF OpenConfirm
    <3> QED BY <1>0, <3>1, ClerkOpens, KnownBegins
  <2>2. Book!Begin(a)
    BY <1>0, <1>d, <2>1 DEF Book!Begin, Reserved, Known
  <2> QED BY <1>0, <2>2 DEF Book!Next, Txns
<1>2. CASE RefuseConfirm(a) \/ AbortConfirm(a)
  <2>1. Finish(a, {}) /\ doc' = [doc EXCEPT ![a] = NoDoc]
    BY <1>2 DEF RefuseConfirm, AbortConfirm, EndConfirm
  <2>2. [u \in Txns |-> Known(u)]' = [[u \in Txns |-> Known(u)] EXCEPT ![a] = {}]
    BY <1>0, <2>1, ClerkOpens, KnownEnds
  <2>3. Book!Leave(a)
    BY <1>d, <2>2 DEF Book!Leave, Book!Forget, Reserved, Known
  <2> QED BY <1>0, <2>3 DEF Book!Next, Txns
<1> QED BY <1>1, <1>2

\* How entries move what is reserved.
LEMMA ReservedType ==
    ASSUME IInv, AInv
    PROVE  LET A == {c \in Calls : col[c] \in Active}
           IN  /\ A \in SUBSET Calls /\ IsFiniteSet(A)
               /\ \A o \in Orders : Reserved(o) \in Nat /\ Reserved(o) = Allocated(A, o)
<1> DEFINE A == {c \in Calls : col[c] \in Active}
<1>1. A \in SUBSET Calls /\ IsFiniteSet(A)
  <2>1. A \subseteq Made
    BY DEF Made, Active
  <2> QED BY <2>1, FiniteSums
<1>2. \A o \in Orders : Reserved(o) = Allocated(A, o)
  BY DEF Reserved
<1> HIDE DEF A
<1>3. \A o \in Orders : Reserved(o) \in Nat
  BY <1>1, <1>2, AllocatedNat
<1> QED BY <1>1, <1>2, <1>3 DEF A

LEMMA ReservedMore ==
    ASSUME IInv, AInv, NEW c \in Calls, col[c] = "absent",
           col' = [col EXCEPT ![c] = "submitted"], NEW o \in Orders
    PROVE  Reserved(o)' = Reserved(o) + Alloc[c][o]
<1> DEFINE A == {d \in Calls : col[d] \in Active}
           B == {d \in Calls : col'[d] \in Active}
<1>1. B = A \cup {c} /\ c \notin A
  BY DEF IInv, TypeOK, Active
<1>2. A \in SUBSET Calls /\ IsFiniteSet(A) /\ Reserved(o) = Allocated(A, o)
  BY ReservedType
<1>3. Reserved(o)' = Allocated(B, o)
  BY DEF Reserved, Allocated
<1>4. Alloc[c][o] \in Nat
  BY DebtCollectionAssumption
<1> HIDE DEF A, B
<1>5. Allocated(B, o) = Alloc[c][o] + Allocated(A, o) /\ Allocated(A, o) \in Nat
  BY <1>1, <1>2, AllocatedWith, AllocatedNat
<1> QED BY <1>2, <1>3, <1>4, <1>5

LEMMA ReservedLess ==
    ASSUME IInv, AInv, NEW c \in Calls, col[c] = "submitted",
           col' = [col EXCEPT ![c] = "rejected"], NEW o \in Orders
    PROVE  Reserved(o)' = Reserved(o) - Alloc[c][o]
<1> DEFINE A == {d \in Calls : col[d] \in Active}
           B == {d \in Calls : col'[d] \in Active}
<1>1. A = B \cup {c} /\ c \notin B
  BY DEF IInv, TypeOK, Active
<1>2. A \in SUBSET Calls /\ IsFiniteSet(A) /\ Reserved(o) = Allocated(A, o)
  BY ReservedType
<1>3. Reserved(o)' = Allocated(B, o)
  BY DEF Reserved, Allocated
<1>4. Alloc[c][o] \in Nat
  BY DebtCollectionAssumption
<1> HIDE DEF A, B
<1>5. B \in SUBSET Calls /\ IsFiniteSet(B)
  BY <1>1, <1>2, FS_Subset
<1>6. Allocated(A, o) = Alloc[c][o] + Allocated(B, o) /\ Allocated(B, o) \in Nat
  BY <1>1, <1>5, AllocatedWith, AllocatedNat
<1> QED BY <1>2, <1>3, <1>4, <1>6

LEMMA ReservedSame ==
    ASSUME IInv, NEW c \in Calls, col[c] = "submitted",
           col' = [col EXCEPT ![c] = "accounting_confirmed"], NEW o \in Orders
    PROVE  Reserved(o)' = Reserved(o)
<1>1. {d \in Calls : col'[d] \in Active} = {d \in Calls : col[d] \in Active}
  BY DEF IInv, TypeOK, Active
<1> QED BY <1>1 DEF Reserved, Allocated

LEMMA EnterOnBook ==
    ASSUME IInv, AInv, OneNamePerOrder, NEW c \in Calls, Create(c)
    PROVE  Book!Next
<1>t. TypeOK /\ c \in Txns /\ UNCHANGED <<receipts, credited, doc>>
  BY OpenTxns DEF IInv, Create
<1>1. PICK W : Finish(c, W)
  BY DEF Create
<1>2. PICK p \in {"created", "duplicate_key"} : pc' = [pc EXCEPT ![c] = p]
  BY DEF Create
<1>3. [u \in Txns |-> Known(u)]' = [[u \in Txns |-> Known(u)] EXCEPT ![c] = {}]
  BY <1>t, <1>1, <1>2, CallOpens, KnownEnds
<1>4. CASE KeyTaken(c)
  <2>1. UNCHANGED col
    BY <1>4 DEF Create
  <2>2. /\ UNCHANGED <<[o \in Orders |-> Reserved(o)], [o \in Orders |-> Allocated(receipts, o)]>>
        /\ UNCHANGED <<col, credited>>
    BY <1>t, <2>1, BookDatabase
  <2>3. Book!Leave(c)
    BY <1>3, <2>2 DEF Book!Leave, Book!Forget, Reserved, Known
  <2> QED BY <1>t, <2>3 DEF Book!Next, Txns
<1>5. CASE ~KeyTaken(c)
  <2>1. col[c] = "absent" /\ col' = [col EXCEPT ![c] = "submitted"]
    BY <1>5 DEF Create, OnlyCreatedExist, IInv
  \* The index entry is not marked, so no call with the key has created
  \* anything that the snapshot does not show.
  <2>2. \A d \in Calls : KeyOf[c] # NoKey /\ KeyOf[d] = KeyOf[c] => col[d] = "absent"
    BY <1>5, <1>t DEF Create, KeyTaken, SameKey, KeyDoc, IInv, UnseenIsMarked
  <2>3. Known(c) = {snap[c].credited}
    BY OpenTxns DEF Known, Create
  <2>4. \A o \in Orders : Alloc[c][o] > 0 =>
          Reserved(o) + Alloc[c][o]
            <= Debt[o] - (IF o \in snap[c].credited THEN Credit[o] ELSE 0)
    <3> SUFFICES ASSUME NEW o \in Orders, Alloc[c][o] > 0
                 PROVE  Reserved(o) + Alloc[c][o] <= Uncredited(snap[c].credited, o)
      BY DEF Uncredited
    <3>1. Alloc[c][o] + Reserved(o) <= Uncredited(snap[c].credited, o)
      BY CreateFits DEF OrdersOf, Reserved
    <3>2. Reserved(o) \in Nat
      BY ReservedType
    <3>3. Alloc[c][o] \in Nat /\ Uncredited(snap[c].credited, o) \in Int
      BY UncreditedType, DebtCollectionAssumption
    <3> QED BY <3>1, <3>2, <3>3
  <2>5. \A o \in Orders : Reserved(o)' = Reserved(o) + Alloc[c][o]
    BY <2>1, ReservedMore
  <2>6. Book!Fits(c, [o \in Orders |-> Reserved(o)], snap[c].credited)
    BY <2>4 DEF Book!Fits
  <2> DEFINE Res == [o \in Orders |-> Reserved(o)]
             Kn == [u \in Txns |-> Known(u)]
  <2>7. Res' = [o \in Orders |-> Res[o] + Alloc[c][o]]
    BY <2>5
  <2>8. \E seen \in Kn[c] : Book!Fits(c, Res, seen)
    BY <1>t, <2>3, <2>6
  <2>9. UNCHANGED [o \in Orders |-> Allocated(receipts, o)]
    BY <1>t
  <2>10. Book!Enter(c)
    BY <1>t, <1>3, <2>1, <2>2, <2>7, <2>8, <2>9 DEF Book!Enter, Book!Forget, Book!Fits, Reserved, Known
  <2> QED BY <2>10 DEF Book!Next
<1> QED BY <1>4, <1>5

LEMMA ConfirmOnBook ==
    ASSUME IInv, AInv, DebtIsReserved, NEW a \in Clerks, Confirm(a)
    PROVE  Book!Next
<1> DEFINE c == doc[a]
           paidOf == [o \in Orders |-> Allocated(receipts, o)]
           Kn == [u \in Txns |-> Known(u)]
<1>t. TypeOK /\ a \in Txns /\ c \in Calls /\ c \notin receipts /\ doc[a] # NoDoc
  <2>1. TypeOK /\ a \in Txns /\ doc[a] # NoDoc
    BY OpenTxns DEF IInv, Confirm
  <2>2. c \in Calls
    BY <2>1 DEF TypeOK
  <2>3. <<"collection", c>> \notin changed[a]
    BY <2>2 DEF Confirm, ConfirmConflict, ConfirmWrites
  <2> QED BY <2>1, <2>2, <2>3 DEF IInv, UnmarkedIsSubmitted, PostedIffConfirmed
<1>1. /\ col[c] = "submitted" /\ col' = [col EXCEPT ![c] = "accounting_confirmed"]
      /\ receipts' = receipts \cup {c} /\ UNCHANGED <<credited, pc>>
  <2>1. <<"collection", c>> \notin changed[a]
    BY <1>t DEF Confirm, ConfirmConflict, ConfirmWrites
  <2> QED BY <1>t, <2>1 DEF Confirm, IInv, UnmarkedIsSubmitted
<1>2. Finish(a, ConfirmWrites(c)) /\ doc' = [doc EXCEPT ![a] = NoDoc]
  BY DEF Confirm, EndConfirm
<1>3. Kn' = [Kn EXCEPT ![a] = {}]
  BY <1>t, <1>1, <1>2, ClerkOpens, KnownEnds
<1>4. Known(a) = {snap[a].credited}
  BY <1>t, OpenTxns DEF Known
<1>5. \A o \in Orders : Allocated(receipts', o) = Allocated(receipts, o) + Alloc[c][o]
  <2> SUFFICES ASSUME NEW o \in Orders
               PROVE  Allocated(receipts \cup {c}, o) = Allocated(receipts, o) + Alloc[c][o]
    BY <1>1
  <2>1. Allocated(receipts \cup {c}, o) = Alloc[c][o] + Allocated(receipts, o)
    BY <1>t, ReceiptsType, AllocatedWith
  <2>2. Alloc[c][o] \in Nat /\ Allocated(receipts, o) \in Nat
    BY <1>t, ReceiptsType, AllocatedNat, DebtCollectionAssumption
  <2> HIDE DEF c
  <2> QED BY <2>1, <2>2
<1>6. \A o \in Orders : Alloc[c][o] > 0 =>
        Allocated(receipts, o) + Alloc[c][o]
          <= Debt[o] - (IF o \in snap[a].credited THEN Credit[o] ELSE 0)
  <2> SUFFICES ASSUME NEW o \in Orders, Alloc[c][o] > 0
               PROVE  Allocated(receipts, o) + Alloc[c][o] <= Uncredited(snap[a].credited, o)
    BY DEF Uncredited
  <2>1. Alloc[c][o] <= Left(receipts, snap[a].credited, o)
    BY ConfirmFits DEF OrdersOf
  <2>2. Left(receipts, snap[a].credited, o) = Uncredited(snap[a].credited, o) - Allocated(receipts, o)
    BY ReceiptsType, LeftType
  <2>3. /\ Alloc[c][o] \in Nat /\ Allocated(receipts, o) \in Nat
        /\ Uncredited(snap[a].credited, o) \in Int
    BY <1>t, ReceiptsType, AllocatedNat, UncreditedType, DebtCollectionAssumption
  <2> HIDE DEF c
  <2> QED BY <2>1, <2>2, <2>3
<1>7. \E seen \in Kn[a] : Book!Fits(c, paidOf, seen)
  <2>1. Book!Fits(c, paidOf, snap[a].credited)
    BY <1>6 DEF Book!Fits
  <2> QED BY <1>t, <1>4, <2>1
<1>8. paidOf' = [o \in Orders |-> paidOf[o] + Alloc[c][o]]
  BY <1>5
<1>9. UNCHANGED [o \in Orders |-> Reserved(o)]
  BY <1>t, <1>1, ReservedSame
<1>10. Book!Confirm(a, c)
  BY <1>1, <1>3, <1>7, <1>8, <1>9 DEF Book!Confirm, Book!Forget, Book!Fits, Reserved, Known
<1> QED BY <1>t, <1>10 DEF Book!Next

LEMMA OtherStepOnBook ==
    ASSUME IInv, AInv,
           (\E c \in Calls : Reject(c)) \/ (\E o \in Orders : CreditOrder(o))
    PROVE  Book!Next
<1>1. ASSUME NEW c \in Calls, Reject(c) PROVE Book!Next
  <2>1. /\ col[c] = "submitted" /\ col' = [col EXCEPT ![c] = "rejected"]
        /\ UNCHANGED <<receipts, credited>>
    BY <1>1 DEF Reject, RejectApplies
  <2>2. UNCHANGED [t \in Txns |-> Known(t)]
    BY <1>1, KnownSame DEF Reject, Write
  <2> DEFINE Res == [o \in Orders |-> Reserved(o)]
  <2>3. Res' = [o \in Orders |-> Res[o] - Alloc[c][o]]
    BY <2>1, ReservedLess
  <2>4. UNCHANGED [o \in Orders |-> Allocated(receipts, o)]
    BY <2>1
  <2>5. Book!Reject(c)
    BY <2>1, <2>2, <2>3, <2>4 DEF Book!Reject, Reserved, Known
  <2> QED BY <2>5 DEF Book!Next
<1>2. ASSUME NEW o \in Orders, CreditOrder(o) PROVE Book!Next
  <2>1. UNCHANGED [t \in Txns |-> Known(t)]
    BY <1>2, KnownSame DEF CreditOrder
  <2>2. Book!CreditOrder(o)
    BY <1>2, <2>1 DEF CreditOrder, Book!CreditOrder, Known
  <2> QED BY <2>2 DEF Book!Next
<1> QED BY <1>1, <1>2

\* Where no order has two names, collecting debts in concurrent transactions
\* does what one person does who enters, confirms and rejects slips in a book
\* of totals, looking at the totals of the moment; only the credits of others
\* are those of an earlier one, when the transaction began.
THEOREM BookIsImplemented ==
    ASSUME OneNamePerOrder
    PROVE  Spec => ImplementsBook
<1>1. Init => Book!Init
  <2> SUFFICES ASSUME Init PROVE Book!Init
    OBVIOUS
  <2>1. {c \in Calls : col[c] \in Active} = {} /\ receipts = {} /\ credited = {}
    BY DEF Init, Active
  <2>2. \A o \in Orders : Allocated({}, o) = 0
    BY AllocatedEmpty
  <2>3. \A t \in Txns : ~Open(t)
    BY OpenTxns DEF Init, Open, Txns
  <2> QED BY <2>1, <2>2, <2>3 DEF Book!Init, Init, Txns
<1>2. IInv /\ AInv /\ DebtIsReserved /\ [Next]_vars => [Book!Next]_(Book!book)
  <2> SUFFICES ASSUME IInv, AInv, DebtIsReserved, [Next]_vars
               PROVE  Book!Next \/ UNCHANGED Book!book
    OBVIOUS
  <2>1. TypeOK
    BY DEF IInv
  <2>2. CASE UNCHANGED vars
    <3>1. UNCHANGED [t \in Txns |-> Known(t)]
      BY <2>2, KnownSame DEF vars
    <3>2. /\ UNCHANGED <<[o \in Orders |-> Reserved(o)], [o \in Orders |-> Allocated(receipts, o)]>>
          /\ UNCHANGED <<col, credited>>
      BY <2>2, BookDatabase DEF vars, database
    <3> QED BY <3>1, <3>2 DEF Book!book, Reserved, Known
  <2> QED
    BY <2>1, <2>2, CallStepOnBook, ClerkStepOnBook, EnterOnBook, ConfirmOnBook, OtherStepOnBook
       DEF Next, Advance
<1> QED
  BY <1>1, <1>2, Invariance, AInvariance, ReservedInvariance, PTL DEF Spec, ImplementsBook, Book!Spec
=============================================================================

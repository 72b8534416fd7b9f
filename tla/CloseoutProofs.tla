--------------------------- MODULE CloseoutProofs ---------------------------
(***************************************************************************)
(* Safety of the accounting closeout for every set of orders, calls, keys  *)
(* and requests, every amount and any number of versions.                  *)
(***************************************************************************)
EXTENDS Closeout, TLAPS

-----------------------------------------------------------------------------
(* The inductive invariant *)

\* The versions of one order, and the allocations that carry their numbers:
\* the numbers are 2, 3 and so on without a gap, each with one version and
\* with a correction allocation, and only a closed order has any.
WellFormed(ord, vs, as) ==
    /\ vs # {} => ord.confirmed
    /\ vs # {} => \E v \in vs : \A w \in vs : w.n <= v.n
    /\ \A v \in vs : v.n > 1
    /\ \A v, w \in vs : v.n = w.n => v = w
    /\ \A v \in vs : \A i \in 2..v.n : \E w \in vs : w.n = i
    /\ \A v \in vs : \E a \in as : a.type = "correction" /\ a.version = v.n
    /\ \A a \in as : a.type = "correction" => \E v \in vs : v.n = a.version

\* s was read before: an order of the same version is the same order, a
\* closed one stays as it is, versions and corrections are only added, and
\* what is still the same in both has the same corrections.
Behind(s, ord, vs, cs) ==
    /\ s.order.version <= ord.version
    /\ s.order.version = ord.version => s.order = ord
    /\ s.order.confirmed => s.order = ord
    /\ s.versions \subseteq vs
    /\ s.corrections \subseteq cs
    /\ s.order = ord /\ s.versions = vs => s.corrections = cs

Good(s, o) ==
    /\ WellFormed(s.order, s.versions, s.allocations)
    /\ Behind(s, order[o], versions[o], corrections[o])

\* Every version starts from the one before it.
Linear(o) ==
    \A v \in versions[o] : [n |-> v.n - 1, paid |-> v.prev] \in Line(o)

\* A key is in one correction, and in one version at most, whose correction
\* is recorded.
KeysOnce(o) ==
    /\ \A d, e \in corrections[o] : d.key = e.key => d = e
    /\ \A v, w \in versions[o] : v.key = w.key => v = w
    /\ \A v \in versions[o] : \E d \in corrections[o] : d.key = v.key

Documents(o) ==
    /\ WellFormed(order[o], versions[o], allocations[o])
    /\ Linear(o)
    /\ KeysOnce(o)
    /\ ~order[o].confirmed => balance[o] = 0

\* What a call has read is behind what is stored; unless it has missed a
\* write of the order, its snapshot has the order as it is.
Reads(c) ==
    call[c] # None =>
        /\ call[c].seen # None => Good(call[c].seen, call[c].order)
        /\ call[c].snap # None =>
              /\ Good(call[c].snap, call[c].order)
              /\ "salesOrder" \notin call[c].missed =>
                    call[c].snap.order = order[call[c].order]
        /\ /\ call[c].request.op = "adjust"
           /\ call[c].request.mode # "plain"
           => call[c].seen # None

IInv ==
    /\ TypeOK
    /\ \A o \in Orders : Documents(o)
    /\ \A c \in Calls : Reads(c)

-----------------------------------------------------------------------------
(* Types *)

USE CloseoutAssumption

LEMMA AmountsAreNat ==
  Paid \subseteq Nat /\ Payments \subseteq Paid /\ Returned \subseteq Nat
BY DEF Paid

LEMMA AdjustIsTyped ==
  ASSUME NEW r \in Requests, r.op = "adjust"
  PROVE  /\ r.paid \in Payments
         /\ r.ret \in Returned \cup {None}
         /\ r.key \in Keys \cup {None}
         /\ r.mode \in MODES
<1>1. r \in Request
  BY RequestsAssumption
<1>2. r \in [op : {"adjust"}, paid : Payments, ret : Returned \cup {None},
             key : Keys \cup {None}, mode : MODES]
  BY <1>1 DEF Request
<1> QED BY <1>2

LEMMA CallIsTyped ==
  ASSUME TypeOK, NEW c \in Calls, call[c] # None
  PROVE  /\ call[c] \in Call
         /\ Asked(c) \in Requests
         /\ OrderOf(c) \in Orders
         /\ Snap(c) # None => Snap(c) \in Snapshot
         /\ call[c].seen # None => call[c].seen \in Snapshot
BY DEF TypeOK, Call, Asked, OrderOf, Snap

LEMMA StoredIsTyped ==
  ASSUME TypeOK, NEW o \in Orders
  PROVE  Stored(o) \in Snapshot
BY DEF TypeOK, Stored, Snapshot

\* Another call's commit leaves a call as it is, but for what it has missed.
LEMMA CommitIsTyped ==
  ASSUME TypeOK, NEW c \in Calls, NEW W \in SUBSET DOCUMENTS, Commit(c, W)
  PROVE  call' \in [Calls -> Call \cup {None}]
<1> DEFINE Other(x) == [call[x] EXCEPT !.missed = @ \cup W]
<1>1. ASSUME NEW x \in Calls, call[x] # None
      PROVE  Other(x) \in Call
  <2>1. call[x] \in Call
    BY <1>1, CallIsTyped
  <2>2. /\ Other(x).request \in Requests
        /\ Other(x).order \in Orders
        /\ Other(x).seen \in Snapshot \cup {None}
        /\ Other(x).snap \in Snapshot \cup {None}
        /\ Other(x).missed \in SUBSET DOCUMENTS
    BY <2>1 DEF Call
  <2> QED BY <2>1, <2>2 DEF Call
<1>2. \A x \in Calls : call[x] \in Call \cup {None}
  BY DEF TypeOK
<1>3. ASSUME NEW x \in Calls
      PROVE  (IF x = c THEN None
              ELSE IF Running(x) /\ OrderOf(x) = OrderOf(c) THEN Other(x)
                   ELSE call[x]) \in Call \cup {None}
  BY <1>1, <1>2, <1>3 DEF Running
<1> QED BY <1>3 DEF Commit

\* What an adjustment is made of.
LEMMA AdjustmentIsTyped ==
  ASSUME TypeOK, NEW c \in Calls, Running(c), Asked(c).op = "adjust",
         Base(c) \in Snapshot
  PROVE  /\ MaterialReturn(c) \in Returned \cup {None}
         /\ FingerprintOf(c) \in Fingerprint
         /\ KeyOf(c) \in Key
         /\ \A n \in Nat : Recorded(c, n) \subseteq Correction
<1>1. /\ Asked(c) \in Requests
      /\ Snap(c) \in Snapshot
  BY CallIsTyped DEF Running, Snap
<1>2. /\ Asked(c).paid \in Payments
      /\ Asked(c).ret \in Returned \cup {None}
      /\ Asked(c).key \in Keys \cup {None}
  BY <1>1, AdjustIsTyped
<1>3. MaterialReturn(c) \in Returned \cup {None}
  BY <1>2 DEF MaterialReturn
<1>4. FingerprintOf(c) \in Fingerprint
  BY <1>2, <1>3 DEF FingerprintOf, Fingerprint
<1>5. Base(c).order.confirmed \in BOOLEAN
  BY DEF Snapshot, Order
<1>6. KeyOf(c) \in Key
  BY <1>2, <1>3, <1>5 DEF KeyOf, Key, MadeKey
<1>7. \A n \in Nat : Recorded(c, n) \subseteq Correction
  BY <1>4, <1>6 DEF Recorded, Correction
<1> QED BY <1>3, <1>4, <1>6, <1>7

-----------------------------------------------------------------------------
(* Versions *)

Sound(s) == s \in Snapshot /\ WellFormed(s.order, s.versions, s.allocations)

LEMMA LatestOf ==
  ASSUME NEW s, Sound(s)
  PROVE  /\ Latest(s).n \in Nat
         /\ Latest(s).paid \in Paid
         /\ \A v \in s.versions : v.n <= Latest(s).n
         /\ s.versions = {} => Latest(s) = [n |-> 1, paid |-> s.order.paid]
         /\ s.versions # {} =>
               \E v \in s.versions : Latest(s) = [n |-> v.n, paid |-> v.paid]
<1>1. /\ s.order.paid \in Paid
      /\ \A v \in s.versions : v \in Version
  BY DEF Sound, Snapshot, Order
<1>2. CASE s.versions = {}
  BY <1>1, <1>2 DEF Latest
<1>3. CASE s.versions # {}
  <2> DEFINE top == CHOOSE v \in s.versions : \A w \in s.versions : w.n <= v.n
  <2>1. \E v \in s.versions : \A w \in s.versions : w.n <= v.n
    BY <1>3 DEF Sound, WellFormed
  <2>2. top \in s.versions /\ \A w \in s.versions : w.n <= top.n
    BY <2>1
  <2>3. Latest(s) = [n |-> top.n, paid |-> top.paid]
    BY <1>3 DEF Latest
  <2>4. top.n \in Nat /\ top.paid \in Paid
    BY <1>1, <2>2 DEF Version, Paid
  <2> HIDE DEF top
  <2>5. \A v \in s.versions : v.n <= Latest(s).n
    BY <2>2, <2>3
  <2>6. \E v \in s.versions : Latest(s) = [n |-> v.n, paid |-> v.paid]
    BY <2>2, <2>3
  <2>7. Latest(s).n \in Nat /\ Latest(s).paid \in Paid
    BY <2>3, <2>4
  <2> QED BY <1>3, <2>5, <2>6, <2>7
<1> QED BY <1>2, <1>3

\* Later versions that end with the same number are the same versions.
LEMMA SameLatest ==
  ASSUME NEW s, NEW t, Sound(s), Sound(t), s.versions \subseteq t.versions,
         Latest(t).n <= Latest(s).n
  PROVE  s.versions = t.versions
<1> SUFFICES ASSUME NEW v \in t.versions
             PROVE  v \in s.versions
  OBVIOUS
<1>1. v.n \in Nat /\ v.n > 1
  BY DEF Sound, Snapshot, Version, WellFormed
<1>2. /\ Latest(s).n \in Nat
      /\ Latest(t).n \in Nat
      /\ v.n <= Latest(t).n
  BY LatestOf
<1>3. s.versions # {}
  BY <1>1, <1>2, LatestOf
<1>4. PICK top \in s.versions : Latest(s).n = top.n
  BY <1>3, LatestOf
<1>5. v.n \in 2..top.n
  BY <1>1, <1>2, <1>4
<1>6. PICK w \in s.versions : w.n = v.n
  BY <1>4, <1>5 DEF Sound, WellFormed
<1>7. w = v
  BY <1>6 DEF Sound, WellFormed
<1> QED BY <1>6, <1>7

\* The unique index keeps a correction from following a version that another
\* one has followed since the snapshot.
LEMMA IndexKeepsLine ==
  ASSUME TypeOK, NEW c \in Calls, call[c] # None, Sound(Snap(c)),
         Sound(Stored(OrderOf(c))),
         Snap(c).versions \subseteq versions[OrderOf(c)],
         VersionIndexFree(c, Latest(Snap(c)).n + 1)
  PROVE  Snap(c).versions = versions[OrderOf(c)]
<1> DEFINE s == Snap(c)
           t == Stored(OrderOf(c))
           n == Latest(s).n
<1>1. t.versions = versions[OrderOf(c)] /\ t.allocations = allocations[OrderOf(c)]
  BY DEF Stored
<1>2. n \in Nat /\ Latest(t).n \in Nat
  BY LatestOf
<1>3. Latest(t).n <= n
  <2> SUFFICES ASSUME n < Latest(t).n
               PROVE  FALSE
    BY <1>2
  <2>1. n >= 1
    <3>1. CASE s.versions = {}
      BY <3>1, LatestOf
    <3>2. CASE s.versions # {}
      <4>1. PICK v \in s.versions : n = v.n
        BY <3>2, LatestOf
      <4> QED BY <1>2, <4>1 DEF Sound, WellFormed
    <3> QED BY <3>1, <3>2
  <2>2. t.versions # {}
    BY <1>2, <2>1, LatestOf
  <2>3. PICK top \in t.versions : Latest(t).n = top.n
    BY <2>2, LatestOf
  <2>4. n + 1 \in 2..top.n
    BY <1>2, <2>1, <2>3
  <2>5. PICK w \in t.versions : w.n = n + 1
    BY <2>3, <2>4 DEF Sound, WellFormed
  <2>6. PICK a \in t.allocations : a.type = "correction" /\ a.version = n + 1
    BY <2>5 DEF Sound, WellFormed
  <2>7. a \notin s.allocations
    <3> SUFFICES ASSUME a \in s.allocations
                 PROVE  FALSE
      OBVIOUS
    <3>1. PICK v \in s.versions : v.n = n + 1
      BY <2>6 DEF Sound, WellFormed
    <3>2. v.n <= n
      BY LatestOf
    <3> QED BY <1>2, <3>1, <3>2
  <2> QED BY <1>1, <2>6, <2>7 DEF VersionIndexFree, IndexTaken
<1> QED BY <1>1, <1>3, SameLatest

-----------------------------------------------------------------------------
(* What was read stays behind *)

\* The ways the documents of an order change: not at all, in a write of the
\* open order, or by a version that is added.
Advanced(ord, vs, cs, ord2, vs2, cs2) ==
    \/ ord2 = ord /\ vs2 = vs /\ cs2 = cs
    \/ /\ ~ord.confirmed
       /\ ord2.version = ord.version + 1
       /\ vs2 = vs
       /\ cs \subseteq cs2
    \/ /\ ord2 = ord
       /\ cs \subseteq cs2
       /\ vs \subseteq vs2
       /\ vs2 # vs

LEMMA BehindStays ==
  ASSUME NEW s \in Snapshot,
         NEW ord \in Order, NEW vs, NEW cs,
         NEW ord2 \in Order, NEW vs2, NEW cs2,
         Behind(s, ord, vs, cs), Advanced(ord, vs, cs, ord2, vs2, cs2)
  PROVE  Behind(s, ord2, vs2, cs2)
<1>1. /\ s.order \in Order
      /\ s.order.version \in Nat /\ ord.version \in Nat /\ ord2.version \in Nat
  BY DEF Snapshot, Order
<1>2. CASE ord2 = ord /\ vs2 = vs /\ cs2 = cs
  BY <1>2
<1>3. CASE /\ ~ord.confirmed
           /\ ord2.version = ord.version + 1
           /\ vs2 = vs
           /\ cs \subseteq cs2
  <2>1. s.order.version < ord2.version
    BY <1>1, <1>3 DEF Behind
  <2>2. s.order # ord2
    BY <1>1, <2>1
  <2>3. ~s.order.confirmed
    BY <1>3 DEF Behind
  <2> QED BY <1>1, <1>3, <2>1, <2>2, <2>3 DEF Behind
<1>4. CASE ord2 = ord /\ cs \subseteq cs2 /\ vs \subseteq vs2 /\ vs2 # vs
  <2>1. s.versions \subseteq vs2 /\ s.versions # vs2
    BY <1>4 DEF Behind
  <2> QED BY <1>4, <2>1 DEF Behind
<1> QED BY <1>2, <1>3, <1>4 DEF Advanced

\* What a call has read is sound, and its snapshot is of its order.
LEMMA ReadIsSound ==
  ASSUME IInv, NEW c \in Calls, call[c] # None
  PROVE  /\ Snap(c) # None => Sound(Snap(c))
         /\ call[c].seen # None => Sound(call[c].seen)
<1>1. Reads(c)
  BY DEF IInv
<1> QED BY <1>1, CallIsTyped DEF IInv, Reads, Good, Sound, Snap

LEMMA StoredIsSound ==
  ASSUME IInv, NEW o \in Orders
  PROVE  /\ Sound(Stored(o))
         /\ Good(Stored(o), o)
<1>1. TypeOK /\ Documents(o)
  BY DEF IInv
<1>2. Stored(o) \in Snapshot
  BY <1>1, StoredIsTyped
<1>3. /\ Stored(o).order = order[o]
      /\ Stored(o).versions = versions[o]
      /\ Stored(o).allocations = allocations[o]
      /\ Stored(o).corrections = corrections[o]
  BY DEF Stored
<1>4. order[o].version \in Nat
  BY <1>1 DEF TypeOK, Order
<1> QED BY <1>1, <1>2, <1>3, <1>4 DEF Sound, Good, Documents, Behind

\* A call that commits leaves what the others have read behind.
LEMMA CommitKeepsReads ==
  ASSUME IInv, TypeOK', NEW c \in Calls, NEW W \in SUBSET DOCUMENTS,
         Running(c), Commit(c, W),
         \A p \in Orders : p # OrderOf(c) =>
            order'[p] = order[p] /\ versions'[p] = versions[p]
            /\ corrections'[p] = corrections[p],
         Advanced(order[OrderOf(c)], versions[OrderOf(c)], corrections[OrderOf(c)],
                  order'[OrderOf(c)], versions'[OrderOf(c)], corrections'[OrderOf(c)]),
         "salesOrder" \notin W => order'[OrderOf(c)] = order[OrderOf(c)]
  PROVE  \A x \in Calls : Reads(x)'
<1> SUFFICES ASSUME NEW x \in Calls, call'[x] # None
             PROVE  Reads(x)'
  BY DEF Reads
<1> DEFINE o == call[x].order
           StillGood(s) == /\ WellFormed(s.order, s.versions, s.allocations)
                           /\ Behind(s, order'[o], versions'[o], corrections'[o])
<1>1. /\ x # c
      /\ call[x] # None
      /\ call'[x].request = call[x].request
      /\ call'[x].order = o
      /\ call'[x].seen = call[x].seen
      /\ call'[x].snap = call[x].snap
      /\ call'[x].missed = call[x].missed
         \/ call'[x].missed = call[x].missed \cup W
      /\ call[x].snap # None /\ o = OrderOf(c)
         => call'[x].missed = call[x].missed \cup W
  <2>1. x # c
    BY DEF Commit
  <2>2. call'[x] = IF Running(x) /\ OrderOf(x) = OrderOf(c)
                   THEN [call[x] EXCEPT !.missed = call[x].missed \cup W]
                   ELSE call[x]
    BY <2>1 DEF Commit
  <2>3. CASE Running(x) /\ OrderOf(x) = OrderOf(c)
    <3>1. call[x] # None
      BY <2>3 DEF Running
    <3>2. call[x] \in Call
      BY <3>1, CallIsTyped DEF IInv
    <3>3. call'[x] = [call[x] EXCEPT !.missed = call[x].missed \cup W]
      BY <2>2, <2>3
    <3> QED BY <2>1, <3>1, <3>2, <3>3 DEF Call
  <2>4. CASE ~(Running(x) /\ OrderOf(x) = OrderOf(c))
    <3>1. call'[x] = call[x]
      BY <2>2, <2>4
    <3> QED BY <2>1, <2>4, <3>1 DEF Running, OrderOf
  <2> QED BY <2>3, <2>4
<1>2. o \in Orders /\ Reads(x) /\ TypeOK
  BY <1>1, CallIsTyped DEF IInv, OrderOf
<1>3. order[o] \in Order /\ order'[o] \in Order
  BY <1>2 DEF TypeOK
<1>4. Advanced(order[o], versions[o], corrections[o],
               order'[o], versions'[o], corrections'[o])
  BY <1>2 DEF Advanced
<1>5. ASSUME NEW s \in Snapshot, Good(s, o)
      PROVE  StillGood(s)
  BY <1>3, <1>4, <1>5, BehindStays DEF Good
<1>6. ASSUME call[x].seen # None
      PROVE  StillGood(call[x].seen)
  BY <1>1, <1>2, <1>5, <1>6, CallIsTyped DEF Reads
<1>7. ASSUME call[x].snap # None
      PROVE  /\ StillGood(call[x].snap)
             /\ "salesOrder" \notin call'[x].missed =>
                   call[x].snap.order = order'[o]
  <2>1. StillGood(call[x].snap)
    BY <1>1, <1>2, <1>5, <1>7, CallIsTyped DEF Reads, Snap
  <2>2. ASSUME "salesOrder" \notin call'[x].missed
        PROVE  call[x].snap.order = order'[o]
    <3>1. call[x].snap.order = order[o]
      BY <1>1, <1>2, <1>7, <2>2 DEF Reads
    <3>2. order'[o] = order[o]
      BY <1>1, <1>2, <1>7, <2>2
    <3> QED BY <3>1, <3>2
  <2> QED BY <2>1, <2>2
<1>8. call[x].request.op = "adjust" /\ call[x].request.mode # "plain"
      => call[x].seen # None
  BY <1>1, <1>2 DEF Reads
<1> QED BY <1>1, <1>6, <1>7, <1>8 DEF Reads, Good

-----------------------------------------------------------------------------
(* What the writers know of the order they write *)

LEMMA OpenHasNoVersions ==
  ASSUME IInv, NEW o \in Orders, ~order[o].confirmed
  PROVE  /\ versions[o] = {}
         /\ Latest(Stored(o)) = [n |-> 1, paid |-> order[o].paid]
<1>1. versions[o] = {}
  BY DEF IInv, Documents, WellFormed
<1> QED BY <1>1 DEF Latest, Stored

LEMMA WriterHasTheOrder ==
  ASSUME IInv, NEW c \in Calls, NEW W, Running(c), Commit(c, W),
         "salesOrder" \in W
  PROVE  Snap(c).order = order[OrderOf(c)]
<1>1. "salesOrder" \notin call[c].missed
  BY DEF Commit
<1> QED BY <1>1 DEF IInv, Reads, Running, Snap, OrderOf

LEMMA BaseIsRead ==
  ASSUME IInv, NEW c \in Calls, Running(c), Asked(c).op = "adjust"
  PROVE  /\ Sound(Snap(c))
         /\ Good(Snap(c), OrderOf(c))
         /\ Sound(Base(c))
         /\ Good(Base(c), OrderOf(c))
<1>1. Sound(Snap(c)) /\ Good(Snap(c), OrderOf(c))
  BY ReadIsSound DEF IInv, Reads, Running, Snap, OrderOf
<1>2. CASE Asked(c).mode = "batch"
  <2>1. call[c] # None /\ call[c].seen # None
    BY <1>2 DEF IInv, Reads, Running, Asked
  <2>2. Sound(call[c].seen) /\ Good(call[c].seen, OrderOf(c))
    BY <2>1, ReadIsSound DEF IInv, Reads, OrderOf
  <2> QED BY <1>1, <1>2, <2>2 DEF Base
<1>3. CASE Asked(c).mode # "batch"
  BY <1>1, <1>3 DEF Base
<1> QED BY <1>2, <1>3

\* An adjustment of an open order is decided on the order as it is.
LEMMA OpenBase ==
  ASSUME IInv, NEW c \in Calls, OpenAdjustment(c)
  PROVE  /\ Snap(c).order = order[OrderOf(c)]
         /\ Base(c).order = order[OrderOf(c)]
         /\ ~order[OrderOf(c)].confirmed
         /\ Base(c).corrections = corrections[OrderOf(c)]
         /\ Snap(c).corrections = corrections[OrderOf(c)]
<1> DEFINE o == OrderOf(c)
<1>1. /\ Running(c)
      /\ Asked(c).op = "adjust"
      /\ ~Base(c).order.confirmed
      /\ Snap(c).order.version = Base(c).order.version
      /\ Commit(c, {"salesOrder"} \cup
                   IF MaterialReturn(c) = None THEN {} ELSE {"returnOrder"})
  BY DEF OpenAdjustment, OptimisticLookup
<1>2. Snap(c).order = order[o]
  BY <1>1, WriterHasTheOrder
<1>3. Good(Snap(c), o) /\ Good(Base(c), o)
  BY <1>1, BaseIsRead
<1>4. Base(c).order = order[o]
  BY <1>1, <1>2, <1>3 DEF Good, Behind
<1>5. versions[o] = {}
  BY <1>1, <1>4, OpenHasNoVersions, CallIsTyped DEF Running, IInv
<1>6. Base(c).versions = {} /\ Snap(c).versions = {}
  BY <1>3, <1>5 DEF Good, Behind
<1> QED BY <1>1, <1>2, <1>3, <1>4, <1>5, <1>6 DEF Good, Behind

\* A correction of a closed order is decided on its last version.
LEMMA ClosedBase ==
  ASSUME IInv, NEW c \in Calls, ClosedCorrection(c)
  PROVE  /\ order[OrderOf(c)].confirmed
         /\ Base(c).order = order[OrderOf(c)]
         /\ Base(c).versions = versions[OrderOf(c)]
         /\ Base(c).corrections = corrections[OrderOf(c)]
         /\ Snap(c).corrections \subseteq corrections[OrderOf(c)]
         /\ Latest(Base(c)) = Latest(Stored(OrderOf(c)))
<1> DEFINE o == OrderOf(c)
<1>1. /\ Running(c)
      /\ Asked(c).op = "adjust"
      /\ Base(c).order.confirmed
      /\ Latest(Snap(c)) = Latest(Base(c))
      /\ VersionIndexFree(c, Latest(Snap(c)).n + 1)
  BY DEF ClosedCorrection, BatchIsCurrent
<1>2. /\ Sound(Snap(c)) /\ Good(Snap(c), o)
      /\ Sound(Base(c)) /\ Good(Base(c), o)
  BY <1>1, BaseIsRead
<1>3. call[c] # None /\ o \in Orders /\ TypeOK
  BY <1>1, CallIsTyped DEF Running, IInv
<1>4. Sound(Stored(o)) /\ Stored(o).versions = versions[o] /\ Stored(o).order = order[o]
  BY <1>3, StoredIsSound DEF Stored
<1>5. Snap(c).versions = versions[o]
  BY <1>1, <1>2, <1>3, <1>4, IndexKeepsLine DEF Good, Behind
<1>6. Base(c).order = order[o]
  BY <1>1, <1>2 DEF Good, Behind
<1>7. Latest(Stored(o)).n <= Latest(Base(c)).n
  <2>1. Latest(Stored(o)).n \in Nat
    BY <1>4, LatestOf
  <2>2. Latest(Stored(o)).n = Latest(Snap(c)).n
    BY <1>4, <1>5 DEF Latest
  <2> QED BY <1>1, <2>1, <2>2
<1>8. Base(c).versions = versions[o]
  BY <1>2, <1>4, <1>7, SameLatest DEF Good, Behind
<1>9. Latest(Base(c)) = Latest(Stored(o))
  BY <1>4, <1>6, <1>8 DEF Latest
<1> QED BY <1>1, <1>2, <1>6, <1>8, <1>9 DEF Good, Behind

-----------------------------------------------------------------------------
(* Every step keeps the types *)

LEMMA PayingIsTyped ==
  ASSUME NEW s \in Snapshot, NEW p \in Payments
  PROVE  /\ Paying(s.order, p) \in Order
         /\ Paying(s.order, p).version = s.order.version + 1
         /\ Paying(s.order, p).confirmed = s.order.confirmed
         /\ Paying(s.order, p).paid = p
<1>1. s.order \in Order
  BY DEF Snapshot
<1> QED BY <1>1 DEF Paying, Order, Paid

LEMMA RequestIsTyped ==
  ASSUME NEW r \in Requests
  PROVE  /\ r.op = "payment" => r.paid \in Payments
         /\ r.op = "return" => r.ret \in Returned
<1>1. r \in Request
  BY RequestsAssumption
<1> QED BY <1>1 DEF Request

\* Postings are whole numbers, and closing out posts what the account opens
\* with.
LEMMA Posting ==
  ASSUME NEW owed \in Int
  PROVE  Reconciled(owed) \in Int /\ Reconciled(owed) = Account!Opening(owed)
BY DEF Reconciled, ExpectedDebt, Abs, Account!Opening

LEMMA TypesStep ==
  ASSUME IInv, [Next]_vars
  PROVE  TypeOK'
<1> USE DEF TypeOK
<1>0. TypeOK
  BY DEF IInv
<1>1. ASSUME NEW c \in Calls, NEW o \in Orders, NEW r \in Requests,
             Read(c, o, r) \/ Ask(c, o, r)
      PROVE  TypeOK'
  <2>1. Stored(o) \in Snapshot
    BY <1>0, StoredIsTyped
  <2> QED BY <1>0, <1>1, <2>1 DEF Read, Ask, stored, Call
<1>2. ASSUME NEW c \in Calls, Start(c)
      PROVE  TypeOK'
  <2>1. call[c] \in Call /\ Stored(OrderOf(c)) \in Snapshot
    BY <1>0, <1>2, CallIsTyped, StoredIsTyped DEF Start
  <2>2. [call[c] EXCEPT !.snap = Stored(OrderOf(c))] \in Call
    BY <2>1 DEF Call
  <2> QED BY <1>0, <1>2, <2>2 DEF Start, stored
<1>3. ASSUME NEW c \in Calls, Retry(c)
      PROVE  TypeOK'
  <2> DEFINE again == [[call[c] EXCEPT !.snap = Stored(OrderOf(c))] EXCEPT !.missed = {}]
  <2>1. call[c] \in Call /\ Stored(OrderOf(c)) \in Snapshot
    BY <1>0, <1>3, CallIsTyped, StoredIsTyped DEF Retry, Running
  <2>2. [call[c] EXCEPT !.snap = Stored(OrderOf(c))] \in Call
    BY <2>1 DEF Call
  <2>3. again \in Call
    BY <2>2 DEF Call
  <2>4. call' = [call EXCEPT ![c] = again]
    BY <1>0, <1>3 DEF Retry
  <2> QED BY <1>0, <1>3, <2>3, <2>4 DEF Retry, stored
<1>4. ASSUME NEW c \in Calls, GiveUp(c) \/ AnswerRepeat(c)
      PROVE  TypeOK'
  BY <1>0, <1>4 DEF GiveUp, AnswerRepeat, stored
<1>5. ASSUME NEW c \in Calls, SavePayment(c)
      PROVE  TypeOK'
  <2>1. call' \in [Calls -> Call \cup {None}]
    BY <1>0, <1>5, CommitIsTyped DEF SavePayment, DOCUMENTS
  <2>2. Snap(c) \in Snapshot /\ Asked(c).paid \in Payments
    BY <1>0, <1>5, CallIsTyped, RequestIsTyped DEF SavePayment, Running, Snap
  <2>3. Paying(Snap(c).order, Asked(c).paid) \in Order
    BY <2>2, PayingIsTyped
  <2> QED BY <1>0, <1>5, <2>1, <2>3 DEF SavePayment
<1>6. ASSUME NEW c \in Calls, SaveReturn(c)
      PROVE  TypeOK'
  <2>1. call' \in [Calls -> Call \cup {None}]
    BY <1>0, <1>6, CommitIsTyped DEF SaveReturn, DOCUMENTS
  <2>2. Asked(c).ret \in Returned
    BY <1>0, <1>6, CallIsTyped, RequestIsTyped DEF SaveReturn, Running
  <2> QED BY <1>0, <1>6, <2>1, <2>2 DEF SaveReturn
<1>7. ASSUME NEW c \in Calls, CloseOut(c)
      PROVE  TypeOK'
  <2> DEFINE s == Snap(c)
             owed == Receivable - s.order.paid - s.returns
  <2>1. call' \in [Calls -> Call \cup {None}]
    BY <1>0, <1>7, CommitIsTyped DEF CloseOut, DOCUMENTS
  <2>2. s \in Snapshot /\ OrderOf(c) \in Orders
    BY <1>0, <1>7, CallIsTyped DEF CloseOut, Running, Snap
  <2>3. s.order \in Order /\ s.returns \in Returned
    BY <2>2 DEF Snapshot
  <2>4. ClosedOrder(s) \in Order
    BY <2>3 DEF ClosedOrder, Order
  <2>5. owed \in Int
    <3>1. s.order.paid \in Nat /\ s.returns \in Nat /\ Receivable \in Nat
      BY <2>3, AmountsAreNat DEF Order
    <3> QED BY <3>1
  <2>6. Reconciled(owed) \in Int
    BY <2>5, Posting
  <2>7. [type |-> "closeout", version |-> 1, key |-> None] \in Allocation
    BY DEF Allocation
  <2>8. balance' \in [Orders -> Int]
    BY <1>0, <1>7, <2>2, <2>6 DEF CloseOut
  <2>9. order' \in [Orders -> Order]
    BY <1>0, <1>7, <2>4 DEF CloseOut
  <2>10. allocations' \in [Orders -> SUBSET Allocation]
    BY <1>0, <1>7, <2>2, <2>7 DEF CloseOut
  <2> QED BY <1>0, <1>7, <2>1, <2>8, <2>9, <2>10 DEF CloseOut
<1>8. ASSUME NEW c \in Calls, OpenAdjustment(c)
      PROVE  TypeOK'
  <2> DEFINE o == OrderOf(c)
             r == MaterialReturn(c)
             W == {"salesOrder"} \cup IF r = None THEN {} ELSE {"returnOrder"}
  <2>1. /\ Running(c)
        /\ Asked(c).op = "adjust"
        /\ Commit(c, W)
    BY <1>8 DEF OpenAdjustment
  <2>2. W \in SUBSET DOCUMENTS
    BY DEF DOCUMENTS
  <2>3. call' \in [Calls -> Call \cup {None}]
    BY <1>0, <2>1, <2>2, CommitIsTyped
  <2>4. o \in Orders /\ Snap(c) \in Snapshot /\ Asked(c).paid \in Payments
    BY <1>0, <2>1, CallIsTyped, AdjustIsTyped DEF Running, Snap
  <2>5. Base(c) \in Snapshot
    BY <2>1, BaseIsRead DEF Sound
  <2>6. Paying(Snap(c).order, Asked(c).paid) \in Order
    BY <2>4, PayingIsTyped
  <2>7. r \in Returned \cup {None} /\ \A n \in Nat : Recorded(c, n) \subseteq Correction
    BY <1>0, <2>1, <2>5, AdjustmentIsTyped
  <2>8. Snap(c).order.version \in Nat
    BY <2>4 DEF Snapshot, Order
  <2>9. order' \in [Orders -> Order]
    BY <1>0, <1>8, <2>6 DEF OpenAdjustment
  <2>10. returns' \in [Orders -> Returned]
    BY <1>0, <1>8, <2>4, <2>7 DEF OpenAdjustment
  <2>11. corrections' \in [Orders -> SUBSET Correction]
    BY <1>0, <1>8, <2>4, <2>7, <2>8 DEF OpenAdjustment
  <2> QED BY <1>0, <1>8, <2>3, <2>9, <2>10, <2>11 DEF OpenAdjustment
<1>9. ASSUME NEW c \in Calls, ClosedCorrection(c)
      PROVE  TypeOK'
  <2> DEFINE o == OrderOf(c)
             n == Latest(Base(c)).n
             previous == Latest(Base(c)).paid
             p == Asked(c).paid
             v == [n |-> n + 1, prev |-> previous, paid |-> p, key |-> KeyOf(c)]
             a == [type |-> "correction", version |-> n + 1, key |-> KeyOf(c)]
  <2>1. /\ Running(c)
        /\ Asked(c).op = "adjust"
        /\ Commit(c, {})
    BY <1>9 DEF ClosedCorrection
  <2>2. call' \in [Calls -> Call \cup {None}]
    BY <1>0, <2>1, CommitIsTyped
  <2>3. o \in Orders /\ p \in Payments
    BY <1>0, <2>1, CallIsTyped, AdjustIsTyped DEF Running
  <2>4. Sound(Base(c)) /\ Base(c) \in Snapshot
    BY <2>1, BaseIsRead DEF Sound
  <2>5. n \in Nat /\ previous \in Paid
    BY <2>4, LatestOf
  <2>6. KeyOf(c) \in Key /\ Recorded(c, n) \subseteq Correction
    BY <1>0, <2>1, <2>4, <2>5, AdjustmentIsTyped
  <2>7. v \in Version /\ a \in Allocation
    BY <2>3, <2>5, <2>6 DEF Version, Allocation
  <2>8. p - previous \in Int
    <3>1. p \in Nat /\ previous \in Nat
      BY <2>3, <2>5, AmountsAreNat
    <3> QED BY <3>1
  <2> HIDE DEF n, previous, p, v, a
  <2>9. versions' \in [Orders -> SUBSET Version]
    BY <1>0, <1>9, <2>3, <2>7 DEF ClosedCorrection, v, n, previous, p
  <2>10. allocations' \in [Orders -> SUBSET Allocation]
    BY <1>0, <1>9, <2>3, <2>7 DEF ClosedCorrection, a, n
  <2>11. corrections' \in [Orders -> SUBSET Correction]
    BY <1>0, <1>9, <2>3, <2>6 DEF ClosedCorrection, n
  <2>12. balance' \in [Orders -> Int]
    BY <1>0, <1>9, <2>3, <2>8 DEF ClosedCorrection, p, previous
  <2> QED BY <1>0, <1>9, <2>2, <2>9, <2>10, <2>11, <2>12 DEF ClosedCorrection
<1>10. ASSUME NEW o \in Orders, NEW a \in Receipts, TakeReceipt(o, a)
       PROVE  TypeOK'
  BY <1>0, <1>10 DEF TakeReceipt
<1>11. CASE UNCHANGED vars
  BY <1>0, <1>11 DEF vars, stored
<1> QED
  BY <1>1, <1>2, <1>3, <1>4, <1>5, <1>6, <1>7, <1>8, <1>9, <1>10, <1>11 DEF Next

-----------------------------------------------------------------------------
(* Every step keeps the documents of an order in order *)

LEMMA UntouchedDocuments ==
  ASSUME NEW q \in Orders, Documents(q),
         order'[q] = order[q], versions'[q] = versions[q],
         allocations'[q] = allocations[q], corrections'[q] = corrections[q],
         ~order[q].confirmed => balance'[q] = balance[q]
  PROVE  Documents(q)'
<1>1. WellFormed(order[q], versions[q], allocations[q])'
  BY DEF Documents, WellFormed
<1>2. Linear(q)'
  BY DEF Documents, Linear, Line
<1>3. KeysOnce(q)'
  BY DEF Documents, KeysOnce
<1> QED BY <1>1, <1>2, <1>3 DEF Documents

\* A write of the open order.
LEMMA OpenDocuments ==
  ASSUME IInv, NEW q \in Orders, ~order[q].confirmed,
         versions'[q] = versions[q],
         \A a \in allocations'[q] :
            a \in allocations[q] \/ a.type = "closeout",
         ~order'[q].confirmed => balance'[q] = balance[q],
         \A d, e \in corrections'[q] : d.key = e.key => d = e
  PROVE  Documents(q)'
<1>1. versions[q] = {} /\ versions'[q] = {}
  BY OpenHasNoVersions
<1>2. Documents(q)
  BY DEF IInv
<1>3. \A a \in allocations'[q] : a.type # "correction"
  BY <1>1, <1>2 DEF Documents, WellFormed
<1>4. WellFormed(order[q], versions[q], allocations[q])'
  BY <1>1, <1>3 DEF WellFormed
<1>5. Linear(q)'
  BY <1>1 DEF Linear
<1>6. KeysOnce(q)'
  BY <1>1 DEF KeysOnce
<1> QED BY <1>2, <1>4, <1>5, <1>6 DEF Documents

\* A version that follows the last one.
LEMMA LongerLine ==
  ASSUME NEW s, Sound(s), NEW w, NEW a,
         s.order.confirmed,
         w.n = Latest(s).n + 1, a.type = "correction", a.version = w.n
  PROVE  /\ WellFormed(s.order, s.versions \cup {w}, s.allocations \cup {a})
         /\ w \notin s.versions
<1> DEFINE n == Latest(s).n
           vs == s.versions \cup {w}
           as == s.allocations \cup {a}
<1>1. n \in Nat /\ w.n = n + 1
  BY LatestOf
<1>2. \A v \in s.versions : v.n \in Nat /\ v.n <= n /\ v.n > 1
  BY LatestOf DEF Sound, WellFormed, Snapshot, Version
<1>3. n >= 1
  <2>1. CASE s.versions = {}
    BY <2>1, LatestOf
  <2>2. CASE s.versions # {}
    <3>1. PICK v \in s.versions : n = v.n
      BY <2>2, LatestOf
    <3> QED BY <1>2, <3>1
  <2> QED BY <2>1, <2>2
<1>4. w \notin s.versions
  BY <1>1, <1>2
<1>5. \E v \in vs : \A u \in vs : u.n <= v.n
  <2>1. \A u \in vs : u.n <= w.n
    BY <1>1, <1>2
  <2> QED BY <2>1
<1>6. \A v \in vs : v.n > 1
  BY <1>1, <1>2, <1>3
<1>7. \A v, u \in vs : v.n = u.n => v = u
  <2>1. \A v, u \in s.versions : v.n = u.n => v = u
    BY DEF Sound, WellFormed
  <2>2. \A v \in s.versions : v.n # w.n
    BY <1>1, <1>2
  <2> QED BY <2>1, <2>2
<1>8. \A v \in vs : \A i \in 2..v.n : \E u \in vs : u.n = i
  <2>1. \A v \in s.versions : \A i \in 2..v.n : \E u \in s.versions : u.n = i
    BY DEF Sound, WellFormed
  <2>2. ASSUME NEW i \in 2..w.n
        PROVE  \E u \in vs : u.n = i
    <3>1. CASE i = w.n
      BY <3>1
    <3>2. CASE i # w.n
      <4>1. i \in Int /\ 2 <= i /\ i <= n
        BY <1>1, <3>2
      <4>2. s.versions # {}
        <5>1. n # 1
          BY <1>1, <4>1
        <5> QED BY <5>1, LatestOf
      <4>3. PICK v \in s.versions : n = v.n
        BY <4>2, LatestOf
      <4>4. i \in 2..v.n
        BY <1>1, <4>1, <4>3
      <4> QED BY <2>1, <4>4
    <3> QED BY <3>1, <3>2
  <2> QED BY <2>1, <2>2
<1>9. \A v \in vs : \E b \in as : b.type = "correction" /\ b.version = v.n
  BY DEF Sound, WellFormed
<1>10. \A b \in as : b.type = "correction" => \E v \in vs : v.n = b.version
  BY DEF Sound, WellFormed
<1> HIDE DEF vs, as
<1>11. WellFormed(s.order, vs, as)
  BY <1>5, <1>6, <1>7, <1>8, <1>9, <1>10 DEF WellFormed
<1> QED BY <1>4, <1>11 DEF vs, as

LEMMA ClosedDocuments ==
  ASSUME IInv, NEW c \in Calls, ClosedCorrection(c),
         NEW o \in Orders, o = OrderOf(c)
  PROVE  /\ Documents(o)'
         /\ Advanced(order[o], versions[o], corrections[o],
                     order'[o], versions'[o], corrections'[o])
<1>1. o = OrderOf(c)
  OBVIOUS
<1> DEFINE s == Stored(o)
           n == Latest(s).n
           w == [n |-> n + 1, prev |-> Latest(s).paid, paid |-> Asked(c).paid,
                 key |-> KeyOf(c)]
           a == [type |-> "correction", version |-> n + 1, key |-> KeyOf(c)]
           d == [key |-> KeyOf(c), fingerprint |-> FingerprintOf(c), base |-> n]
<1>2. TypeOK /\ Documents(o) /\ Sound(s)
  BY StoredIsSound DEF IInv
<1>3. /\ s.order = order[o]
      /\ s.versions = versions[o]
      /\ s.allocations = allocations[o]
  BY DEF Stored
<1>4. /\ order[o].confirmed
      /\ Base(c).corrections = corrections[o]
      /\ Snap(c).corrections \subseteq corrections[o]
      /\ Latest(Base(c)) = Latest(s)
  BY <1>1, ClosedBase
<1>5. \A e \in corrections[o] : e.key # KeyOf(c)
  BY <1>4 DEF ClosedCorrection, Existing
<1>6. Recorded(c, n) = {d}
  BY <1>4, <1>5 DEF Recorded
<1>7. /\ order' = order
      /\ versions'[o] = versions[o] \cup {w}
      /\ allocations'[o] = allocations[o] \cup {a}
      /\ corrections'[o] = corrections[o] \cup {d}
  <2>1. order' = order
    BY DEF ClosedCorrection
  <2>2. versions'[o] = versions[o] \cup {w}
    BY <1>1, <1>2, <1>4 DEF ClosedCorrection, TypeOK
  <2>3. allocations'[o] = allocations[o] \cup {a}
    BY <1>1, <1>2, <1>4 DEF ClosedCorrection, TypeOK
  <2>4. corrections'[o] = corrections[o] \cup Recorded(c, n)
    BY <1>1, <1>2, <1>4 DEF ClosedCorrection, TypeOK
  <2> QED BY <1>6, <2>1, <2>2, <2>3, <2>4
<1>8. /\ w.n = n + 1 /\ w.prev = Latest(s).paid /\ w.key = KeyOf(c)
      /\ a.type = "correction" /\ a.version = w.n
      /\ d.key = KeyOf(c)
      /\ n \in Nat
  BY <1>2, LatestOf
<1> HIDE DEF w, a, d, n, s
<1>9. /\ WellFormed(order[o], versions[o] \cup {w}, allocations[o] \cup {a})
      /\ w \notin versions[o]
  BY <1>2, <1>3, <1>4, <1>8, LongerLine DEF n
<1>10. WellFormed(order[o], versions[o], allocations[o])'
  BY <1>7, <1>9
<1>11. Linear(o)'
  <2>1. \A v \in versions[o] : [n |-> v.n - 1, paid |-> v.prev] \in Line(o)
    BY <1>2 DEF Documents, Linear
  <2>2. Line(o) \subseteq Line(o)'
    BY <1>7 DEF Line
  <2>3. w.n - 1 = n
    BY <1>8
  <2>4. [n |-> n, paid |-> Latest(s).paid] \in Line(o)
    <3>1. CASE versions[o] = {}
      BY <1>2, <1>3, <3>1, LatestOf DEF Line, n
    <3>2. CASE versions[o] # {}
      <4>1. PICK v \in versions[o] : Latest(s) = [n |-> v.n, paid |-> v.paid]
        BY <1>2, <1>3, <3>2, LatestOf
      <4> QED BY <4>1 DEF Line, n
    <3> QED BY <3>1, <3>2
  <2>5. [n |-> w.n - 1, paid |-> w.prev] \in Line(o)
    BY <1>8, <2>3, <2>4
  <2> QED BY <1>7, <2>1, <2>2, <2>5 DEF Linear
<1>12. KeysOnce(o)'
  <2>1. KeysOnce(o)
    BY <1>2 DEF Documents
  <2>2. \A e \in corrections[o] : e.key # d.key
    BY <1>5, <1>8
  <2>3. \A v \in versions[o] : v.key # w.key
    BY <1>5, <1>8, <2>1 DEF KeysOnce
  <2> QED BY <1>7, <1>8, <2>1, <2>2, <2>3 DEF KeysOnce
<1>13. Documents(o)'
  BY <1>4, <1>7, <1>10, <1>11, <1>12 DEF Documents
<1>14. Advanced(order[o], versions[o], corrections[o],
                order'[o], versions'[o], corrections'[o])
  BY <1>7, <1>9 DEF Advanced
<1> QED BY <1>13, <1>14

-----------------------------------------------------------------------------
(* The invariant *)

\* A write of the open order by a call that has it as it is.
LEMMA OpenStep ==
  ASSUME IInv, TypeOK', NEW c \in Calls, NEW W \in SUBSET DOCUMENTS, Running(c),
         "salesOrder" \in W, Commit(c, W),
         NEW o \in Orders, o = OrderOf(c), ~order[o].confirmed,
         NEW new \in Order, order' = [order EXCEPT ![o] = new],
         new.version = Snap(c).order.version + 1,
         versions' = versions,
         \A p \in Orders \ {o} : /\ allocations'[p] = allocations[p]
                                 /\ corrections'[p] = corrections[p]
                                 /\ balance'[p] = balance[p],
         \A a \in allocations'[o] : a \in allocations[o] \/ a.type = "closeout",
         ~new.confirmed => balance'[o] = balance[o],
         corrections[o] \subseteq corrections'[o],
         \A d, e \in corrections'[o] : d.key = e.key => d = e
  PROVE  IInv'
<1>1. TypeOK
  BY DEF IInv
<1>2. order'[o] = new /\ \A p \in Orders : p # o => order'[p] = order[p]
  BY <1>1 DEF TypeOK
<1>3. Snap(c).order = order[o]
  BY WriterHasTheOrder
<1>4. Documents(o)'
  BY <1>2, OpenDocuments
<1>5. ASSUME NEW p \in Orders, p # o
      PROVE  Documents(p)'
  <2>1. Documents(p)
    BY DEF IInv
  <2> QED BY <1>2, <1>5, <2>1, UntouchedDocuments
<1>6. Advanced(order[o], versions[o], corrections[o],
               order'[o], versions'[o], corrections'[o])
  BY <1>2, <1>3 DEF Advanced
<1>7. \A x \in Calls : Reads(x)'
  BY <1>2, <1>6, CommitKeepsReads
<1> QED BY <1>4, <1>5, <1>7 DEF IInv

LEMMA InvStep == IInv /\ [Next]_vars => IInv'
<1> SUFFICES ASSUME IInv, [Next]_vars
             PROVE  IInv'
  OBVIOUS
<1>0. TypeOK /\ TypeOK'
  BY TypesStep DEF IInv
<1>1. ASSUME UNCHANGED stored
      PROVE  \A o \in Orders : /\ Documents(o)'
                               /\ \A s : Good(s, o) => Good(s, o)'
  BY <1>1 DEF IInv, stored, Documents, WellFormed, Linear, Line, KeysOnce, Good
<1>2. ASSUME UNCHANGED stored, NEW c \in Calls,
             \A x \in Calls : x # c => call'[x] = call[x],
             Reads(c)'
      PROVE  IInv'
  <2>1. ASSUME NEW x \in Calls, x # c
        PROVE  Reads(x)'
    <3>1. Reads(x) /\ call'[x] = call[x]
      BY <1>2, <2>1 DEF IInv
    <3> SUFFICES ASSUME call[x] # None
                 PROVE  Reads(x)'
      BY <3>1 DEF Reads
    <3>2. call[x].order \in Orders
      BY <1>0, CallIsTyped DEF OrderOf
    <3> QED BY <1>1, <1>2, <3>1, <3>2 DEF Reads, stored, Good
  <2> QED BY <1>0, <1>1, <1>2, <2>1 DEF IInv
<1>3. ASSUME NEW c \in Calls, NEW o \in Orders, NEW r \in Requests,
             Read(c, o, r) \/ Ask(c, o, r)
      PROVE  IInv'
  <2>1. UNCHANGED stored /\ \A x \in Calls : x # c => call'[x] = call[x]
    BY <1>0, <1>3 DEF Read, Ask, TypeOK
  <2>2. Good(Stored(o), o) /\ Stored(o).order = order[o]
    BY StoredIsSound DEF Stored
  <2>3. Reads(c)'
    <3>0. Stored(o) # None
      BY <1>0, StoredIsTyped, NoneAssumption
    <3>1. CASE Read(c, o, r)
      BY <1>0, <2>1, <2>2, <3>0, <3>1 DEF Read, Reads, TypeOK, stored, Good
    <3>2. CASE Ask(c, o, r)
      BY <1>0, <2>1, <2>2, <3>2 DEF Ask, Reads, TypeOK, stored, Good
    <3> QED BY <1>3, <3>1, <3>2
  <2> QED BY <1>2, <2>1, <2>3
<1>4. ASSUME NEW c \in Calls, Start(c) \/ Retry(c)
      PROVE  IInv'
  <2> DEFINE o == OrderOf(c)
  <2>1. UNCHANGED stored /\ \A x \in Calls : x # c => call'[x] = call[x]
    BY <1>0, <1>4 DEF Start, Retry, TypeOK
  <2>2. call[c] # None /\ call[c] \in Call /\ o \in Orders
    BY <1>0, <1>4, CallIsTyped DEF Start, Retry, Running
  <2>3. Good(Stored(o), o) /\ Stored(o).order = order[o]
    BY <2>2, StoredIsSound DEF Stored
  <2>4. /\ call'[c].request = call[c].request
        /\ call'[c].order = o
        /\ call'[c].seen = call[c].seen
        /\ call'[c].snap = Stored(o)
    BY <1>0, <1>4, <2>2 DEF Start, Retry, TypeOK, Call, OrderOf
  <2>5. Reads(c)
    BY DEF IInv
  <2>6. Reads(c)'
    BY <2>1, <2>2, <2>3, <2>4, <2>5 DEF Reads, stored, Good, OrderOf
  <2> QED BY <1>2, <2>1, <2>6
<1>5. ASSUME NEW c \in Calls, GiveUp(c) \/ AnswerRepeat(c)
      PROVE  IInv'
  <2>1. UNCHANGED stored /\ \A x \in Calls : x # c => call'[x] = call[x]
    BY <1>0, <1>5 DEF GiveUp, AnswerRepeat, TypeOK
  <2>2. Reads(c)'
    BY <1>0, <1>5 DEF GiveUp, AnswerRepeat, Reads, TypeOK
  <2> QED BY <1>2, <2>1, <2>2
<1>6. ASSUME NEW c \in Calls, SavePayment(c)
      PROVE  IInv'
  <2>1. /\ Running(c)
        /\ ~Snap(c).order.confirmed
        /\ Commit(c, {"salesOrder"})
    BY <1>6 DEF SavePayment
  <2>2. Snap(c) \in Snapshot /\ OrderOf(c) \in Orders /\ Asked(c).paid \in Payments
    BY <1>0, <1>6, CallIsTyped, RequestIsTyped DEF SavePayment, Running, Snap
  <2> DEFINE new == Paying(Snap(c).order, Asked(c).paid)
  <2>3. new \in Order /\ new.version = Snap(c).order.version + 1
    BY <2>2, PayingIsTyped
  <2>4. ~order[OrderOf(c)].confirmed
    BY <2>1, WriterHasTheOrder
  <2>5. \A d, e \in corrections[OrderOf(c)] : d.key = e.key => d = e
    BY <2>2 DEF IInv, Documents, KeysOnce
  <2>6. /\ order' = [order EXCEPT ![OrderOf(c)] = new]
        /\ UNCHANGED <<versions, allocations, corrections, balance>>
    BY <1>6 DEF SavePayment
  <2> HIDE DEF new
  <2> QED BY <1>0, <2>1, <2>2, <2>3, <2>4, <2>5, <2>6, OpenStep DEF DOCUMENTS
<1>7. ASSUME NEW c \in Calls, SaveReturn(c)
      PROVE  IInv'
  <2>1. Running(c) /\ Commit(c, {"returnOrder"})
    BY <1>7 DEF SaveReturn
  <2>2. UNCHANGED <<order, versions, allocations, corrections, balance>>
    BY <1>7 DEF SaveReturn
  <2>3. \A o \in Orders : Documents(o)'
    BY <2>2, UntouchedDocuments DEF IInv
  <2>4. \A x \in Calls : Reads(x)'
    BY <1>0, <2>1, <2>2, CommitKeepsReads DEF DOCUMENTS, Advanced
  <2> QED BY <1>0, <2>3, <2>4 DEF IInv
<1>8. ASSUME NEW c \in Calls, CloseOut(c)
      PROVE  IInv'
  <2>1. /\ Running(c)
        /\ ~Snap(c).order.confirmed
        /\ Commit(c, {"salesOrder"})
    BY <1>8 DEF CloseOut
  <2>2. Snap(c) \in Snapshot /\ OrderOf(c) \in Orders
    BY <1>0, <2>1, CallIsTyped DEF Running, Snap
  <2> DEFINE new == ClosedOrder(Snap(c))
             a == [type |-> "closeout", version |-> 1, key |-> None]
  <2>3. /\ new \in Order
        /\ new.version = Snap(c).order.version + 1
        /\ new.confirmed
    BY <2>2 DEF Snapshot, Order, ClosedOrder
  <2>4. ~order[OrderOf(c)].confirmed
    BY <2>1, WriterHasTheOrder
  <2>5. \A d, e \in corrections[OrderOf(c)] : d.key = e.key => d = e
    BY <2>2 DEF IInv, Documents, KeysOnce
  <2>6. /\ order' = [order EXCEPT ![OrderOf(c)] = new]
        /\ UNCHANGED <<versions, corrections>>
    BY <1>8 DEF CloseOut
  <2>7. /\ allocations'[OrderOf(c)] = allocations[OrderOf(c)] \cup {a}
        /\ a.type = "closeout"
        /\ \A p \in Orders \ {OrderOf(c)} : /\ allocations'[p] = allocations[p]
                                            /\ balance'[p] = balance[p]
    BY <1>0, <1>8, <2>2 DEF CloseOut, TypeOK
  <2> HIDE DEF new, a
  <2> QED BY <1>0, <2>1, <2>2, <2>3, <2>4, <2>5, <2>6, <2>7, OpenStep DEF DOCUMENTS
<1>9. ASSUME NEW c \in Calls, OpenAdjustment(c)
      PROVE  IInv'
  <2> DEFINE s == Snap(c)
             r == MaterialReturn(c)
             W == {"salesOrder"} \cup IF r = None THEN {} ELSE {"returnOrder"}
             new == Paying(s.order, Asked(c).paid)
             d == [key |-> KeyOf(c), fingerprint |-> FingerprintOf(c),
                   base |-> s.order.version]
  <2>1. /\ Running(c)
        /\ Asked(c).op = "adjust"
        /\ Existing(c) = {}
        /\ Commit(c, W)
    BY <1>9 DEF OpenAdjustment
  <2>2. s \in Snapshot /\ OrderOf(c) \in Orders /\ Asked(c).paid \in Payments
    BY <1>0, <2>1, CallIsTyped, AdjustIsTyped DEF Running, Snap
  <2>3. new \in Order /\ new.version = s.order.version + 1
    BY <2>2, PayingIsTyped
  <2>4. /\ ~order[OrderOf(c)].confirmed
        /\ Base(c).corrections = corrections[OrderOf(c)]
        /\ s.corrections = corrections[OrderOf(c)]
    BY <1>9, OpenBase
  <2>5. Recorded(c, s.order.version) = {d} /\ d.key = KeyOf(c)
    BY <2>1, <2>4 DEF Recorded, Existing
  <2>6. \A e \in corrections[OrderOf(c)] : e.key # KeyOf(c)
    BY <2>1, <2>4 DEF Existing
  <2>7. /\ order' = [order EXCEPT ![OrderOf(c)] = new]
        /\ UNCHANGED <<versions, allocations, balance>>
        /\ corrections'[OrderOf(c)] = corrections[OrderOf(c)] \cup {d}
        /\ \A p \in Orders \ {OrderOf(c)} : corrections'[p] = corrections[p]
    BY <1>0, <1>9, <2>2, <2>5 DEF OpenAdjustment, TypeOK
  <2>8. \A e, f \in corrections[OrderOf(c)] : e.key = f.key => e = f
    BY <2>2 DEF IInv, Documents, KeysOnce
  <2> HIDE DEF new, d
  <2>9. \A e, f \in corrections'[OrderOf(c)] : e.key = f.key => e = f
    BY <2>5, <2>6, <2>7, <2>8
  <2>10. "salesOrder" \in W /\ W \in SUBSET DOCUMENTS
    BY DEF DOCUMENTS
  <2> HIDE DEF s, W
  <2> QED BY <1>0, <2>1, <2>2, <2>3, <2>4, <2>7, <2>9, <2>10, OpenStep DEF s
<1>10. ASSUME NEW c \in Calls, ClosedCorrection(c)
       PROVE  IInv'
  <2>1. Running(c) /\ Commit(c, {})
    BY <1>10 DEF ClosedCorrection
  <2>2. OrderOf(c) \in Orders
    BY <1>0, <2>1, CallIsTyped DEF Running
  <2>3. PICK o \in Orders : o = OrderOf(c)
    BY <2>2
  <2>4. /\ Documents(o)'
        /\ Advanced(order[o], versions[o], corrections[o],
                    order'[o], versions'[o], corrections'[o])
    BY <1>10, <2>3, ClosedDocuments
  <2>5. /\ order' = order
        /\ \A p \in Orders : p # o =>
              /\ versions'[p] = versions[p]
              /\ allocations'[p] = allocations[p]
              /\ corrections'[p] = corrections[p]
              /\ balance'[p] = balance[p]
    BY <1>0, <1>10, <2>3 DEF ClosedCorrection, TypeOK
  <2>6. \A p \in Orders : p # o => Documents(p)'
    BY <2>5, UntouchedDocuments DEF IInv
  <2>7. \A x \in Calls : Reads(x)'
    BY <1>0, <2>1, <2>3, <2>4, <2>5, CommitKeepsReads
  <2> QED BY <1>0, <2>4, <2>6, <2>7 DEF IInv
<1>11. ASSUME NEW o \in Orders, NEW a \in Receipts, TakeReceipt(o, a)
       PROVE  IInv'
  <2>1. /\ order[o].confirmed
        /\ UNCHANGED <<order, versions, allocations, corrections, call>>
        /\ \A p \in Orders : p # o => balance'[p] = balance[p]
    BY <1>0, <1>11 DEF TakeReceipt, TypeOK
  <2>2. \A p \in Orders : Documents(p)'
    BY <2>1, UntouchedDocuments DEF IInv
  <2>3. \A x \in Calls : Reads(x)'
    BY <2>1 DEF IInv, Reads, Good
  <2> QED BY <1>0, <2>2, <2>3 DEF IInv
<1>12. CASE UNCHANGED vars
  <2>1. \A x \in Calls : Reads(x)'
    BY <1>12 DEF vars, stored, IInv, Reads, Good
  <2> QED BY <1>0, <1>1, <1>12, <2>1 DEF IInv, vars
<1> QED
  BY <1>3, <1>4, <1>5, <1>6, <1>7, <1>8, <1>9, <1>10, <1>11, <1>12 DEF Next

-----------------------------------------------------------------------------
(* Theorems *)

LEMMA InitInv == Init => IInv
<1> SUFFICES ASSUME Init
             PROVE  IInv
  OBVIOUS
<1> USE DEF Init
<1>1. [version |-> 0, confirmed |-> FALSE, paid |-> 0, returned |-> 0] \in Order
  BY DEF Order, Paid
<1>2. TypeOK
  BY <1>1 DEF TypeOK
<1>3. \A o \in Orders : Documents(o)
  BY DEF Documents, WellFormed, Linear, KeysOnce
<1>4. \A c \in Calls : Reads(c)
  BY DEF Reads
<1> QED BY <1>2, <1>3, <1>4 DEF IInv

\* At every moment the documents of each order are well formed, and what each
\* request read is behind them and never beside them.
THEOREM Invariance == Spec => []IInv
BY InitInv, InvStep, PTL DEF Spec

\* The documents of an order and the requests under way always have the
\* types of TypeOK, whatever the orders, amounts and requests are.
THEOREM TypeCorrect == Spec => []TypeOK
<1>1. IInv => TypeOK
  BY DEF IInv
<1> QED BY <1>1, Invariance, PTL

\* createCorrection: the versions of an order are numbered without a gap and
\* each follows the one before it, for any number of requests at once.
THEOREM VersionsFollowOneAnother == Spec => []VersionsAreLinear
<1>1. IInv => VersionsAreLinear
  BY DEF IInv, Documents, WellFormed, Linear, VersionsAreLinear
<1> QED BY <1>1, Invariance, PTL

\* createCorrection: a key makes one correction of an order and one version,
\* however many requests carry it.
THEOREM KeyMakesOneCorrection == Spec => []OneCorrectionPerKey
<1>1. IInv => OneCorrectionPerKey
  BY DEF IInv, Documents, KeysOnce, OneCorrectionPerKey
<1> QED BY <1>1, Invariance, PTL

LEMMA MadeOnWhatWasSeen ==
  ASSUME IInv, NEW c \in Calls,
         OpenAdjustment(c) \/ ClosedCorrection(c),
         Asked(c).mode # "plain",
         call[c].seen.order.confirmed = order[OrderOf(c)].confirmed
  PROVE  /\ order[OrderOf(c)].paid = call[c].seen.order.paid
         /\ Latest(Stored(OrderOf(c))) = Latest(call[c].seen)
<1> DEFINE o == OrderOf(c)
           s == call[c].seen
<1>1. Running(c) /\ Asked(c).op = "adjust" /\ call[c] # None
  BY DEF OpenAdjustment, ClosedCorrection, Running
<1>2. o \in Orders /\ Asked(c).mode \in MODES
  BY <1>1, CallIsTyped, AdjustIsTyped DEF IInv
<1>3. s # None /\ Good(s, o) /\ Sound(s)
  BY <1>1, ReadIsSound DEF IInv, Reads, Asked, OrderOf
<1>4. Sound(Stored(o)) /\ Stored(o).order = order[o] /\ Stored(o).versions = versions[o]
  BY <1>2, StoredIsSound DEF Stored
<1>5. CASE OpenAdjustment(c)
  <2>1. /\ Snap(c).order = order[o]
        /\ Base(c).order = order[o]
        /\ ~order[o].confirmed
    BY <1>5, OpenBase
  <2>2. ASSUME Asked(c).mode = "batch"
        PROVE  s.order = order[o]
    BY <2>1, <2>2 DEF Base
  <2>3. ASSUME Asked(c).mode = "expected"
        PROVE  s.order = order[o]
    <3>1. order[o].version = s.order.version
      BY <1>5, <2>1, <2>3 DEF OpenAdjustment, ExpectedVersionHolds, CanonicalVersion
    <3> QED BY <1>3, <3>1 DEF Good, Behind
  <2>4. s.order = order[o]
    BY <1>2, <2>2, <2>3 DEF MODES
  <2>5. versions[o] = {} /\ s.versions = {}
    BY <1>2, <1>3, <2>1, OpenHasNoVersions DEF Good, Behind
  <2> QED BY <1>4, <2>4, <2>5 DEF Latest
<1>6. CASE ClosedCorrection(c)
  <2>1. /\ order[o].confirmed
        /\ Latest(Base(c)) = Latest(Stored(o))
    BY <1>6, ClosedBase
  <2>2. s.order = order[o]
    BY <1>3, <2>1 DEF Good, Behind
  <2>3. ASSUME Asked(c).mode = "batch"
        PROVE  Latest(Stored(o)) = Latest(s)
    BY <2>1, <2>3 DEF Base
  <2>4. ASSUME Asked(c).mode = "expected"
        PROVE  Latest(Stored(o)) = Latest(s)
    <3>1. Latest(Stored(o)).n = Latest(s).n
      BY <1>6, <2>1, <2>4
         DEF ClosedCorrection, ExpectedVersionHolds, CanonicalVersion
    <3>2. Latest(Stored(o)).n \in Nat
      BY <1>4, LatestOf
    <3>3. s.versions = versions[o]
      BY <1>3, <1>4, <3>1, <3>2, SameLatest DEF Good, Behind
    <3> QED BY <1>4, <2>2, <3>3 DEF Latest
  <2> QED BY <1>2, <2>2, <2>3, <2>4 DEF MODES
<1> QED BY <1>5, <1>6

\* An adjustment with an expected version, or of a bulk request, goes through
\* only if what it was decided on is still the last payment of its order.
THEOREM NothingUnseenIsLost == Spec => NothingUnseenIsOverwritten
<1> DEFINE A == \A c \in Calls :
          /\ OpenAdjustment(c) \/ ClosedCorrection(c)
          /\ Asked(c).mode # "plain"
          /\ call[c].seen.order.confirmed = order[OrderOf(c)].confirmed
          => /\ order[OrderOf(c)].paid = call[c].seen.order.paid
             /\ Latest(Stored(OrderOf(c))) = Latest(call[c].seen)
<1>1. IInv => A
  BY MadeOnWhatWasSeen
<1>2. IInv /\ [Next]_vars => [A]_vars
  BY <1>1
<1> QED BY <1>2, Invariance, PTL DEF Spec, NothingUnseenIsOverwritten

-----------------------------------------------------------------------------
(* The account *)

LastPaid(o)   == Latest(Stored(o)).paid
LastNumber(o) == IF order[o].confirmed THEN Latest(Stored(o)).n ELSE 0

SameAccount(o) ==
    /\ order'[o].confirmed = order[o].confirmed
    /\ LastPaid(o)' = LastPaid(o)
    /\ LastNumber(o)' = LastNumber(o)
    /\ balance'[o] = balance[o]

LEMMA Untouched ==
  ASSUME NEW o \in Orders, order'[o] = order[o], versions'[o] = versions[o],
         balance'[o] = balance[o]
  PROVE  SameAccount(o)
BY DEF SameAccount, LastPaid, LastNumber, Latest, Stored

LEMMA LastIsTop ==
  ASSUME NEW s, Sound(s), NEW w \in s.versions, \A v \in s.versions : v.n <= w.n
  PROVE  Latest(s) = [n |-> w.n, paid |-> w.paid]
<1>1. PICK v \in s.versions : Latest(s) = [n |-> v.n, paid |-> v.paid]
  BY LatestOf
<1>2. w.n <= v.n /\ v.n <= w.n /\ v.n \in Nat /\ w.n \in Nat
  BY <1>1, LatestOf DEF Sound, Snapshot, Version
<1>3. v = w
  BY <1>2 DEF Sound, WellFormed
<1> QED BY <1>1, <1>3

\* A step that changes the account of one order does what the abstract
\* action does.
LEMMA PaymentIsSet ==
  ASSUME TypeOK, NEW o \in Orders, NEW p \in Paid,
         \A q \in Orders : q # o => SameAccount(q),
         ~order[o].confirmed, order'[o].confirmed = order[o].confirmed,
         LastPaid(o)' = p, balance' = balance
  PROVE  Account!SetPayment(o, p)
<1>1. \A q \in Orders : /\ order'[q].confirmed = order[q].confirmed
                        /\ LastNumber(q)' = LastNumber(q)
  BY DEF SameAccount, LastNumber
<1>2. \A q \in Orders : LastPaid(q)' = IF q = o THEN p ELSE LastPaid(q)
  BY DEF SameAccount
<1> QED BY <1>1, <1>2 DEF Account!SetPayment, LastPaid, LastNumber

LEMMA AccountIsOpened ==
  ASSUME TypeOK, NEW o \in Orders, NEW r \in Returned,
         \A q \in Orders : q # o => SameAccount(q),
         ~order[o].confirmed, order'[o].confirmed = TRUE,
         LastPaid(o)' = LastPaid(o), LastNumber(o)' = 1,
         balance' = [balance EXCEPT ![o] = Account!Opening(Receivable - LastPaid(o) - r)]
  PROVE  Account!CloseOut(o, r)
<1>1. \A q \in Orders : LastPaid(q)' = LastPaid(q)
  BY DEF SameAccount
<1>2. \A q \in Orders :
         /\ order'[q].confirmed = IF q = o THEN TRUE ELSE order[q].confirmed
         /\ LastNumber(q)' = IF q = o THEN 1 ELSE LastNumber(q)
  BY DEF SameAccount
<1> QED BY <1>1, <1>2 DEF Account!CloseOut, LastPaid, LastNumber

LEMMA AccountIsCorrected ==
  ASSUME TypeOK, NEW o \in Orders, NEW p \in Paid,
         \A q \in Orders : q # o => SameAccount(q),
         order[o].confirmed, order' = order,
         LastPaid(o)' = p, LastNumber(o)' = LastNumber(o) + 1,
         balance' = [balance EXCEPT ![o] = balance[o] - (p - LastPaid(o))]
  PROVE  Account!Correct(o, p)
<1>1. \A q \in Orders :
         /\ LastPaid(q)' = IF q = o THEN p ELSE LastPaid(q)
         /\ LastNumber(q)' = IF q = o THEN LastNumber(o) + 1 ELSE LastNumber(q)
  BY DEF SameAccount
<1> QED BY <1>1 DEF Account!Correct, LastPaid, LastNumber

LEMMA ReceiptIsTaken ==
  ASSUME TypeOK, NEW o \in Orders, NEW a \in Receipts, TakeReceipt(o, a)
  PROVE  Account!TakeReceipt(o, a)
<1>1. \A q \in Orders : LastPaid(q)' = LastPaid(q) /\ LastNumber(q)' = LastNumber(q)
  BY DEF TakeReceipt, LastPaid, LastNumber, Latest, Stored
<1> QED BY <1>1 DEF TakeReceipt, Account!TakeReceipt, LastPaid, LastNumber

LEMMA NothingForTheAccount ==
  ASSUME UNCHANGED <<order, versions, balance>>
  PROVE  UNCHANGED Account!accounts
<1>1. \A q \in Orders : LastPaid(q)' = LastPaid(q) /\ LastNumber(q)' = LastNumber(q)
  BY DEF LastPaid, LastNumber, Latest, Stored
<1> QED BY <1>1 DEF Account!accounts, LastPaid, LastNumber

LEMMA StepIsAccounted ==
  ASSUME IInv, [Next]_vars
  PROVE  Account!Next \/ UNCHANGED Account!accounts
<1>0. TypeOK /\ TypeOK' /\ IInv'
  BY TypesStep, InvStep DEF IInv
<1>1. ASSUME NEW c \in Calls, SavePayment(c) \/ OpenAdjustment(c)
      PROVE  Account!Next
  <2> DEFINE p == Asked(c).paid
             new == Paying(Snap(c).order, p)
             W == {"salesOrder"} \cup
                  IF MaterialReturn(c) = None THEN {} ELSE {"returnOrder"}
  <2>1. /\ Running(c)
        /\ Commit(c, {"salesOrder"}) \/ Commit(c, W)
        /\ order' = [order EXCEPT ![OrderOf(c)] = new]
        /\ UNCHANGED <<versions, balance>>
        /\ Asked(c).op = "payment" \/ Asked(c).op = "adjust"
    BY <1>1 DEF SavePayment, OpenAdjustment
  <2>2. PICK o \in Orders : o = OrderOf(c)
    BY <1>0, <2>1, CallIsTyped DEF Running
  <2>3. p \in Payments /\ Snap(c) \in Snapshot
    BY <1>0, <2>1, CallIsTyped, RequestIsTyped, AdjustIsTyped DEF Running, Snap
  <2>4. Snap(c).order = order[o] /\ ~order[o].confirmed
    <3>1. CASE SavePayment(c)
      BY <2>2, <3>1, WriterHasTheOrder DEF SavePayment
    <3>2. CASE OpenAdjustment(c)
      BY <2>2, <3>2, OpenBase
    <3> QED BY <1>1, <3>1, <3>2
  <2>5. new.confirmed = order[o].confirmed /\ new.paid = p
    BY <2>3, <2>4, PayingIsTyped
  <2> HIDE DEF p, new
  <2>6. order'[o] = new /\ \A q \in Orders : q # o => order'[q] = order[q]
    BY <1>0, <2>1, <2>2 DEF TypeOK
  <2>7. \A q \in Orders : q # o => SameAccount(q)
    BY <2>1, <2>6, Untouched
  <2>8. versions'[o] = {}
    BY <2>1, <2>4, OpenHasNoVersions
  <2>9. LastPaid(o)' = p
    BY <2>5, <2>6, <2>8 DEF LastPaid, Latest, Stored
  <2>10. p \in Paid
    BY <2>3, AmountsAreNat
  <2>11. Account!SetPayment(o, p)
    BY <1>0, <2>1, <2>4, <2>5, <2>6, <2>7, <2>9, <2>10, PaymentIsSet
  <2> QED BY <2>10, <2>11 DEF Account!Next
<1>2. ASSUME NEW c \in Calls, CloseOut(c)
      PROVE  Account!Next
  <2> DEFINE s == Snap(c)
             r == s.returns
             owed == Receivable - s.order.paid - r
  <2>1. Running(c) /\ ~s.order.confirmed /\ Commit(c, {"salesOrder"})
    BY <1>2 DEF CloseOut
  <2>2. PICK o \in Orders : o = OrderOf(c)
    BY <1>0, <2>1, CallIsTyped DEF Running
  <2>3. s \in Snapshot /\ r \in Returned /\ s.order.paid \in Paid
    BY <1>0, <2>1, CallIsTyped DEF Running, Snap, Snapshot, Order
  <2>4. s.order = order[o] /\ ~order[o].confirmed
    BY <2>1, <2>2, WriterHasTheOrder
  <2>5. versions[o] = {} /\ balance[o] = 0
    BY <2>4, OpenHasNoVersions DEF IInv, Documents
  <2>6. owed \in Int
    <3>1. s.order.paid \in Nat /\ r \in Nat /\ Receivable \in Nat
      BY <2>3, AmountsAreNat
    <3> QED BY <3>1
  <2>7. Reconciled(owed) = Account!Opening(owed) /\ Reconciled(owed) \in Int
    BY <2>6, Posting
  <2>8. LastPaid(o) = s.order.paid
    BY <2>4, <2>5 DEF LastPaid, Latest, Stored
  <2>9. /\ order' = [order EXCEPT ![o] = ClosedOrder(s)]
        /\ versions' = versions
        /\ balance' = [balance EXCEPT ![o] = balance[o] + Reconciled(owed)]
    BY <1>2, <2>2 DEF CloseOut
  <2>10. balance' = [balance EXCEPT ![o] = Account!Opening(Receivable - LastPaid(o) - r)]
    <3>1. owed = Receivable - LastPaid(o) - r
      BY <2>8
    <3>2. balance[o] + Reconciled(owed) = Account!Opening(owed)
      <4> HIDE DEF owed
      <4> QED BY <2>5, <2>7
    <3> HIDE DEF owed, r
    <3> QED BY <2>9, <3>1, <3>2
  <2>11. /\ order'[o] = ClosedOrder(s)
         /\ \A q \in Orders : q # o => order'[q] = order[q] /\ balance'[q] = balance[q]
    BY <1>0, <2>9 DEF TypeOK
  <2>12. \A q \in Orders : q # o => SameAccount(q)
    BY <2>9, <2>11, Untouched
  <2>13. order'[o].confirmed = TRUE /\ order'[o].paid = s.order.paid
    BY <2>11 DEF ClosedOrder
  <2>14. LastPaid(o)' = LastPaid(o) /\ LastNumber(o)' = 1
    BY <2>5, <2>8, <2>9, <2>13 DEF LastPaid, LastNumber, Latest, Stored
  <2> HIDE DEF owed, r
  <2>15. PICK q \in Returned : q = r
    BY <2>3
  <2>16. balance' = [balance EXCEPT ![o] = Account!Opening(Receivable - LastPaid(o) - q)]
    BY <2>10, <2>15
  <2>17. Account!CloseOut(o, q)
    BY <1>0, <2>4, <2>12, <2>13, <2>14, <2>16, AccountIsOpened
  <2> QED BY <2>17 DEF Account!Next
<1>3. ASSUME NEW c \in Calls, ClosedCorrection(c)
      PROVE  Account!Next
  <2> DEFINE n == Latest(Base(c)).n
             previous == Latest(Base(c)).paid
             p == Asked(c).paid
             w == [n |-> n + 1, prev |-> previous, paid |-> p, key |-> KeyOf(c)]
  <2>1. Running(c) /\ Asked(c).op = "adjust"
    BY <1>3 DEF ClosedCorrection
  <2>2. PICK o \in Orders : o = OrderOf(c)
    BY <1>0, <2>1, CallIsTyped DEF Running
  <2>3. p \in Payments /\ p \in Paid
    BY <1>0, <2>1, CallIsTyped, AdjustIsTyped, AmountsAreNat DEF Running
  <2>4. /\ order[o].confirmed
        /\ Latest(Base(c)) = Latest(Stored(o))
    BY <1>3, <2>2, ClosedBase
  <2>5. /\ order' = order
        /\ versions' = [versions EXCEPT ![o] = versions[o] \cup {w}]
        /\ balance' = [balance EXCEPT ![o] = balance[o] - (p - previous)]
    BY <1>3, <2>2 DEF ClosedCorrection
  <2>6. previous = LastPaid(o) /\ n = LastNumber(o) /\ n \in Nat
    <3>1. Latest(Stored(o)).n \in Nat
      BY StoredIsSound, LatestOf
    <3> QED BY <2>4, <3>1 DEF LastPaid, LastNumber
  <2>7. w.n = n + 1 /\ w.paid = p
    OBVIOUS
  <2> HIDE DEF w, p, n, previous
  <2>8. /\ versions'[o] = versions[o] \cup {w}
        /\ \A q \in Orders : q # o => /\ versions'[q] = versions[q]
                                      /\ balance'[q] = balance[q]
    BY <1>0, <2>5 DEF TypeOK
  <2>9. \A q \in Orders : q # o => SameAccount(q)
    BY <2>5, <2>8, Untouched
  <2>10. Latest(Stored(o))' = [n |-> w.n, paid |-> w.paid]
    <3> DEFINE t == [order |-> order'[o], returns |-> returns'[o],
                     corrections |-> corrections'[o], versions |-> versions'[o],
                     allocations |-> allocations'[o]]
    <3>1. Documents(o)'
      BY <1>0 DEF IInv
    <3>2. t \in Snapshot
      BY <1>0 DEF TypeOK, Snapshot
    <3>3. Sound(t)
      BY <3>1, <3>2 DEF Sound, Documents
    <3>4. \A v \in versions[o] : v.n \in Nat /\ v.n <= n
      <4>1. Sound(Stored(o)) /\ Stored(o).versions = versions[o]
        BY StoredIsSound DEF Stored
      <4>2. \A v \in versions[o] : v.n <= Latest(Stored(o)).n
        BY <4>1, LatestOf
      <4>3. Latest(Stored(o)).n = n
        BY <2>4 DEF n
      <4> QED BY <4>1, <4>2, <4>3 DEF Sound, Snapshot, Version
    <3>5. w \in t.versions /\ \A v \in t.versions : v.n <= w.n
      BY <2>6, <2>7, <2>8, <3>4
    <3>6. Latest(t) = [n |-> w.n, paid |-> w.paid]
      BY <3>3, <3>5, LastIsTop
    <3> QED BY <3>6 DEF Stored, Latest
  <2>11. LastPaid(o)' = p /\ LastNumber(o)' = LastNumber(o) + 1
    BY <2>4, <2>5, <2>6, <2>7, <2>10 DEF LastPaid, LastNumber
  <2>12. PICK q \in Paid : q = p
    BY <2>3
  <2>13. balance' = [balance EXCEPT ![o] = balance[o] - (q - LastPaid(o))]
    BY <2>5, <2>6, <2>12
  <2>14. Account!Correct(o, q)
    BY <1>0, <2>4, <2>5, <2>9, <2>11, <2>12, <2>13, AccountIsCorrected
  <2> QED BY <2>14 DEF Account!Next
<1>4. ASSUME NEW o \in Orders, NEW a \in Receipts, TakeReceipt(o, a)
      PROVE  Account!Next
  BY <1>0, <1>4, ReceiptIsTaken DEF Account!Next
<1>5. ASSUME NEW c \in Calls,
             \/ \E o \in Orders, r \in Requests : Read(c, o, r) \/ Ask(c, o, r)
             \/ Start(c) \/ Retry(c) \/ GiveUp(c) \/ SaveReturn(c) \/ AnswerRepeat(c)
      PROVE  UNCHANGED Account!accounts
  <2>1. UNCHANGED <<order, versions, balance>>
    BY <1>5 DEF Read, Ask, Start, Retry, GiveUp, SaveReturn, AnswerRepeat, stored
  <2> QED BY <2>1, NothingForTheAccount
<1>6. CASE UNCHANGED vars
  BY <1>6, NothingForTheAccount DEF vars, stored
<1> QED BY <1>1, <1>2, <1>3, <1>4, <1>5, <1>6 DEF Next

\* The documents of the closeout implement the account: payments are set
\* until the order is closed out, once; then versions follow one another and
\* the balance moves by what each changes.
THEOREM AccountIsImplemented == Spec => ImplementsAccount
<1>1. Init => Account!Init
  BY DEF Init, Account!Init, Latest, Stored
<1>2. IInv /\ [Next]_vars => [Account!Next]_(Account!accounts)
  BY StepIsAccounted
<1> QED
  BY <1>1, <1>2, Invariance, PTL DEF Spec, ImplementsAccount, Account!Spec
=============================================================================

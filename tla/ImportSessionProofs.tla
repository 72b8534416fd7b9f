------------------------ MODULE ImportSessionProofs ------------------------
(***************************************************************************)
(* Safety of imports for every set of sessions, preview runs, popups and   *)
(* confirmations, every file and every chunk size.                         *)
(***************************************************************************)
EXTENDS ImportSession, SumTheorems, TLAPS

-----------------------------------------------------------------------------
(* The inductive invariant *)

\* A session that is ready was not imported since its preview.
ReadyIsFresh ==
    \A s \in Sessions :
        begun[s] <= 1 /\ (status[s] = "preview_ready" => begun[s] = 0)

\* Unless they overlapped, one run of the preview works on a session, and
\* between its delete and its insert the session has no rows.
OneRun ==
    \A a, b \in Attempts :
        /\ Live(a)
        /\ Live(b)
        /\ attempt[a].session = attempt[b].session
        /\ attempt[a].session \notin overlapped
        => a = b

RowsOnce ==
    \A s \in Sessions \ overlapped : \A x \in Codes :
        /\ rows[s][x] <= 1
        /\ \A a \in Attempts : Of(a, s) /\ attempt[a].pc = "cleared" => rows[s][x] = 0

\* What a session's users agreed to for a code.
AgreedCut(s, x, q) ==
    \E a \in agreed : a[1] = s /\ a[2][1] = x /\ a[2][3] = q

\* Of a review of session s, if there is one: its cuts were agreed to.
ReviewAgreed(s, r) ==
    r # None /\ r.mode = "exclude_shortage_quantity" =>
        \A cut \in r.fingerprint.cuts : <<s, cut>> \in agreed

ReviewsAgreed == \A s \in Sessions : ReviewAgreed(s, review[s])

PopupsAgreed ==
    \A u \in Popups :
        popup[u] # None /\ popup[u].write = "exclude_shortage_quantity" =>
            \A cut \in popup[u].fingerprint.cuts : <<popup[u].session, cut>> \in agreed

\* The orders that a confirmation of session s is about to write.
Fit(s, docs) ==
    \A d \in docs :
        /\ s \notin overlapped => d[2] <= Want[d[1]]
        /\ d[2] < Want[d[1]] => AgreedCut(s, d[1], d[2])
        /\ \A e \in docs : d[1] = e[1] => d = e

\* A confirmation: its orders, and the review that it read with the session.
CommitFit(e) == Fit(e.session, e.docs) /\ ReviewAgreed(e.session, e.review)

CommitsFit == \A c \in Commits : commit[c] # None => CommitFit(commit[c])

OrderImportedOnce == \A d, e \in orders : d.code = e.code => d = e

IInv ==
    /\ TypeOK
    /\ ReadyIsFresh
    /\ OneRun
    /\ RowsOnce
    /\ ReviewsAgreed
    /\ PopupsAgreed
    /\ CommitsFit
    /\ OrderImportedOnce
    /\ NothingBeyondTheFile
    /\ CutsWereConfirmed

-----------------------------------------------------------------------------
(* Quantities *)

LEMMA Product ==
    ASSUME NEW m \in Nat \ {0}, NEW n \in Nat
    PROVE  /\ m * n \in Nat
           /\ n # 0 => m * n >= m
           /\ n <= 1 => m * n <= m
<1>1. m * n \in Nat
  OBVIOUS
<1>2. ASSUME n # 0 PROVE m * n >= m
  <2>1. PICK k \in Nat : n = k + 1
    <3>1. n - 1 \in Nat /\ n = (n - 1) + 1
      BY <1>2
    <3>2. QED
      BY <3>1
  <2>2. m * n = m * k + m
    BY <2>1
  <2>3. m * k \in Nat
    OBVIOUS
  <2>4. QED
    BY <2>2, <2>3
<1>3. ASSUME n <= 1 PROVE m * n <= m
  <2>1. CASE n = 0
    BY <2>1
  <2>2. CASE n = 1
    BY <2>2
  <2>3. QED
    BY <1>3, <2>1, <2>2
<1>4. QED
  BY <1>1, <1>2, <1>3

\* What is asked of an order is a multiple of what its file says, and it is
\* what the file says when its row is there once.
LEMMA AskedIsMultiple ==
    ASSUME TypeOK, NEW s \in Sessions, NEW selected
    PROVE  /\ Asked(s, selected) \in [Codes -> Nat]
           /\ \A x \in Codes :
                 /\ Asked(s, selected)[x] > 0 => Asked(s, selected)[x] >= Want[x]
                 /\ rows[s][x] <= 1 => Asked(s, selected)[x] <= Want[x]
<1> DEFINE asked == Asked(s, selected)
<1>1. ASSUME NEW x \in Codes
      PROVE  /\ asked[x] \in Nat
             /\ asked[x] > 0 => asked[x] >= Want[x]
             /\ rows[s][x] <= 1 => asked[x] <= Want[x]
  <2>1. Want[x] \in Nat \ {0} /\ rows[s][x] \in Nat
    BY ImportSessionAssumption DEF TypeOK
  <2>2. asked[x] = IF x \in selected THEN Want[x] * rows[s][x] ELSE 0
    BY DEF Asked
  <2>3. /\ Want[x] * rows[s][x] \in Nat
        /\ rows[s][x] # 0 => Want[x] * rows[s][x] >= Want[x]
        /\ rows[s][x] <= 1 => Want[x] * rows[s][x] <= Want[x]
    BY <2>1, Product
  <2>4. rows[s][x] = 0 => Want[x] * rows[s][x] = 0
    BY <2>1
  <2>5. QED
    BY <2>1, <2>2, <2>3, <2>4
<1>2. asked = [x \in Codes |-> asked[x]]
  BY DEF Asked
<1>3. QED
  BY <1>1, <1>2

\* The stock allows no more of an order than is asked for.
LEMMA AllowedIsLess ==
    ASSUME stock \in Nat, NEW asked \in [Codes -> Nat]
    PROVE  /\ Allowed(asked) \in [Codes -> Nat]
           /\ \A x \in Codes : Allowed(asked)[x] <= asked[x]
<1>1. ASSUME NEW x \in Codes
      PROVE  Allowed(asked)[x] \in Nat /\ Allowed(asked)[x] <= asked[x]
  <2>1. Left(x, asked) \in Nat
    BY DEF Left
  <2>2. Allowed(asked)[x] = IF asked[x] <= Left(x, asked) THEN asked[x] ELSE Left(x, asked)
    BY DEF Allowed
  <2>3. QED
    BY <2>1, <2>2
<1>2. Allowed(asked) = [x \in Codes |-> Allowed(asked)[x]]
  BY DEF Allowed
<1>3. QED
  BY <1>1, <1>2

LEMMA FingerprintType ==
    ASSUME NEW asked \in [Codes -> Nat], NEW allowed \in [Codes -> Nat],
           NEW fresh \in SUBSET Codes
    PROVE  FingerprintOf(fresh, asked, allowed) \in Fingerprint
BY DEF FingerprintOf, Fingerprint, Cut

LEMMA CurrentFingerprintType ==
    ASSUME TypeOK, NEW s \in Sessions, NEW selected, NEW found
    PROVE  CurrentFingerprint(s, selected, found) \in Fingerprint
<1>1. Asked(s, selected) \in [Codes -> Nat]
  BY AskedIsMultiple
<1>2. Allowed(Asked(s, selected)) \in [Codes -> Nat]
  BY <1>1, AllowedIsLess DEF TypeOK
<1>3. Fresh(Asked(s, selected), found) \in SUBSET Codes
  BY DEF Fresh
<1>4. QED
  BY <1>1, <1>2, <1>3, FingerprintType DEF CurrentFingerprint

-----------------------------------------------------------------------------
(* Every step keeps the invariant *)

LEMMA InitEstablishes == Init => IInv
BY ImportSessionAssumption
DEF Init, IInv, TypeOK, STATUSES, ReadyIsFresh, OneRun, RowsOnce, ReviewsAgreed,
    ReviewAgreed, PopupsAgreed, CommitsFit, OrderImportedOnce, NothingBeyondTheFile,
    CutsWereConfirmed, Live, Of

\* What the invariant says of the data: of the reviews, the documents that are
\* to be written and the orders.  It depends on few variables.
DataFit == ReviewsAgreed /\ PopupsAgreed /\ CommitsFit /\ OrderImportedOnce
           /\ NothingBeyondTheFile /\ CutsWereConfirmed

LEMMA DataKept ==
    ASSUME DataFit, UNCHANGED <<review, popup, commit, orders, overlapped, agreed>>
    PROVE  DataFit'
BY DEF DataFit, ReviewsAgreed, PopupsAgreed, CommitsFit, CommitFit, ReviewAgreed, Fit, AgreedCut,
       OrderImportedOnce, NothingBeyondTheFile, CutsWereConfirmed

LEMMA StartPreviewKeeps ==
    ASSUME IInv, NEW a \in Attempts, NEW s \in Sessions, StartPreview(a, s)
    PROVE  IInv'
<1> USE DEF StartPreview
<1>1. TypeOK'
  BY DEF IInv, TypeOK, sessionVars, shop, history, Attempt, STATUSES
<1>2. ReadyIsFresh'
  BY DEF IInv, TypeOK, ReadyIsFresh, sessionVars
<1>3. overlapped \subseteq overlapped'
  OBVIOUS
<1>4. attempt' = [attempt EXCEPT ![a] = [session |-> s, pc |-> "loaded"]]
  OBVIOUS
<1>5. ASSUME NEW b \in Attempts, b # a
      PROVE  attempt'[b] = attempt[b]
  BY <1>4, <1>5 DEF IInv, TypeOK
<1>6. /\ attempt'[a] = [session |-> s, pc |-> "loaded"]
      /\ attempt'[a].session = s
      /\ attempt'[a].pc = "loaded"
  BY <1>4 DEF IInv, TypeOK
<1>7. OneRun'
  <2> SUFFICES ASSUME NEW b \in Attempts, NEW d \in Attempts, Live(b)', Live(d)',
                      attempt'[b].session = attempt'[d].session,
                      attempt'[b].session \notin overlapped'
               PROVE  b = d
    BY DEF OneRun
  <2>1. CASE b # a /\ d # a
    BY <2>1, <1>3, <1>5 DEF IInv, OneRun, Live
  <2>2. CASE b = a /\ d # a
    <3>1. Of(d, s) /\ Live(d)
      BY <2>2, <1>5, <1>6 DEF Live, Of
    <3>2. QED
      BY <3>1, <2>2, <1>6
  <2>3. CASE b # a /\ d = a
    <3>1. Of(b, s) /\ Live(b)
      BY <2>3, <1>5, <1>6 DEF Live, Of
    <3>2. QED
      BY <3>1, <2>3, <1>6
  <2>4. QED
    BY <2>1, <2>2, <2>3
<1>8. RowsOnce'
  <2> SUFFICES ASSUME NEW r \in Sessions \ overlapped', NEW x \in Codes
               PROVE  /\ rows'[r][x] <= 1
                      /\ \A b \in Attempts : Of(b, r)' /\ attempt'[b].pc = "cleared"
                                                => rows'[r][x] = 0
    BY DEF RowsOnce
  <2>1. r \in Sessions \ overlapped /\ rows' = rows
    BY <1>3 DEF sessionVars
  <2>2. QED
    BY <2>1, <1>5, <1>6 DEF IInv, RowsOnce, Of
<1>9. CommitsFit'
  BY <1>3 DEF IInv, CommitsFit, CommitFit, ReviewAgreed, Fit, AgreedCut
<1>10. NothingBeyondTheFile' /\ CutsWereConfirmed' /\ OrderImportedOnce'
  BY <1>3 DEF IInv, NothingBeyondTheFile, CutsWereConfirmed, OrderImportedOnce, shop
<1>11. ReviewsAgreed' /\ PopupsAgreed'
  BY DEF IInv, ReviewsAgreed, ReviewAgreed, PopupsAgreed, sessionVars
<1>12. QED
  BY <1>1, <1>2, <1>7, <1>8, <1>9, <1>10, <1>11 DEF IInv

\* A run that goes on, or ends.
LEMMA RunsStayApart ==
    ASSUME TypeOK, OneRun, UNCHANGED overlapped, NEW a \in Attempts, Live(a), NEW pc,
           Step(a, pc)
    PROVE  /\ OneRun'
           /\ \A b \in Attempts : b # a => attempt'[b] = attempt[b]
           /\ attempt[a] \in Attempt
           /\ attempt'[a] = [session |-> attempt[a].session, pc |-> pc]
<1>1. attempt[a] \in Attempt
  BY DEF TypeOK, Live
<1>2. \A b \in Attempts : b # a => attempt'[b] = attempt[b]
  BY DEF Step, TypeOK
<1>3. attempt'[a] = [session |-> attempt[a].session, pc |-> pc]
  BY <1>1 DEF Step, TypeOK, Attempt
<1>4. \A b \in Attempts : Live(b)' => Live(b) /\ attempt'[b].session = attempt[b].session
  BY <1>2, <1>3 DEF Live
<1>5. OneRun'
  BY <1>4 DEF OneRun
<1>6. QED
  BY <1>1, <1>2, <1>3, <1>5

\* A run that begins to parse, or ends without having saved its preview: no
\* session becomes ready.
LEMMA RunMarksKeeps ==
    ASSUME IInv, NEW a \in Attempts, MarkParsing(a) \/ FailPreview(a) \/ LosePreview(a)
    PROVE  IInv'
<1> PICK pc \in {"parsing", "over"} : Step(a, pc) /\ Live(a)
  BY DEF MarkParsing, FailPreview, LosePreview
<1>1. /\ UNCHANGED <<review, rows, jobs, popup, commit, shop, history>>
      /\ \E value \in {"parsing", "failed"} :
            status' \in {status, [status EXCEPT ![attempt[a].session] = value]}
  BY DEF MarkParsing, FailPreview, LosePreview, MarkFailed, SetStatus, sessionVars
<1>2. TypeOK /\ OneRun /\ UNCHANGED overlapped
  BY <1>1 DEF IInv, history
<1>3. /\ OneRun'
      /\ \A b \in Attempts : b # a => attempt'[b] = attempt[b]
      /\ attempt[a] \in Attempt
      /\ attempt'[a] = [session |-> attempt[a].session, pc |-> pc]
  BY <1>2, RunsStayApart
<1>4. TypeOK'
  <2>1. attempt' \in [Attempts -> {None} \cup Attempt]
    BY <1>2, <1>3 DEF TypeOK, Attempt, Step
  <2>2. status' \in [Sessions -> STATUSES]
    BY <1>1, <1>2 DEF TypeOK, STATUSES
  <2>3. QED
    BY <1>1, <1>2, <2>1, <2>2 DEF TypeOK, shop, history
<1>5. ReadyIsFresh'
  BY <1>1 DEF IInv, TypeOK, ReadyIsFresh, history
<1>6. RowsOnce'
  BY <1>1, <1>3 DEF IInv, RowsOnce, Of, history
<1>7. DataFit'
  BY <1>1, DataKept DEF IInv, DataFit, shop, history
<1>8. QED
  BY <1>3, <1>4, <1>5, <1>6, <1>7 DEF IInv, DataFit

LEMMA DeleteRowsKeeps ==
    ASSUME IInv, NEW a \in Attempts, DeleteRows(a)
    PROVE  IInv'
<1> DEFINE s == attempt[a].session
<1>1. /\ UNCHANGED <<status, review, jobs, popup, commit, shop, history>>
      /\ Step(a, "cleared")
      /\ Live(a)
      /\ rows' = [rows EXCEPT ![s] = [x \in Codes |-> 0]]
  BY DEF DeleteRows, Cleared
<1>2. TypeOK /\ OneRun /\ UNCHANGED overlapped
  BY <1>1 DEF IInv, history
<1>3. /\ OneRun'
      /\ \A b \in Attempts : b # a => attempt'[b] = attempt[b]
      /\ attempt[a] \in Attempt
      /\ attempt'[a] = [session |-> s, pc |-> "cleared"]
  BY <1>1, <1>2, RunsStayApart
<1>4. TypeOK'
  <2>1. attempt' \in [Attempts -> {None} \cup Attempt]
    BY <1>1, <1>2, <1>3 DEF TypeOK, Attempt, Step
  <2>2. rows' \in [Sessions -> [Codes -> Nat]]
    BY <1>1, <1>2 DEF TypeOK
  <2>3. QED
    BY <1>1, <1>2, <2>1, <2>2 DEF TypeOK, shop, history
<1>5. ReadyIsFresh'
  BY <1>1 DEF IInv, ReadyIsFresh, history
<1>6. RowsOnce'
  <2> SUFFICES ASSUME NEW r \in Sessions \ overlapped, NEW x \in Codes
               PROVE  /\ rows'[r][x] <= 1
                      /\ \A b \in Attempts : Of(b, r)' /\ attempt'[b].pc = "cleared"
                                                => rows'[r][x] = 0
    BY <1>2 DEF RowsOnce
  <2>1. CASE r = s
    BY <2>1, <1>1, <1>2 DEF TypeOK
  <2>2. CASE r # s
    <3>1. rows'[r] = rows[r]
      BY <2>2, <1>1, <1>2 DEF TypeOK
    <3>2. QED
      BY <3>1, <2>2, <1>3 DEF IInv, RowsOnce, Of
  <2>3. QED
    BY <2>1, <2>2
<1>7. DataFit'
  BY <1>1, DataKept DEF IInv, DataFit, shop, history
<1>8. QED
  BY <1>3, <1>4, <1>5, <1>6, <1>7 DEF IInv, DataFit

LEMMA InsertRowsKeeps ==
    ASSUME IInv, NEW a \in Attempts, InsertRows(a)
    PROVE  IInv'
<1> DEFINE s == attempt[a].session
<1> DEFINE more == [x \in Codes |-> IF x \in File[s] THEN rows[s][x] + 1 ELSE rows[s][x]]
<1>1. /\ UNCHANGED <<status, review, jobs, popup, commit, shop, history>>
      /\ Step(a, "inserted")
      /\ Live(a)
      /\ attempt[a].pc = "cleared"
      /\ rows' = [rows EXCEPT ![s] = more]
  BY DEF InsertRows
<1>2. TypeOK /\ OneRun /\ UNCHANGED overlapped
  BY <1>1 DEF IInv, history
<1>3. /\ OneRun'
      /\ \A b \in Attempts : b # a => attempt'[b] = attempt[b]
      /\ attempt[a] \in Attempt
      /\ attempt'[a] = [session |-> s, pc |-> "inserted"]
  BY <1>1, <1>2, RunsStayApart
<1>4. s \in Sessions
  BY <1>3 DEF Attempt
<1>5. TypeOK'
  <2>1. attempt' \in [Attempts -> {None} \cup Attempt]
    BY <1>1, <1>2, <1>3 DEF TypeOK, Attempt, Step
  <2>2. more \in [Codes -> Nat]
    BY <1>2, <1>4 DEF TypeOK
  <2>3. rows' \in [Sessions -> [Codes -> Nat]]
    BY <1>1, <1>2, <2>2 DEF TypeOK
  <2>4. QED
    BY <1>1, <1>2, <2>1, <2>3 DEF TypeOK, shop, history
<1>6. ReadyIsFresh'
  BY <1>1 DEF IInv, ReadyIsFresh, history
<1>7. RowsOnce'
  <2> SUFFICES ASSUME NEW r \in Sessions \ overlapped, NEW x \in Codes
               PROVE  /\ rows'[r][x] <= 1
                      /\ \A b \in Attempts : Of(b, r)' /\ attempt'[b].pc = "cleared"
                                                => rows'[r][x] = 0
    BY <1>2 DEF RowsOnce
  <2>1. CASE r = s
    <3>1. rows[s][x] = 0
      BY <1>1, <1>3, <2>1 DEF IInv, RowsOnce, Of, Live
    <3>2. rows'[s][x] <= 1
      BY <3>1, <1>1, <1>2, <1>4 DEF TypeOK
    <3>3. ASSUME NEW b \in Attempts, Of(b, r)', attempt'[b].pc = "cleared"
          PROVE  FALSE
      <4>1. b # a /\ attempt'[b] = attempt[b]
        BY <3>3, <1>3
      <4>2. Live(b) /\ attempt[b].session = s
        BY <4>1, <3>3, <2>1 DEF Live, Of
      <4>3. b = a
        BY <4>2, <1>1, <1>2, <2>1 DEF OneRun
      <4>4. QED
        BY <4>1, <4>3
    <3>4. QED
      BY <2>1, <3>2, <3>3
  <2>2. CASE r # s
    <3>1. rows'[r] = rows[r]
      BY <2>2, <1>1, <1>2 DEF TypeOK
    <3>2. QED
      BY <3>1, <2>2, <1>3 DEF IInv, RowsOnce, Of
  <2>3. QED
    BY <2>1, <2>2
<1>8. DataFit'
  BY <1>1, DataKept DEF IInv, DataFit, shop, history
<1>9. QED
  BY <1>3, <1>5, <1>6, <1>7, <1>8 DEF IInv, DataFit

LEMMA PreviewReadyKeeps ==
    ASSUME IInv, NEW a \in Attempts, PreviewReady(a)
    PROVE  IInv'
<1> DEFINE s == attempt[a].session
<1>1. /\ UNCHANGED <<rows, jobs, popup, commit, shop, overlapped, agreed, requests>>
      /\ Step(a, "saved")
      /\ Live(a)
      /\ status' = [status EXCEPT ![s] = "preview_ready"]
      /\ review' = [review EXCEPT ![s] = None]
      /\ begun' = [begun EXCEPT ![s] = 0]
  BY DEF PreviewReady, SetStatus
<1>2. TypeOK /\ OneRun
  BY DEF IInv
<1>3. /\ OneRun'
      /\ \A b \in Attempts : b # a => attempt'[b] = attempt[b]
      /\ attempt[a] \in Attempt
      /\ attempt'[a] = [session |-> s, pc |-> "saved"]
  BY <1>1, <1>2, RunsStayApart
<1>4. TypeOK'
  <2>1. attempt' \in [Attempts -> {None} \cup Attempt]
    BY <1>1, <1>2, <1>3 DEF TypeOK, Attempt, Step
  <2>2. status' \in [Sessions -> STATUSES] /\ begun' \in [Sessions -> Nat]
    BY <1>1, <1>2 DEF TypeOK, STATUSES
  <2>3. review' \in [Sessions -> {None} \cup Review]
    BY <1>1, <1>2 DEF TypeOK
  <2>4. QED
    BY <1>1, <1>2, <2>1, <2>2, <2>3 DEF TypeOK, shop
<1>5. ReadyIsFresh'
  BY <1>1, <1>2 DEF IInv, ReadyIsFresh, TypeOK
<1>6. RowsOnce'
  BY <1>1, <1>3 DEF IInv, RowsOnce, Of
<1>7. ReviewsAgreed'
  BY <1>1, <1>2 DEF IInv, ReviewsAgreed, ReviewAgreed, TypeOK
<1>8. PopupsAgreed' /\ CommitsFit'
  BY <1>1 DEF IInv, PopupsAgreed, CommitsFit, CommitFit, ReviewAgreed, Fit, AgreedCut
<1>9. OrderImportedOnce' /\ NothingBeyondTheFile' /\ CutsWereConfirmed'
  BY <1>1 DEF IInv, OrderImportedOnce, NothingBeyondTheFile, CutsWereConfirmed, shop
<1>10. QED
  BY <1>3, <1>4, <1>5, <1>6, <1>7, <1>8, <1>9 DEF IInv

\* What the invariant says of sessions and preview runs.
SessionFit == ReadyIsFresh /\ OneRun /\ RowsOnce

LEMMA SessionKept ==
    ASSUME SessionFit, UNCHANGED <<status, rows, attempt, begun, overlapped>>
    PROVE  SessionFit'
BY DEF SessionFit, ReadyIsFresh, OneRun, RowsOnce, Live, Of

\* A run whose preview is saved has no more to do with the session.
LEMMA RemoveFilesKeeps ==
    ASSUME IInv, NEW a \in Attempts, RemoveFiles(a)
    PROVE  IInv'
<1>1. /\ UNCHANGED <<sessionVars, jobs, popup, commit, shop, history>>
      /\ attempt[a] # None
      /\ attempt[a].pc = "saved"
      /\ attempt' = [attempt EXCEPT ![a].pc = "ended"]
  BY DEF RemoveFiles, Step
<1>2. TypeOK /\ attempt[a] \in Attempt
  BY <1>1 DEF IInv, TypeOK
<1>3. attempt'[a] = [session |-> attempt[a].session, pc |-> "ended"]
      /\ \A b \in Attempts : b # a => attempt'[b] = attempt[b]
  BY <1>1, <1>2 DEF TypeOK, Attempt
<1>4. TypeOK'
  <2>1. attempt' \in [Attempts -> {None} \cup Attempt]
    BY <1>1, <1>2, <1>3 DEF TypeOK, Attempt
  <2>2. QED
    BY <1>1, <1>2, <2>1 DEF TypeOK, sessionVars, shop, history
<1>5. \A b \in Attempts : Live(b)' => Live(b) /\ attempt'[b] = attempt[b]
  BY <1>1, <1>3 DEF Live
<1>6. OneRun'
  BY <1>1, <1>5 DEF IInv, OneRun, history
<1>7. ReadyIsFresh' /\ RowsOnce'
  BY <1>1, <1>3 DEF IInv, ReadyIsFresh, RowsOnce, Of, sessionVars, history
<1>8. DataFit'
  BY <1>1, DataKept DEF IInv, DataFit, sessionVars, shop, history
<1>9. QED
  BY <1>4, <1>6, <1>7, <1>8 DEF IInv, DataFit

LEMMA EndJobKeeps ==
    ASSUME IInv, NEW s \in Sessions, EndJob(s)
    PROVE  IInv'
<1>1. TypeOK /\ SessionFit /\ DataFit
  BY DEF IInv, SessionFit, DataFit
<1>2. UNCHANGED <<sessionVars, attempt, popup, commit, shop, history>> /\ jobs' \subseteq jobs
  BY DEF EndJob
<1>3. TypeOK'
  BY <1>1, <1>2 DEF TypeOK, sessionVars, shop, history
<1>4. SessionFit'
  BY <1>1, <1>2, SessionKept DEF sessionVars, history
<1>5. DataFit'
  BY <1>1, <1>2, DataKept DEF sessionVars, shop, history
<1>6. QED
  BY <1>3, <1>4, <1>5 DEF IInv, SessionFit, DataFit

-----------------------------------------------------------------------------
(* The popup and the confirmation *)

LEMMA OthersKept ==
    ASSUME DataFit, UNCHANGED <<review, commit, orders, overlapped, agreed>>, PopupsAgreed'
    PROVE  DataFit'
BY DEF DataFit, ReviewsAgreed, CommitsFit, CommitFit, ReviewAgreed, Fit, AgreedCut,
       OrderImportedOnce, NothingBeyondTheFile, CutsWereConfirmed

LEMMA GetReviewKeeps ==
    ASSUME IInv, NEW u \in Popups, NEW s \in Sessions, NEW selected \in Selections[s],
           NEW found, GetReview(u, s, selected, found)
    PROVE  IInv'
<1> PICK fingerprint \in Fingerprint :
        popup' = [popup EXCEPT ![u] = [session |-> s, selected |-> selected,
                        fingerprint |-> fingerprint, write |-> None]]
  BY CurrentFingerprintType DEF GetReview, IInv
<1>1. /\ UNCHANGED <<sessionVars, jobs, attempt, commit, shop, begun, overlapped, agreed>>
      /\ requests' = requests + 1
  BY DEF GetReview, OneMoreRequest
<1>2. TypeOK /\ SessionFit /\ DataFit
  BY DEF IInv, SessionFit, DataFit
<1>3. TypeOK'
  <2>1. selected \in SUBSET Codes
    BY ImportSessionAssumption
  <2>2. popup' \in [Popups -> {None} \cup Popup]
    BY <1>2, <2>1 DEF TypeOK, Popup
  <2>3. QED
    BY <1>1, <1>2, <2>2 DEF TypeOK, sessionVars, shop
<1>4. SessionFit'
  BY <1>1, <1>2, SessionKept DEF sessionVars
<1>5. PopupsAgreed'
  <2>1. agreed' = agreed /\ PopupsAgreed /\ popup \in [Popups -> {None} \cup Popup]
    BY <1>1, <1>2 DEF DataFit, TypeOK
  <2>2. ASSUME NEW v \in Popups
        PROVE  (v = u /\ popup'[v].write = None) \/ popup'[v] = popup[v]
    BY <2>1
  <2>3. None # "exclude_shortage_quantity"
    BY NoneAssumption DEF MODES
  <2>4. QED
    BY <2>1, <2>2, <2>3 DEF PopupsAgreed
<1>6. DataFit'
  <2>1. UNCHANGED <<review, commit, orders, overlapped, agreed>>
    BY <1>1 DEF sessionVars, shop
  <2>2. QED
    BY <2>1, <1>2, <1>5, OthersKept
<1>7. QED
  BY <1>3, <1>4, <1>6 DEF IInv, SessionFit, DataFit

LEMMA ClosePopupKeeps ==
    ASSUME IInv, NEW u \in Popups, ClosePopup(u)
    PROVE  IInv'
<1>1. UNCHANGED <<sessionVars, jobs, attempt, commit, shop, history>>
      /\ popup' = [popup EXCEPT ![u] = None]
  BY DEF ClosePopup
<1>2. TypeOK /\ SessionFit /\ DataFit
  BY DEF IInv, SessionFit, DataFit
<1>3. TypeOK'
  BY <1>1, <1>2 DEF TypeOK, sessionVars, shop, history
<1>4. SessionFit'
  BY <1>1, <1>2, SessionKept DEF sessionVars, history
<1>5. PopupsAgreed'
  BY <1>1, <1>2 DEF DataFit, PopupsAgreed, TypeOK, history
<1>6. DataFit'
  <2>1. UNCHANGED <<review, commit, orders, overlapped, agreed>>
    BY <1>1 DEF sessionVars, shop, history
  <2>2. QED
    BY <2>1, <1>2, <1>5, OthersKept
<1>7. QED
  BY <1>3, <1>4, <1>6 DEF IInv, SessionFit, DataFit

\* What was agreed stays agreed.
LEMMA AgreedGrows ==
    ASSUME DataFit, UNCHANGED <<review, commit, orders, overlapped>>, agreed \subseteq agreed',
           PopupsAgreed'
    PROVE  DataFit'
<1>1. ReviewsAgreed'
  BY DEF DataFit, ReviewsAgreed, ReviewAgreed
<1>2. CommitsFit'
  BY DEF DataFit, CommitsFit, CommitFit, ReviewAgreed, Fit, AgreedCut
<1>3. CutsWereConfirmed'
  BY DEF DataFit, CutsWereConfirmed
<1>4. OrderImportedOnce' /\ NothingBeyondTheFile'
  BY DEF DataFit, OrderImportedOnce, NothingBeyondTheFile
<1>5. QED
  BY <1>1, <1>2, <1>3, <1>4 DEF DataFit

LEMMA ConfirmReviewKeeps ==
    ASSUME IInv, NEW u \in Popups, NEW mode \in MODES, NEW found,
           ConfirmReview(u, mode, found)
    PROVE  IInv'
<1> DEFINE p == popup[u]
<1> DEFINE now == CurrentFingerprint(p.session, p.selected, found)
<1> DEFINE write == IF now = p.fingerprint THEN mode ELSE "stale"
<1> DEFINE q == [session |-> p.session, selected |-> {}, fingerprint |-> p.fingerprint,
                 write |-> write]
<1>1. /\ UNCHANGED <<sessionVars, jobs, attempt, commit, shop, begun, overlapped, requests>>
      /\ p # None
      /\ popup' = [popup EXCEPT ![u] = q]
      /\ agreed' = IF now = p.fingerprint /\ mode = "exclude_shortage_quantity"
                   THEN agreed \cup {<<p.session, cut>> : cut \in now.cuts}
                   ELSE agreed
  BY DEF ConfirmReview
<1>2. TypeOK /\ SessionFit /\ DataFit
  BY DEF IInv, SessionFit, DataFit
<1>3. p \in Popup
  BY <1>1, <1>2 DEF TypeOK
<1>4. now \in Fingerprint
  BY <1>2, <1>3, CurrentFingerprintType DEF Popup
<1>5. q \in Popup
  BY <1>3 DEF Popup
<1> HIDE DEF q
<1>6. popup' \in [Popups -> {None} \cup Popup]
  BY <1>1, <1>2, <1>5 DEF TypeOK
<1>7. agreed' \subseteq Sessions \X Cut /\ agreed \subseteq agreed'
  BY <1>1, <1>2, <1>3, <1>4 DEF TypeOK, Popup, Fingerprint
<1>8. TypeOK'
  BY <1>1, <1>2, <1>6, <1>7 DEF TypeOK, sessionVars, shop
<1>9. SessionFit'
  BY <1>1, <1>2, SessionKept DEF sessionVars
<1>10. PopupsAgreed'
  <2>1. ASSUME q.write = "exclude_shortage_quantity", NEW cut \in q.fingerprint.cuts
        PROVE  <<q.session, cut>> \in agreed'
    <3>1. now = p.fingerprint /\ mode = "exclude_shortage_quantity"
      BY <2>1 DEF q
    <3>2. cut \in now.cuts /\ q.session = p.session
      BY <3>1, <2>1 DEF q
    <3>3. QED
      BY <1>1, <3>1, <3>2
  <2>2. \A v \in Popups : popup'[v] = IF v = u THEN q ELSE popup[v]
    BY <1>1, <1>2 DEF TypeOK
  <2>3. PopupsAgreed /\ agreed \subseteq agreed'
    BY <1>2, <1>7 DEF DataFit
  <2>4. QED
    BY <2>1, <2>2, <2>3 DEF PopupsAgreed
<1>11. DataFit'
  BY <1>1, <1>2, <1>7, <1>10, AgreedGrows DEF sessionVars, shop
<1>12. QED
  BY <1>8, <1>9, <1>11 DEF IInv, SessionFit, DataFit

LEMMA UpdateShortageReviewKeeps ==
    ASSUME IInv, NEW u \in Popups, UpdateShortageReview(u)
    PROVE  IInv'
<1> DEFINE p == popup[u]
<1> DEFINE stored == IF p.write = "stale" THEN None
                     ELSE [mode |-> p.write, fingerprint |-> p.fingerprint]
<1>1. /\ UNCHANGED <<status, rows, jobs, attempt, commit, shop, history>>
      /\ p # None
      /\ p.write # None
      /\ review' \in {review, [review EXCEPT ![p.session] = stored]}
      /\ popup' = [popup EXCEPT ![u] = None]
  BY DEF UpdateShortageReview
<1>2. TypeOK /\ SessionFit /\ DataFit
  BY DEF IInv, SessionFit, DataFit
<1>3. p \in Popup
  BY <1>1, <1>2 DEF TypeOK
<1>4. /\ stored \in {None} \cup Review
      /\ ReviewAgreed(p.session, stored)
  <2>1. CASE p.write = "stale"
    BY <2>1 DEF ReviewAgreed
  <2>2. CASE p.write # "stale"
    <3>1. p.write \in MODES /\ stored = [mode |-> p.write, fingerprint |-> p.fingerprint]
      BY <1>1, <1>3, <2>2 DEF Popup
    <3>2. stored \in Review
      BY <1>3, <3>1 DEF Popup, Review
    <3>3. p.write = "exclude_shortage_quantity" =>
             \A cut \in p.fingerprint.cuts : <<p.session, cut>> \in agreed
      BY <1>1, <1>2 DEF DataFit, PopupsAgreed
    <3>4. stored.mode = p.write /\ stored.fingerprint = p.fingerprint
      BY <3>1
    <3>5. QED
      BY <3>2, <3>3, <3>4 DEF ReviewAgreed
  <2>3. QED
    BY <2>1, <2>2
<1> HIDE DEF stored
<1>5. TypeOK'
  <2>1. review' \in [Sessions -> {None} \cup Review]
    BY <1>1, <1>2, <1>4 DEF TypeOK
  <2>2. QED
    BY <1>1, <1>2, <2>1 DEF TypeOK, shop, history
<1>6. SessionFit'
  BY <1>1, <1>2, SessionKept DEF history
<1>7. ReviewsAgreed'
  <2>1. \A s \in Sessions : review'[s] = review[s] \/ (s = p.session /\ review'[s] = stored)
    BY <1>1, <1>2 DEF TypeOK
  <2>2. agreed' = agreed /\ ReviewsAgreed
    BY <1>1, <1>2 DEF DataFit, history
  <2>3. QED
    BY <1>4, <2>1, <2>2 DEF ReviewsAgreed, ReviewAgreed
<1>8. PopupsAgreed'
  BY <1>1, <1>2 DEF DataFit, PopupsAgreed, TypeOK, history
<1>9. DataFit'
  <2>1. UNCHANGED <<commit, orders, overlapped, agreed>>
    BY <1>1 DEF shop, history
  <2>2. QED
    BY <2>1, <1>2, <1>7, <1>8 DEF DataFit, CommitsFit, CommitFit, ReviewAgreed, Fit, AgreedCut,
       OrderImportedOnce, NothingBeyondTheFile, CutsWereConfirmed
<1>10. QED
  BY <1>5, <1>6, <1>9 DEF IInv, SessionFit, DataFit

\* The orders a confirmation prepares: for no more than the file says if no
\* rows are there twice, and for less only if the review that it read, and that
\* a user confirmed, says so.
LEMMA PrepareFits ==
    ASSUME TypeOK, SessionFit, NEW s \in Sessions, NEW selected, NEW found,
           NEW mode \in MODES, NEW asked \in [Codes -> Nat], NEW allowed \in [Codes -> Nat],
           NEW fresh \in SUBSET Codes, NEW r, ReviewAgreed(s, r),
           asked = Asked(s, selected), allowed = Allowed(asked),
           FingerprintOf(fresh, asked, allowed).cuts # {} =>
                r = [mode |-> mode, fingerprint |-> FingerprintOf(fresh, asked, allowed)],
           \A x \in fresh : asked[x] > 0
    PROVE  Fit(s, CommitRows(mode, fresh, asked, allowed))
<1> DEFINE docs == CommitRows(mode, fresh, asked, allowed)
<1>1. /\ \A x \in Codes :
            /\ asked[x] > 0 => asked[x] >= Want[x]
            /\ rows[s][x] <= 1 => asked[x] <= Want[x]
      /\ \A x \in Codes : allowed[x] <= asked[x]
  BY AskedIsMultiple, AllowedIsLess DEF TypeOK
<1>2. \A x \in Codes : Want[x] \in Nat \ {0}
  BY ImportSessionAssumption
<1> SUFFICES ASSUME NEW d \in docs
             PROVE  /\ s \notin overlapped => d[2] <= Want[d[1]]
                    /\ d[2] < Want[d[1]] => AgreedCut(s, d[1], d[2])
                    /\ \A e \in docs : d[1] = e[1] => d = e
  BY DEF Fit
<1>3. PICK x \in fresh : /\ d = <<x, allowed[x]>>
                         /\ mode = "exclude_shortage_orders" => allowed[x] = asked[x]
  BY DEF CommitRows
<1>4. x \in Codes /\ d[1] = x /\ d[2] = allowed[x] /\ asked[x] > 0
  BY <1>3
<1>5. ASSUME s \notin overlapped PROVE d[2] <= Want[x]
  <2>1. rows[s][x] <= 1
    BY <1>4, <1>5 DEF SessionFit, RowsOnce
  <2>2. asked[x] <= Want[x] /\ allowed[x] <= asked[x]
    BY <1>1, <1>4, <2>1
  <2>3. asked[x] \in Nat /\ allowed[x] \in Nat /\ Want[x] \in Nat
    BY <1>2, <1>4
  <2>4. QED
    BY <1>4, <2>2, <2>3
<1>6. ASSUME d[2] < Want[x] PROVE AgreedCut(s, x, d[2])
  <2>1. asked[x] \in Nat /\ allowed[x] \in Nat /\ Want[x] \in Nat
    BY <1>2, <1>4
  <2>2. allowed[x] < asked[x]
    BY <1>1, <1>4, <1>6, <2>1
  <2> DEFINE cut == <<x, asked[x], allowed[x]>>
  <2> DEFINE fingerprint == FingerprintOf(fresh, asked, allowed)
  <2>3. cut \in fingerprint.cuts
    BY <1>3, <2>2 DEF FingerprintOf
  <2>4. r = [mode |-> mode, fingerprint |-> fingerprint]
    BY <2>3
  <2>5. fingerprint \in Fingerprint
    BY FingerprintType
  <2> HIDE DEF fingerprint
  <2>6. mode = "exclude_shortage_quantity"
    BY <1>3, <2>1, <2>2 DEF MODES
  <2>7. r.mode = mode /\ r.fingerprint = fingerprint /\ r # None
    BY <2>4, <2>5, NoneAssumption DEF Review
  <2>8. <<s, cut>> \in agreed
    BY <2>3, <2>6, <2>7 DEF ReviewAgreed
  <2>9. QED
    BY <1>4, <2>8 DEF AgreedCut
<1>7. ASSUME NEW e \in docs, d[1] = e[1] PROVE d = e
  BY <1>3, <1>7 DEF CommitRows
<1>8. QED
  BY <1>4, <1>5, <1>6, <1>7

\* A step of a confirmation which, if it goes on, is still fit.
LEMMA CommitsKept ==
    ASSUME DataFit, UNCHANGED <<review, popup, orders, overlapped, agreed>>,
           \A c \in Commits : commit'[c] # None => CommitFit(commit'[c])
    PROVE  DataFit'
<1>1. CommitsFit'
  BY DEF CommitsFit, CommitFit, ReviewAgreed, Fit, AgreedCut
<1>2. ReviewsAgreed' /\ PopupsAgreed'
  BY DEF DataFit, ReviewsAgreed, ReviewAgreed, PopupsAgreed
<1>3. OrderImportedOnce' /\ NothingBeyondTheFile' /\ CutsWereConfirmed'
  BY DEF DataFit, OrderImportedOnce, NothingBeyondTheFile, CutsWereConfirmed
<1>4. QED
  BY <1>1, <1>2, <1>3 DEF DataFit

\* A confirmation that goes on, with other documents, or ends.
LEMMA CarryFits ==
    ASSUME TypeOK, DataFit, NEW c \in Commits, commit[c] # None,
           NEW pc \in {"no_rows", "prepared", "importing", "writing"},
           NEW docs \in SUBSET (Codes \X Nat), Fit(commit[c].session, docs),
           Carry(c, pc, docs)
    PROVE  /\ commit' \in [Commits -> {None} \cup Commit]
           /\ \A e \in Commits : commit'[e] # None => CommitFit(commit'[e])
<1> DEFINE new == [session |-> commit[c].session, pc |-> pc, docs |-> docs, review |-> None]
<1>1. commit[c] \in Commit /\ commit' = [commit EXCEPT ![c] = new]
  BY DEF TypeOK, Carry
<1>2. new \in Commit
  BY <1>1 DEF Commit
<1>3. CommitFit(new)
  BY DEF CommitFit, ReviewAgreed
<1> HIDE DEF new
<1>4. commit' \in [Commits -> {None} \cup Commit]
  BY <1>1, <1>2 DEF TypeOK
<1>5. \A e \in Commits : commit'[e] = new \/ commit'[e] = commit[e]
  BY <1>1 DEF TypeOK
<1>6. QED
  BY <1>3, <1>4, <1>5 DEF DataFit, CommitsFit

LEMMA EndFits ==
    ASSUME TypeOK, DataFit, NEW c \in Commits, End(c)
    PROVE  /\ commit' \in [Commits -> {None} \cup Commit]
           /\ \A e \in Commits : commit'[e] # None => CommitFit(commit'[e])
BY DEF End, TypeOK, DataFit, CommitsFit

LEMMA OpenKeeps ==
    ASSUME IInv, NEW c \in Commits, NEW s \in Sessions, Open(c, s)
    PROVE  IInv'
<1> DEFINE new == [session |-> s, pc |-> "opened", docs |-> {}, review |-> review[s]]
<1>1. TypeOK /\ SessionFit /\ DataFit
  BY DEF IInv, SessionFit, DataFit
<1>2. /\ UNCHANGED <<sessionVars, jobs, attempt, popup, shop, begun, overlapped, agreed>>
      /\ requests' = requests + 1
      /\ commit' = [commit EXCEPT ![c] = new]
  BY DEF Open, OneMoreRequest
<1>3. new \in Commit
  BY <1>1 DEF TypeOK, Commit
<1>4. CommitFit(new)
  BY <1>1 DEF CommitFit, Fit, DataFit, ReviewsAgreed
<1> HIDE DEF new
<1>5. commit' \in [Commits -> {None} \cup Commit]
  BY <1>1, <1>2, <1>3 DEF TypeOK
<1>6. TypeOK'
  BY <1>1, <1>2, <1>5 DEF TypeOK, sessionVars, shop
<1>7. SessionFit'
  BY <1>1, <1>2, SessionKept DEF sessionVars
<1>8. \A e \in Commits : commit'[e] = new \/ commit'[e] = commit[e]
  BY <1>1, <1>2 DEF TypeOK
<1>9. \A e \in Commits : commit'[e] # None => CommitFit(commit'[e])
  BY <1>1, <1>4, <1>8 DEF DataFit, CommitsFit
<1>10. DataFit'
  BY <1>1, <1>2, <1>9, CommitsKept DEF sessionVars, shop
<1>11. QED
  BY <1>6, <1>7, <1>10 DEF IInv, SessionFit, DataFit

\* A step that changes nothing but confirmations.
LEMMA CommitsOnlyKept ==
    ASSUME TypeOK, SessionFit, DataFit,
           UNCHANGED <<sessionVars, jobs, attempt, popup, shop, history>>,
           commit' \in [Commits -> {None} \cup Commit],
           \A c \in Commits : commit'[c] # None => CommitFit(commit'[c])
    PROVE  IInv'
<1>1. TypeOK'
  BY DEF TypeOK, sessionVars, shop, history
<1>2. SessionFit'
  BY SessionKept DEF sessionVars, history
<1>3. DataFit'
  BY CommitsKept DEF sessionVars, shop, history
<1>4. QED
  BY <1>1, <1>2, <1>3 DEF IInv, SessionFit, DataFit

LEMMA PrepareKeeps ==
    ASSUME IInv, NEW c \in Commits, NEW selected, NEW mode \in MODES, NEW found,
           Prepare(c, selected, mode, found)
    PROVE  IInv'
<1> DEFINE s == commit[c].session
           asked == Asked(s, selected)
           allowed == Allowed(asked)
           fresh == Fresh(asked, found)
           fingerprint == FingerprintOf(fresh, asked, allowed)
           docs == CommitRows(mode, fresh, asked, allowed)
<1>1. TypeOK /\ SessionFit /\ DataFit
  BY DEF IInv, SessionFit, DataFit
<1>2. commit[c] # None /\ commit[c] \in Commit /\ s \in Sessions
  BY <1>1 DEF Prepare, At, TypeOK, Commit
<1>3. asked \in [Codes -> Nat]
  BY <1>1, <1>2, AskedIsMultiple
<1>4. allowed \in [Codes -> Nat]
  BY <1>1, <1>3, AllowedIsLess DEF TypeOK
<1>5. fresh \in SUBSET Codes /\ \A x \in fresh : asked[x] > 0
  BY DEF Fresh
<1>6. /\ UNCHANGED <<sessionVars, jobs, attempt, popup, shop, history>>
      /\ IF fingerprint.cuts = {} \/ ReviewHolds(c, mode, fingerprint)
         THEN Carry(c, "prepared", docs)
         ELSE End(c)
  BY DEF Prepare
<1>7. CASE fingerprint.cuts = {} \/ ReviewHolds(c, mode, fingerprint)
  <2>1. fingerprint.cuts # {} =>
           commit[c].review = [mode |-> mode, fingerprint |-> fingerprint]
    BY <1>7 DEF ReviewHolds
  <2>2. ReviewAgreed(s, commit[c].review)
    BY <1>1, <1>2 DEF DataFit, CommitsFit, CommitFit
  <2>3. Fit(s, docs)
    BY <1>1, <1>2, <1>3, <1>4, <1>5, <2>1, <2>2, PrepareFits
  <2>4. docs \in SUBSET (Codes \X Nat)
    BY <1>4, <1>5 DEF CommitRows
  <2>5. Carry(c, "prepared", docs)
    BY <1>6, <1>7
  <2> HIDE DEF docs
  <2>6. /\ commit' \in [Commits -> {None} \cup Commit]
        /\ \A e \in Commits : commit'[e] # None => CommitFit(commit'[e])
    BY <1>1, <1>2, <2>3, <2>4, <2>5, CarryFits
  <2>7. QED
    BY <1>1, <1>6, <2>6, CommitsOnlyKept
<1>8. CASE ~(fingerprint.cuts = {} \/ ReviewHolds(c, mode, fingerprint))
  <2>1. End(c)
    BY <1>6, <1>8
  <2>2. /\ commit' \in [Commits -> {None} \cup Commit]
        /\ \A e \in Commits : commit'[e] # None => CommitFit(commit'[e])
    BY <1>1, <2>1, EndFits
  <2>3. QED
    BY <1>1, <1>6, <2>2, CommitsOnlyKept
<1>9. QED
  BY <1>7, <1>8

LEMMA FindNoRowsKeeps ==
    ASSUME IInv, NEW c \in Commits, NEW selected, NEW found, FindNoRows(c, selected, found)
    PROVE  IInv'
<1>1. TypeOK /\ SessionFit /\ DataFit
  BY DEF IInv, SessionFit, DataFit
<1>2. /\ commit[c] # None
      /\ Carry(c, "no_rows", {})
      /\ UNCHANGED <<sessionVars, jobs, attempt, popup, shop, history>>
  BY DEF FindNoRows, At
<1>3. /\ commit' \in [Commits -> {None} \cup Commit]
      /\ \A e \in Commits : commit'[e] # None => CommitFit(commit'[e])
  <2>1. Fit(commit[c].session, {}) /\ {} \in SUBSET (Codes \X Nat)
    BY DEF Fit
  <2>2. QED
    BY <1>1, <1>2, <2>1, CarryFits
<1>4. QED
  BY <1>1, <1>2, <1>3, CommitsOnlyKept

\* A step that changes nothing but statuses, and readies no session, keeps
\* what the invariant says of sessions.
LEMMA StatusesKept ==
    ASSUME SessionFit, UNCHANGED <<rows, attempt, begun, overlapped>>,
           \A s \in Sessions : status'[s] = "preview_ready" => status[s] = "preview_ready"
    PROVE  SessionFit'
BY DEF SessionFit, ReadyIsFresh, OneRun, RowsOnce, Live, Of

\* The steps that end a confirmation.
LEMMA EndKeeps ==
    ASSUME IInv, NEW c \in Commits, FailNoRows(c) \/ MarkDone(c) \/ Throw(c)
    PROVE  IInv'
<1>1. TypeOK /\ SessionFit /\ DataFit
  BY DEF IInv, SessionFit, DataFit
<1>2. PICK value \in {"done", "failed"} :
        /\ UNCHANGED <<review, rows, jobs, attempt, popup, shop, history>>
        /\ End(c)
        /\ status' = [status EXCEPT ![commit[c].session] = value]
  BY DEF FailNoRows, MarkDone, Throw, MarkFailed, SetStatus, history
<1>3. status' \in [Sessions -> STATUSES]
      /\ \A r \in Sessions : status'[r] = "preview_ready" => status[r] = "preview_ready"
  BY <1>1, <1>2 DEF TypeOK, STATUSES
<1>4. /\ commit' \in [Commits -> {None} \cup Commit]
      /\ \A e \in Commits : commit'[e] # None => CommitFit(commit'[e])
  BY <1>1, <1>2, EndFits
<1>5. TypeOK'
  BY <1>1, <1>2, <1>3, <1>4 DEF TypeOK, shop, history
<1>6. SessionFit'
  BY <1>1, <1>2, <1>3, StatusesKept DEF history
<1>7. DataFit'
  BY <1>1, <1>2, <1>4, CommitsKept DEF shop, history
<1>8. QED
  BY <1>5, <1>6, <1>7 DEF IInv, SessionFit, DataFit

LEMMA MarkImportingKeeps ==
    ASSUME IInv, NEW c \in Commits, MarkImporting(c)
    PROVE  IInv'
<1> DEFINE s == commit[c].session
<1>1. TypeOK /\ SessionFit /\ DataFit
  BY DEF IInv, SessionFit, DataFit
<1>2. commit[c] \in Commit /\ commit[c] # None /\ s \in Sessions
  BY <1>1 DEF MarkImporting, At, TypeOK, Commit
<1>3. UNCHANGED <<review, rows, jobs, attempt, popup, shop, overlapped, agreed, requests>>
  BY DEF MarkImporting
<1>4. CASE status[s] = "preview_ready"
  <2>1. /\ status' = [status EXCEPT ![s] = "importing"]
        /\ begun' = [begun EXCEPT ![s] = begun[s] + 1]
        /\ Carry(c, "importing", commit[c].docs)
    BY <1>4 DEF MarkImporting, ReadyFor, SetStatus
  <2>2. /\ commit' \in [Commits -> {None} \cup Commit]
        /\ \A e \in Commits : commit'[e] # None => CommitFit(commit'[e])
    <3>1. Fit(s, commit[c].docs) /\ commit[c].docs \in SUBSET (Codes \X Nat)
      BY <1>1, <1>2 DEF DataFit, CommitsFit, CommitFit, Commit
    <3>2. QED
      BY <1>1, <1>2, <2>1, <3>1, CarryFits
  <2>3. status' \in [Sessions -> STATUSES] /\ begun' \in [Sessions -> Nat]
    BY <1>1, <1>2, <2>1 DEF TypeOK, STATUSES
  <2>4. TypeOK'
    BY <1>1, <1>3, <2>2, <2>3 DEF TypeOK, shop
  <2>5. ReadyIsFresh'
    <3>1. begun[s] = 0
      BY <1>1, <1>2, <1>4 DEF SessionFit, ReadyIsFresh
    <3>2. QED
      BY <1>1, <1>2, <2>1, <3>1 DEF SessionFit, ReadyIsFresh, TypeOK
  <2>6. OneRun' /\ RowsOnce'
    BY <1>1, <1>3 DEF SessionFit, OneRun, RowsOnce, Live, Of
  <2>7. DataFit'
    BY <1>1, <1>3, <2>2, CommitsKept DEF shop
  <2>8. QED
    BY <2>4, <2>5, <2>6, <2>7 DEF IInv, DataFit
<1>5. CASE status[s] # "preview_ready"
  <2>1. End(c) /\ UNCHANGED <<status, begun>>
    BY <1>5 DEF MarkImporting, ReadyFor
  <2>2. /\ commit' \in [Commits -> {None} \cup Commit]
        /\ \A e \in Commits : commit'[e] # None => CommitFit(commit'[e])
    BY <1>1, <2>1, EndFits
  <2>3. TypeOK'
    BY <1>1, <1>3, <2>1, <2>2 DEF TypeOK, shop
  <2>4. SessionFit'
    BY <1>1, <1>3, <2>1, SessionKept
  <2>5. DataFit'
    BY <1>1, <1>3, <2>2, CommitsKept DEF shop
  <2>6. QED
    BY <2>3, <2>4, <2>5 DEF IInv, SessionFit, DataFit
<1>6. QED
  BY <1>4, <1>5

\* Fewer documents of a confirmation are fit too.
LEMMA FewerFit ==
    ASSUME NEW s, NEW docs, Fit(s, docs), NEW some \in SUBSET docs
    PROVE  Fit(s, some)
BY DEF Fit

LEMMA ReadExistingKeeps ==
    ASSUME IInv, NEW c \in Commits, ReadExisting(c)
    PROVE  IInv'
<1>1. TypeOK /\ SessionFit /\ DataFit
  BY DEF IInv, SessionFit, DataFit
<1>2. commit[c] \in Commit /\ commit[c] # None
  BY <1>1 DEF ReadExisting, At, TypeOK
<1>3. UNCHANGED <<sessionVars, jobs, attempt, popup, shop, history>>
  BY DEF ReadExisting
<1>4. PICK some \in SUBSET commit[c].docs : Carry(c, "writing", some)
  <2>1. PICK found : Carry(c, "writing", {d \in commit[c].docs : d[1] \notin found})
    BY DEF ReadExisting
  <2> DEFINE some == {d \in commit[c].docs : d[1] \notin found}
  <2>2. Carry(c, "writing", some) /\ some \in SUBSET commit[c].docs
    BY <2>1
  <2> HIDE DEF some
  <2>3. QED
    BY <2>2
<1>5. Fit(commit[c].session, some) /\ some \in SUBSET (Codes \X Nat)
  <2>1. Fit(commit[c].session, commit[c].docs) /\ commit[c].docs \in SUBSET (Codes \X Nat)
    BY <1>1, <1>2 DEF DataFit, CommitsFit, CommitFit, Commit
  <2>2. QED
    BY <2>1, FewerFit
<1>6. /\ commit' \in [Commits -> {None} \cup Commit]
      /\ \A e \in Commits : commit'[e] # None => CommitFit(commit'[e])
  BY <1>1, <1>2, <1>4, <1>5, CarryFits
<1>7. QED
  BY <1>1, <1>3, <1>6, CommitsOnlyKept

-----------------------------------------------------------------------------
(* Writing orders *)

\* The orders of a chunk, written for session s.
Written(s, chunk) == {[code |-> d[1], session |-> s, qty |-> d[2]] : d \in chunk}

LEMMA WrittenFit ==
    ASSUME TypeOK, DataFit, NEW s \in Sessions, NEW chunk \in SUBSET (Codes \X Nat),
           Fit(s, chunk), CodesFree(chunk),
           NEW more, more = orders \cup Written(s, chunk)
    PROVE  /\ more \subseteq Order
           /\ \A d, e \in more : d.code = e.code => d = e
           /\ \A d \in more : d.session \notin overlapped => d.qty <= Want[d.code]
           /\ \A d \in more : d.qty < Want[d.code] => AgreedCut(d.session, d.code, d.qty)
<1>1. ASSUME NEW d \in Written(s, chunk)
      PROVE  /\ d \in Order
             /\ d.session = s
             /\ d.code \notin Existing
             /\ \A e \in Written(s, chunk) : d.code = e.code => d = e
             /\ s \notin overlapped => d.qty <= Want[d.code]
             /\ d.qty < Want[d.code] => AgreedCut(s, d.code, d.qty)
  <2>1. PICK f \in chunk : d = [code |-> f[1], session |-> s, qty |-> f[2]]
    BY DEF Written
  <2>2. /\ d \in Order
        /\ d.session = s
        /\ d.code = f[1]
        /\ d.qty = f[2]
    BY <2>1 DEF Order
  <2>3. d.code \notin Existing
    BY <2>2 DEF CodesFree
  <2>4. ASSUME NEW e \in Written(s, chunk), d.code = e.code PROVE d = e
    <3>1. PICK g \in chunk : e = [code |-> g[1], session |-> s, qty |-> g[2]]
      BY DEF Written
    <3>2. f[1] = g[1]
      BY <2>2, <2>4, <3>1
    <3>3. f = g
      BY <3>2 DEF Fit
    <3>4. QED
      BY <2>1, <3>1, <3>3
  <2>5. /\ s \notin overlapped => f[2] <= Want[f[1]]
        /\ f[2] < Want[f[1]] => AgreedCut(s, f[1], f[2])
    BY DEF Fit
  <2>6. QED
    BY <2>2, <2>3, <2>4, <2>5
<1>2. \A d \in orders : d \in Order /\ d.code \in Existing
  BY DEF TypeOK, Existing
<1>3. more \subseteq Order
  BY <1>1, <1>2
<1>4. \A d, e \in more : d.code = e.code => d = e
  BY <1>1, <1>2 DEF DataFit, OrderImportedOnce
<1>5. \A d \in more : d.session \notin overlapped => d.qty <= Want[d.code]
  BY <1>1 DEF DataFit, NothingBeyondTheFile
<1>6. \A d \in more : d.qty < Want[d.code] => AgreedCut(d.session, d.code, d.qty)
  <2>1. \A d \in orders : d.qty < Want[d.code] => AgreedCut(d.session, d.code, d.qty)
    BY DEF DataFit, CutsWereConfirmed, AgreedCut
  <2>2. QED
    BY <1>1, <2>1
<1>7. QED
  BY <1>3, <1>4, <1>5, <1>6

LEMMA WriteChunkKeeps ==
    ASSUME IInv, NEW c \in Commits, WriteChunk(c)
    PROVE  IInv'
<1> DEFINE s == commit[c].session
<1>1. TypeOK /\ SessionFit /\ DataFit
  BY DEF IInv, SessionFit, DataFit
<1>2. commit[c] \in Commit /\ commit[c] # None
  BY <1>1 DEF WriteChunk, At, TypeOK
<1>3. UNCHANGED <<sessionVars, jobs, attempt, popup, moves, history>>
  BY DEF WriteChunk
<1>4. PICK chunk \in SUBSET commit[c].docs :
        /\ IF CodesFree(chunk) /\ InStock(Total(chunk))
           THEN /\ orders' = orders \cup Written(s, chunk)
                /\ stock' = stock - Total(chunk)
           ELSE UNCHANGED <<orders, stock>>
        /\ Carry(c, "writing", commit[c].docs \ chunk)
  BY DEF WriteChunk, Written, kSubset
<1>5. s \in Sessions /\ chunk \in SUBSET (Codes \X Nat)
      /\ commit[c].docs \ chunk \in SUBSET (Codes \X Nat)
  BY <1>2 DEF Commit
<1>6. /\ Fit(s, commit[c].docs)
      /\ Fit(s, chunk)
      /\ Fit(s, commit[c].docs \ chunk)
  BY <1>1, <1>2, FewerFit DEF DataFit, CommitsFit, CommitFit
<1>7. /\ commit' \in [Commits -> {None} \cup Commit]
      /\ \A e \in Commits : commit'[e] # None => CommitFit(commit'[e])
  BY <1>1, <1>2, <1>4, <1>5, <1>6, CarryFits
<1>8. SessionFit'
  BY <1>1, <1>3, SessionKept DEF sessionVars, history
<1>9. ReviewsAgreed' /\ PopupsAgreed'
  BY <1>1, <1>3 DEF DataFit, ReviewsAgreed, ReviewAgreed, PopupsAgreed, sessionVars, history
<1>10. CommitsFit'
  BY <1>3, <1>7 DEF CommitsFit, CommitFit, ReviewAgreed, Fit, AgreedCut, history
<1>11. CASE CodesFree(chunk) /\ InStock(Total(chunk))
  <2>1. orders' = orders \cup Written(s, chunk) /\ stock' = stock - Total(chunk)
    BY <1>4, <1>11
  <2>2. stock' \in Nat
    BY <1>1, <1>11, <2>1 DEF InStock, TypeOK
  <2>3. /\ orders' \subseteq Order
        /\ \A d, e \in orders' : d.code = e.code => d = e
        /\ \A d \in orders' : d.session \notin overlapped => d.qty <= Want[d.code]
        /\ \A d \in orders' : d.qty < Want[d.code] => AgreedCut(d.session, d.code, d.qty)
    BY <1>1, <1>5, <1>6, <1>11, <2>1, WrittenFit
  <2>4. TypeOK'
    BY <1>1, <1>3, <1>7, <2>2, <2>3 DEF TypeOK, sessionVars, history
  <2>5. OrderImportedOnce' /\ NothingBeyondTheFile' /\ CutsWereConfirmed'
    BY <1>3, <2>3 DEF OrderImportedOnce, NothingBeyondTheFile, CutsWereConfirmed,
       AgreedCut, history
  <2>6. QED
    BY <1>8, <1>9, <1>10, <2>4, <2>5 DEF IInv, SessionFit
<1>12. CASE ~(CodesFree(chunk) /\ InStock(Total(chunk)))
  <2>1. UNCHANGED <<orders, stock>>
    BY <1>4, <1>12
  <2>2. TypeOK'
    BY <1>1, <1>3, <1>7, <2>1 DEF TypeOK, sessionVars, history
  <2>3. OrderImportedOnce' /\ NothingBeyondTheFile' /\ CutsWereConfirmed'
    BY <1>1, <1>3, <2>1 DEF DataFit, OrderImportedOnce, NothingBeyondTheFile,
       CutsWereConfirmed, history
  <2>4. QED
    BY <1>8, <1>9, <1>10, <2>2, <2>3 DEF IInv, SessionFit
<1>13. QED
  BY <1>11, <1>12

LEMMA MoveStockKeeps ==
    ASSUME IInv, NEW qty \in Moves, MoveStock(qty)
    PROVE  IInv'
<1>1. TypeOK /\ SessionFit /\ DataFit
  BY DEF IInv, SessionFit, DataFit
<1>2. /\ UNCHANGED <<sessionVars, jobs, attempt, popup, commit, orders, history>>
      /\ qty <= stock
      /\ stock' = stock - qty
      /\ moves' = [count |-> moves.count + 1, sold |-> moves.sold + qty]
  BY DEF MoveStock
<1>3. stock' \in Nat
  BY <1>1, <1>2, ImportSessionAssumption DEF TypeOK
<1>4. moves' \in [count : Nat, sold : Int]
  BY <1>1, <1>2, ImportSessionAssumption DEF TypeOK
<1>5. TypeOK'
  BY <1>1, <1>2, <1>3, <1>4 DEF TypeOK, sessionVars, history
<1>6. SessionFit'
  BY <1>1, <1>2, SessionKept DEF sessionVars, history
<1>7. DataFit'
  BY <1>1, <1>2, DataKept DEF sessionVars, history
<1>8. QED
  BY <1>5, <1>6, <1>7 DEF IInv, SessionFit, DataFit

LEMMA RestartKeeps ==
    ASSUME IInv, Restart
    PROVE  IInv'
<1>1. TypeOK /\ SessionFit /\ DataFit
  BY DEF IInv, SessionFit, DataFit
<1>2. PICK recovered \in SUBSET {s \in Sessions : Stale(s)} :
        status' = [s \in Sessions |-> IF s \in recovered THEN "failed" ELSE status[s]]
  BY DEF Restart
<1>3. /\ commit' = [c \in Commits |-> None]
      /\ popup' = [u \in Popups |-> None]
      /\ UNCHANGED <<review, rows, jobs, attempt, shop, history>>
  BY DEF Restart
<1>4. status' \in [Sessions -> STATUSES]
      /\ \A s \in Sessions : status'[s] = "preview_ready" => status[s] = "preview_ready"
  BY <1>1, <1>2 DEF TypeOK, STATUSES
<1>5. TypeOK'
  BY <1>1, <1>3, <1>4 DEF TypeOK, shop, history
<1>6. SessionFit'
  BY <1>1, <1>3, <1>4, StatusesKept DEF history
<1>7. DataFit'
  BY <1>1, <1>3 DEF DataFit, ReviewsAgreed, ReviewAgreed, PopupsAgreed, CommitsFit, OrderImportedOnce,
     NothingBeyondTheFile, CutsWereConfirmed, shop, history
<1>8. QED
  BY <1>5, <1>6, <1>7 DEF IInv, SessionFit, DataFit

-----------------------------------------------------------------------------
(* All steps *)

LEMMA NextKeeps == IInv /\ [Next]_vars => IInv'
<1> SUFFICES ASSUME IInv, [Next]_vars PROVE IInv'
  OBVIOUS
<1>1. CASE \E a \in Attempts : PreviewStep(a)
  BY <1>1, StartPreviewKeeps, RunMarksKeeps, DeleteRowsKeeps, InsertRowsKeeps,
     PreviewReadyKeeps, RemoveFilesKeeps DEF PreviewStep
<1>2. CASE \E u \in Popups : PopupStep(u)
  BY <1>2, GetReviewKeeps, ConfirmReviewKeeps, UpdateShortageReviewKeeps, ClosePopupKeeps
  DEF PopupStep
<1>3. CASE \E c \in Commits : CommitStep(c)
  BY <1>3, OpenKeeps, PrepareKeeps, FindNoRowsKeeps, MarkImportingKeeps, ReadExistingKeeps,
     WriteChunkKeeps, EndKeeps DEF CommitStep, SelectAndRebuild
<1>4. CASE \E qty \in Moves : MoveStock(qty)
  BY <1>4, MoveStockKeeps
<1>5. CASE Restart
  BY <1>5, RestartKeeps
<1>6. CASE \E s \in Sessions : EndJob(s)
  BY <1>6, EndJobKeeps
<1>7. CASE UNCHANGED vars
  <2>1. TypeOK /\ SessionFit /\ DataFit
    BY DEF IInv, SessionFit, DataFit
  <2>2. TypeOK'
    BY <1>7, <2>1 DEF TypeOK, vars, sessionVars, shop, history
  <2>3. SessionFit'
    BY <1>7, <2>1, SessionKept DEF vars, sessionVars, history
  <2>4. DataFit'
    BY <1>7, <2>1, DataKept DEF vars, sessionVars, shop, history
  <2>5. QED
    BY <2>2, <2>3, <2>4 DEF IInv, SessionFit, DataFit
<1>8. QED
  BY <1>1, <1>2, <1>3, <1>4, <1>5, <1>6, <1>7 DEF Next

\* What the steps leave alone.
LEMMA PreviewStepLeaves ==
    ASSUME NEW a \in Attempts, PreviewStep(a)
    PROVE  UNCHANGED <<jobs, commit, popup, shop>>
BY DEF PreviewStep, StartPreview, MarkParsing, FailPreview, DeleteRows, InsertRows,
   PreviewReady, RemoveFiles, LosePreview

LEMMA PopupStepLeaves ==
    ASSUME NEW u \in Popups, PopupStep(u)
    PROVE  UNCHANGED <<status, jobs, attempt, commit, shop>>
BY DEF PopupStep, GetReview, ConfirmReview, UpdateShortageReview, ClosePopup, sessionVars

LEMMA CommitStepLeaves ==
    ASSUME NEW c \in Commits, CommitStep(c)
    PROVE  /\ UNCHANGED <<jobs, attempt>>
           /\ WriteChunk(c) \/ UNCHANGED shop
BY DEF CommitStep, Open, SelectAndRebuild, Prepare, FindNoRows, FailNoRows, MarkImporting,
   ReadExisting, WriteChunk, MarkDone, Throw

LEMMA OtherStepsLeave ==
    /\ \A s : EndJob(s) => UNCHANGED <<sessionVars, attempt, commit, shop>> /\ jobs' \subseteq jobs
    /\ \A qty : MoveStock(qty) => UNCHANGED <<sessionVars, jobs, attempt, commit>>
    /\ Restart => UNCHANGED <<jobs, attempt, shop>>
    /\ UNCHANGED vars => UNCHANGED <<sessionVars, jobs, attempt, commit, shop>>
BY DEF EndJob, MoveStock, Restart, vars

-----------------------------------------------------------------------------
(* The stock *)

Quantity(written) == SumFunctionOnSet([d \in written |-> d.qty], written)

StockIsLeft == stock = Opening - moves.sold - Quantity(orders)

\* Orders with codes of their own are finitely many, as the codes are.
LEMMA OrdersFinite ==
    ASSUME NEW written \in SUBSET Order, \A d, e \in written : d.code = e.code => d = e
    PROVE  IsFiniteSet(written)
<1> DEFINE code == [d \in written |-> d.code]
<1>1. code \in Injection(written, Codes)
  BY DEF Order, Injection, IsInjective
<1>2. QED
  BY <1>1, FS_Injection, ImportSessionAssumption

\* The sum over some orders does not depend on which others are written.
LEMMA QuantityOf ==
    ASSUME NEW written \in SUBSET Order, IsFiniteSet(written), NEW f,
           \A d \in written : f[d] = d.qty
    PROVE  Quantity(written) = SumFunctionOnSet(f, written)
<1> DEFINE g == [d \in written |-> d.qty]
<1>1. IntsOn(g, written) /\ \A d \in written : g[d] = f[d]
  BY DEF IntsOn, Order
<1> HIDE DEF g
<1>2. SumFunctionOnSet(g, written) = SumFunctionOnSet(f, written)
  BY <1>1, SumAgrees
<1>3. QED
  BY <1>2 DEF Quantity, g

LEMMA QuantityInt ==
    ASSUME NEW written \in SUBSET Order, IsFiniteSet(written)
    PROVE  Quantity(written) \in Int
<1> DEFINE f == [d \in written |-> d.qty]
<1>1. IntsOn(f, written)
  BY DEF IntsOn, Order
<1> HIDE DEF f
<1>2. SumFunctionOnSet(f, written) \in Int
  BY <1>1, SumInt
<1>3. QED
  BY <1>2 DEF Quantity, f

LEMMA QuantityAdds ==
    ASSUME NEW old \in SUBSET Order, NEW new \in SUBSET Order, IsFiniteSet(old),
           IsFiniteSet(new), old \cap new = {}
    PROVE  Quantity(old \cup new) = Quantity(old) + Quantity(new)
<1> DEFINE f == [d \in Order |-> d.qty]
<1>1. IntsOn(f, old) /\ IntsOn(f, new)
  BY DEF IntsOn, Order
<1>2. (\A d \in old : f[d] = d.qty) /\ (\A d \in new : f[d] = d.qty)
  OBVIOUS
<1>3. \A d \in old \cup new : f[d] = d.qty
  OBVIOUS
<1> HIDE DEF f
<1>4. SumFunctionOnSet(f, old \cup new) = SumFunctionOnSet(f, old) + SumFunctionOnSet(f, new)
  BY <1>1, SumUnion
<1>5. Quantity(old) = SumFunctionOnSet(f, old) /\ Quantity(new) = SumFunctionOnSet(f, new)
  BY <1>2, QuantityOf
<1>6. IsFiniteSet(old \cup new) /\ old \cup new \in SUBSET Order
  BY FS_Union
<1>7. Quantity(old \cup new) = SumFunctionOnSet(f, old \cup new)
  BY <1>3, <1>6, QuantityOf
<1>8. QED
  BY <1>4, <1>5, <1>7

\* What a chunk takes from the stock is what its orders are for.
LEMMA ChunkTotal ==
    ASSUME NEW s \in Sessions, NEW chunk \in SUBSET (Codes \X Nat),
           IsFiniteSet(Written(s, chunk))
    PROVE  Total(chunk) = Quantity(Written(s, chunk))
<1> DEFINE W == Written(s, chunk)
           f == [d \in W |-> d.qty]
           g == [d \in chunk |-> d[2]]
           h == [d \in W |-> <<d.code, d.qty>>]
<1>1. ASSUME NEW d \in W
      PROVE  /\ <<d.code, d.qty>> \in chunk
             /\ d.qty \in Int
             /\ d = [code |-> d.code, session |-> s, qty |-> d.qty]
  BY DEF Written
<1>2. IntsOn(f, W) /\ \A d \in W : g[h[d]] = f[d]
  BY <1>1 DEF IntsOn
<1>3. \A d, e \in W : h[d] = h[e] => d = e
  BY <1>1
<1>4. {h[d] : d \in W} = chunk
  <2>1. ASSUME NEW x \in chunk
        PROVE  \E d \in W : h[d] = x
    <3>1. [code |-> x[1], session |-> s, qty |-> x[2]] \in W
      BY DEF Written
    <3>2. x = <<x[1], x[2]>>
      OBVIOUS
    <3>3. QED
      BY <3>1, <3>2
  <2>2. QED
    BY <1>1, <2>1
<1> HIDE DEF f, g, h, W
<1>5. SumFunctionOnSet(g, {h[d] : d \in W}) = SumFunctionOnSet(f, W)
  BY <1>2, <1>3, SumRenamed DEF W
<1>6. QED
  BY <1>4, <1>5 DEF Total, Quantity, f, g, W

LEMMA WriteChunkKeepsStock ==
    ASSUME IInv, IInv', StockIsLeft, NEW c \in Commits, WriteChunk(c)
    PROVE  StockIsLeft'
<1> DEFINE s == commit[c].session
<1>1. TypeOK /\ commit[c] \in Commit /\ s \in Sessions
  BY DEF IInv, WriteChunk, At, TypeOK, Commit
<1>2. PICK chunk \in SUBSET commit[c].docs :
        IF CodesFree(chunk) /\ InStock(Total(chunk))
        THEN /\ orders' = orders \cup Written(s, chunk)
             /\ stock' = stock - Total(chunk)
        ELSE UNCHANGED <<orders, stock>>
  BY DEF WriteChunk, Written, kSubset
<1>3. moves' = moves /\ chunk \in SUBSET (Codes \X Nat)
  BY <1>1 DEF WriteChunk, Commit
<1>4. CASE ~(CodesFree(chunk) /\ InStock(Total(chunk)))
  BY <1>2, <1>3, <1>4 DEF StockIsLeft
<1>5. CASE CodesFree(chunk) /\ InStock(Total(chunk))
  <2> DEFINE W == Written(s, chunk)
  <2>1. orders' = orders \cup W /\ stock' = stock - Total(chunk)
    BY <1>2, <1>5
  <2>2. orders \in SUBSET Order /\ orders' \in SUBSET Order /\ W \in SUBSET Order
    BY <2>1 DEF IInv, TypeOK
  <2>3. IsFiniteSet(orders')
    BY <2>2, OrdersFinite DEF IInv, OrderImportedOnce
  <2>4. IsFiniteSet(orders) /\ IsFiniteSet(W)
    BY <2>1, <2>3, FS_Subset
  <2>5. orders \cap W = {}
    BY <1>5 DEF CodesFree, Existing, Written
  <2>6. Quantity(orders') = Quantity(orders) + Quantity(W)
    BY <2>1, <2>2, <2>4, <2>5, QuantityAdds
  <2>7. Total(chunk) = Quantity(W)
    BY <1>1, <1>3, <2>4, ChunkTotal
  <2>8. Quantity(orders) \in Int /\ Quantity(W) \in Int
    BY <2>2, <2>4, QuantityInt
  <2>9. Opening \in Int /\ moves.sold \in Int
    BY <1>1, ImportSessionAssumption DEF TypeOK
  <2> HIDE DEF W
  <2> DEFINE o == Quantity(orders)
             q == Quantity(W)
  <2>10. Quantity(orders') = o + q
    BY <2>6
  <2>11. stock' = stock - q /\ stock = Opening - moves.sold - o
    BY <2>1, <2>7 DEF StockIsLeft
  <2>12. o \in Int /\ q \in Int
    BY <2>8
  <2> HIDE DEF o, q
  <2>13. stock' = Opening - moves.sold - Quantity(orders')
    BY <2>9, <2>10, <2>11, <2>12
  <2>14. QED
    BY <1>3, <2>13 DEF StockIsLeft
<1>6. QED
  BY <1>4, <1>5

LEMMA StockInvariant == IInv /\ IInv' /\ StockIsLeft /\ [Next]_vars => StockIsLeft'
<1> SUFFICES ASSUME IInv, IInv', StockIsLeft, [Next]_vars PROVE StockIsLeft'
  OBVIOUS
<1>1. CASE \E c \in Commits : WriteChunk(c)
  BY <1>1, WriteChunkKeepsStock
<1>2. CASE \E qty \in Moves : MoveStock(qty)
  <2>1. PICK qty \in Moves : MoveStock(qty)
    BY <1>2
  <2>2. /\ orders' = orders
        /\ stock' = stock - qty
        /\ moves'.sold = moves.sold + qty
    BY <2>1 DEF MoveStock
  <2> DEFINE o == Quantity(orders)
  <2>3. stock = Opening - moves.sold - o
    BY DEF StockIsLeft
  <2>4. o \in Int
    <3>1. IsFiniteSet(orders) /\ orders \in SUBSET Order
      BY OrdersFinite DEF IInv, TypeOK, OrderImportedOnce
    <3>2. QED
      BY <3>1, QuantityInt
  <2>5. Opening \in Int /\ moves.sold \in Int /\ qty \in Int
    BY ImportSessionAssumption DEF IInv, TypeOK
  <2> HIDE DEF o
  <2>6. stock' = Opening - moves'.sold - o
    BY <2>2, <2>3, <2>4, <2>5
  <2>7. QED
    BY <2>2, <2>6 DEF StockIsLeft, o
<1>3. CASE UNCHANGED shop
  BY <1>3 DEF shop, StockIsLeft
<1>4. (\E c \in Commits : WriteChunk(c)) \/ (\E qty \in Moves : MoveStock(qty)) \/ UNCHANGED shop
  BY PreviewStepLeaves, PopupStepLeaves, CommitStepLeaves, OtherStepsLeave DEF Next
<1>5. QED
  BY <1>1, <1>2, <1>3, <1>4

-----------------------------------------------------------------------------
(***************************************************************************)
(* The allocation, against what it is to be: all that is asked for if the  *)
(* stock is enough, else all of the stock.  By induction along the order   *)
(* of the file: `Before(n)` are the orders that come before position n.    *)
(***************************************************************************)
Before(n) == {x \in Codes : x < n}

LEMMA CodesEnd == \E n \in Nat : Before(n) = Codes
<1> DEFINE F == {T \in SUBSET Codes : \E n \in Nat : \A x \in T : x < n}
<1>1. {} \in F
  OBVIOUS
<1>2. ASSUME NEW T \in SUBSET Codes, NEW x \in Codes, T \in F, x \notin T
      PROVE  T \cup {x} \in F
  <2>1. PICK n \in Nat : \A y \in T : y < n
    BY <1>2
  <2>2. x \in Nat /\ T \in SUBSET Nat
    BY ImportSessionAssumption
  <2>3. \A y \in T \cup {x} : y < n + x + 1
    BY <2>1, <2>2
  <2>4. n + x + 1 \in Nat
    BY <2>2
  <2>5. QED
    BY <2>3, <2>4
<1>3. Codes \in F
  <2> HIDE DEF F
  <2>1. QED
    BY <1>1, <1>2, ImportSessionAssumption, InductiveFamily
<1>4. QED
  BY <1>3 DEF Before

\* What the orders before a position ask for, and what they get.
LEMMA BeforeNext ==
    ASSUME NEW n \in Nat
    PROVE  /\ n \in Codes => Before(n + 1) = Before(n) \cup {n}
           /\ n \notin Codes => Before(n + 1) = Before(n)
           /\ n \notin Before(n)
           /\ IsFiniteSet(Before(n))
<1>1. Codes \subseteq Nat /\ IsFiniteSet(Codes)
  BY ImportSessionAssumption
<1>2. \A x \in Nat : (x < n + 1 <=> x < n \/ x = n) /\ ~(n < n)
  OBVIOUS
<1>3. \A x : x \in Before(n + 1) <=> x \in Before(n) \/ (x = n /\ n \in Codes)
  BY <1>1, <1>2 DEF Before
<1>4. n \notin Before(n) /\ Before(n) \in SUBSET Codes
  BY DEF Before
<1>5. IsFiniteSet(Before(n))
  BY <1>1, <1>4, FS_Subset
<1>6. (n \in Codes => Before(n + 1) = Before(n) \cup {n})
      /\ (n \notin Codes => Before(n + 1) = Before(n))
  BY <1>3
<1>7. QED
  BY <1>4, <1>5, <1>6

LEMMA GivenOutBefore ==
    ASSUME stock \in Nat, NEW asked \in [Codes -> Nat], NEW n \in Nat
    PROVE  SumFunctionOnSet(Allowed(asked), Before(n)) =
             IF AskedBefore(n, asked) <= stock THEN AskedBefore(n, asked) ELSE stock
<1> DEFINE given(k) == SumFunctionOnSet(Allowed(asked), Before(k))
           wanted(k) == AskedBefore(k, asked)
           N == {k \in Nat : given(k) = IF wanted(k) <= stock THEN wanted(k) ELSE stock}
<1>1. Allowed(asked) \in [Codes -> Nat]
  BY AllowedIsLess
<1>2. \A k \in Nat : IntsOn(asked, Before(k)) /\ IntsOn(Allowed(asked), Before(k))
  BY <1>1 DEF IntsOn, Before
<1>3. \A k \in Nat : wanted(k) = SumFunctionOnSet(asked, Before(k))
  BY DEF AskedBefore, Before
<1>4. ASSUME NEW k \in Nat
      PROVE  wanted(k) \in Nat
  <2>1. \A x \in Before(k) : asked[x] \in Nat
    BY DEF Before
  <2>2. SumFunctionOnSet(asked, Before(k)) \in Nat
    BY <2>1, BeforeNext, SumNat
  <2>3. QED
    BY <1>3, <2>2
<1>5. 0 \in N
  <2>1. Before(0) = {}
    <3>1. \A x \in Nat : ~(x < 0)
      OBVIOUS
    <3>2. QED
      BY <3>1, ImportSessionAssumption DEF Before
  <2>2. given(0) = 0 /\ wanted(0) = 0
    BY <1>3, <2>1, SumEmpty
  <2>3. QED
    BY <2>2
<1>6. ASSUME NEW k \in N
      PROVE  k + 1 \in N
  <2>1. k \in Nat /\ k + 1 \in Nat /\ given(k) = IF wanted(k) <= stock THEN wanted(k) ELSE stock
    OBVIOUS
  <2>2. CASE k \notin Codes
    <3>1. given(k + 1) = given(k) /\ wanted(k + 1) = wanted(k)
      BY <1>3, <2>1, <2>2, BeforeNext
    <3>2. QED
      BY <2>1, <3>1
  <2>3. CASE k \in Codes
    <3> DEFINE a == asked[k]
               g == Allowed(asked)[k]
    <3>1. a \in Nat /\ g \in Nat
      BY <1>1, <2>3
    <3>2. wanted(k + 1) = a + wanted(k)
      BY <1>2, <1>3, <2>1, <2>3, <3>1, BeforeNext, SumPutIn
    <3>3. given(k + 1) = g + given(k)
      BY <1>2, <2>1, <2>3, <3>1, BeforeNext, SumPutIn
    <3>4. g = IF a <= Left(k, asked) THEN a ELSE Left(k, asked)
      BY <2>3 DEF Allowed
    <3>5. Left(k, asked) = IF wanted(k) <= stock THEN stock - wanted(k) ELSE 0
      BY <1>4, <2>1 DEF Left
    <3>6. wanted(k) \in Nat
      BY <1>4, <2>1
    <3> HIDE DEF a, g, given, wanted
    <3>7. given(k + 1) = IF wanted(k + 1) <= stock THEN wanted(k + 1) ELSE stock
      BY <2>1, <3>1, <3>2, <3>3, <3>4, <3>5, <3>6
    <3>8. QED
      BY <2>1, <3>7
  <2>4. QED
    BY <2>2, <2>3
<1>7. N = Nat
  <2> HIDE DEF N
  <2>1. N \in SUBSET Nat
    BY DEF N
  <2>2. QED
    BY <1>5, <1>6, <2>1, InductiveSet
<1>8. QED
  BY <1>7

\* The review gives out the stock to the last piece: the quantities that it
\* allows come to what is asked for, or to the stock if that is less.
THEOREM StockIsGivenOut ==
    ASSUME TypeOK, NEW asked \in [Codes -> Nat]
    PROVE  SumFunctionOnSet(Allowed(asked), Codes) =
             IF SumFunctionOnSet(asked, Codes) <= stock
             THEN SumFunctionOnSet(asked, Codes) ELSE stock
<1>1. PICK n \in Nat : Before(n) = Codes
  BY CodesEnd
<1>2. AskedBefore(n, asked) = SumFunctionOnSet(asked, Codes)
  BY <1>1 DEF AskedBefore, Before
<1>3. stock \in Nat
  BY DEF TypeOK
<1>4. QED
  BY <1>1, <1>2, <1>3, GivenOutBefore

\* A confirmation is about to write no more than was in stock when it read:
\* only what moved since makes one of its chunks fail.
THEOREM RowsFitStock ==
    ASSUME TypeOK, NEW asked \in [Codes -> Nat], NEW mode \in MODES, NEW found
    PROVE  Total(CommitRows(mode, Fresh(asked, found), asked, Allowed(asked))) <= stock
<1> DEFINE allowed == Allowed(asked)
           fresh == Fresh(asked, found)
           taken == {x \in fresh : allowed[x] > 0
                       /\ (mode = "exclude_shortage_orders" => allowed[x] = asked[x])}
           rowsOf == CommitRows(mode, fresh, asked, allowed)
           g == [d \in rowsOf |-> d[2]]
           h == [x \in taken |-> <<x, allowed[x]>>]
<1>1. stock \in Nat /\ allowed \in [Codes -> Nat] /\ IsFiniteSet(Codes)
  BY AllowedIsLess, ImportSessionAssumption DEF TypeOK
<1>2. rowsOf = {h[x] : x \in taken}
  BY DEF CommitRows
<1>3. IsFiniteSet(taken) /\ IntsOn(allowed, taken) /\ IntsOn(allowed, Codes)
  BY <1>1, FS_Subset DEF IntsOn, Fresh
<1>4. \A x \in taken : g[h[x]] = allowed[x]
  BY <1>2
<1>5. \A x, y \in taken : h[x] = h[y] => x = y
  OBVIOUS
<1>6. Total(rowsOf) = SumFunctionOnSet(g, rowsOf)
  BY DEF Total
<1>7. taken \in SUBSET Codes /\ \A x \in Codes \ taken : allowed[x] \in Nat
  BY <1>1 DEF Fresh
<1> HIDE DEF allowed, fresh, taken, rowsOf, g, h
<1>8. SumFunctionOnSet(g, {h[x] : x \in taken}) = SumFunctionOnSet(allowed, taken)
  BY <1>3, <1>4, <1>5, SumRenamed
<1>9. SumFunctionOnSet(allowed, taken) <= SumFunctionOnSet(allowed, Codes)
  BY <1>1, <1>3, <1>7, SumOfPart
<1>10. SumFunctionOnSet(allowed, Codes) <= stock
  <2> DEFINE wanted == SumFunctionOnSet(asked, Codes)
  <2>1. wanted \in Int
    <3>1. IntsOn(asked, Codes)
      BY DEF IntsOn
    <3>2. QED
      BY <1>1, <3>1, SumInt
  <2>2. SumFunctionOnSet(allowed, Codes) = IF wanted <= stock THEN wanted ELSE stock
    BY StockIsGivenOut DEF allowed
  <2> HIDE DEF wanted
  <2>3. QED
    BY <1>1, <2>1, <2>2
<1>11. SumFunctionOnSet(allowed, taken) \in Int /\ SumFunctionOnSet(allowed, Codes) \in Int
  BY <1>1, <1>3, SumInt
<1>12. Total(rowsOf) <= stock
  BY <1>1, <1>2, <1>6, <1>8, <1>9, <1>10, <1>11
<1>13. QED
  BY <1>12 DEF rowsOf, fresh, allowed

-----------------------------------------------------------------------------
(***************************************************************************)
(* Sessions at rest: only a live run of the preview or a confirmation      *)
(* writes a session that is done, and neither comes about on one whose job *)
(* cannot get as far as the session any more.                              *)
(***************************************************************************)
CommittedOn(s) == \E c \in Commits : commit[c] # None /\ commit[c].session = s

\* A run keeps its session, and changes no more once it has ended.
LEMMA RunsChange ==
    ASSUME TypeOK, [Next]_vars, NEW a \in Attempts, attempt[a] # None
    PROVE  \/ attempt'[a] = attempt[a]
           \/ Live(a) /\ attempt'[a].session = attempt[a].session
           \/ attempt[a].pc = "saved" /\ attempt'[a].pc = "ended"
<1>1. ASSUME NEW b \in Attempts, NEW pc, Live(b), Step(b, pc)
      PROVE  \/ attempt'[a] = attempt[a]
             \/ Live(a) /\ attempt'[a].session = attempt[a].session
  <2>1. CASE b = a
    <3>1. attempt[a] \in Attempt /\ attempt'[a] = [attempt[a] EXCEPT !.pc = pc]
      BY <1>1, <2>1 DEF Step, TypeOK
    <3>2. QED
      BY <1>1, <2>1, <3>1 DEF Attempt
  <2>2. CASE b # a
    BY <1>1, <2>2 DEF Step, TypeOK
  <2>3. QED
    BY <2>1, <2>2
<1>2. ASSUME NEW b \in Attempts, NEW s \in Sessions, StartPreview(b, s)
      PROVE  attempt'[a] = attempt[a]
  BY <1>2 DEF StartPreview, TypeOK
<1>3. ASSUME NEW b \in Attempts, RemoveFiles(b)
      PROVE  attempt'[a] = attempt[a] \/ (attempt[a].pc = "saved" /\ attempt'[a].pc = "ended")
  BY <1>3 DEF RemoveFiles, Step, TypeOK, Attempt
<1>4. ASSUME NEW b \in Attempts, PreviewStep(b)
      PROVE  \/ \E s \in Sessions : StartPreview(b, s)
             \/ RemoveFiles(b)
             \/ \E pc : Live(b) /\ Step(b, pc)
  BY <1>4 DEF PreviewStep, MarkParsing, FailPreview, DeleteRows, InsertRows, PreviewReady,
     LosePreview
<1>5. (\E b \in Attempts : PreviewStep(b)) \/ attempt' = attempt
  BY PopupStepLeaves, CommitStepLeaves, OtherStepsLeave DEF Next
<1>6. QED
  BY <1>1, <1>2, <1>3, <1>4, <1>5

LEMMA FilesStayGone ==
    ASSUME TypeOK, [Next]_vars, NEW s \in Sessions, FilesGone(s)
    PROVE  FilesGone(s)'
<1>1. PICK a \in Attempts : Of(a, s) /\ attempt[a].pc = "ended"
  BY DEF FilesGone
<1>2. attempt'[a] = attempt[a]
  BY <1>1, RunsChange DEF Of, Live
<1>3. QED
  BY <1>1, <1>2 DEF FilesGone, Of

LEMMA JobsEnd == [Next]_vars => jobs' \subseteq jobs
BY PreviewStepLeaves, PopupStepLeaves, CommitStepLeaves, OtherStepsLeave DEF Next

\* A confirmation keeps its session, and is opened on one that is ready.
LEMMA CommitsChange ==
    ASSUME TypeOK, [Next]_vars, NEW s \in Sessions, CommittedOn(s)'
    PROVE  CommittedOn(s) \/ status[s] = "preview_ready"
<1>1. PICK e \in Commits : commit'[e] # None /\ commit'[e].session = s
  BY DEF CommittedOn
<1>2. ASSUME NEW c \in Commits, NEW i \in Sessions, Open(c, i)
      PROVE  CommittedOn(s) \/ status[s] = "preview_ready"
  <2>1. PICK r : /\ status[i] = "preview_ready"
                 /\ commit' = [commit EXCEPT ![c] =
                       [session |-> i, pc |-> "opened", docs |-> {}, review |-> r]]
    BY <1>2 DEF Open
  <2>2. CASE e = c
    BY <1>1, <2>1, <2>2 DEF TypeOK
  <2>3. CASE e # c
    BY <1>1, <2>1, <2>3 DEF TypeOK, CommittedOn
  <2>4. QED
    BY <2>2, <2>3
<1>3. ASSUME NEW c \in Commits, End(c)
      PROVE  CommittedOn(s)
  BY <1>1, <1>3 DEF CommittedOn, TypeOK, End
<1>4. ASSUME NEW c \in Commits, NEW pc, NEW docs, commit[c] # None, Carry(c, pc, docs)
      PROVE  CommittedOn(s)
  <2> DEFINE new == [session |-> commit[c].session, pc |-> pc, docs |-> docs, review |-> None]
  <2>1. new.session = commit[c].session /\ commit' = [commit EXCEPT ![c] = new]
    BY <1>4 DEF Carry
  <2> HIDE DEF new
  <2>2. QED
    BY <1>1, <1>4, <2>1 DEF CommittedOn, TypeOK
<1>5. ASSUME NEW c \in Commits, SelectAndRebuild(c)
      PROVE  CommittedOn(s)
  <2>1. commit[c] # None
    BY <1>5 DEF SelectAndRebuild, At
  <2>2. (\E docs : Carry(c, "prepared", docs)) \/ Carry(c, "no_rows", {}) \/ End(c)
    BY <1>5 DEF SelectAndRebuild, Prepare, FindNoRows
  <2>3. QED
    BY <1>3, <1>4, <2>1, <2>2
<1>6. ASSUME NEW c \in Commits, MarkImporting(c) \/ ReadExisting(c) \/ WriteChunk(c)
      PROVE  CommittedOn(s)
  <2>1. commit[c] # None
    BY <1>6 DEF MarkImporting, ReadExisting, WriteChunk, At
  <2>2. (\E pc, docs : Carry(c, pc, docs)) \/ End(c)
    BY <1>6 DEF MarkImporting, ReadExisting, WriteChunk
  <2>3. QED
    BY <1>3, <1>4, <2>1, <2>2
<1>7. ASSUME NEW c \in Commits, FailNoRows(c) \/ MarkDone(c) \/ Throw(c)
      PROVE  CommittedOn(s)
  BY <1>3, <1>7 DEF FailNoRows, MarkDone, Throw
<1>8. CASE Restart
  BY <1>1, <1>8 DEF Restart
<1>9. CASE commit' = commit
  BY <1>1, <1>9 DEF CommittedOn
<1>10. (\E c \in Commits : CommitStep(c)) \/ Restart \/ commit' = commit
  BY PreviewStepLeaves, PopupStepLeaves, OtherStepsLeave DEF Next
<1>11. QED
  BY <1>2, <1>5, <1>6, <1>7, <1>8, <1>9, <1>10 DEF CommitStep

\* No run of the preview of a session at rest gets started or goes on.
LEMMA NoRunAtRest ==
    ASSUME TypeOK, [Next]_vars, NEW s \in Sessions, AtRest(s), NEW b \in Attempts, Of(b, s)'
    PROVE  ~Live(b)'
<1>1. CASE attempt[b] # None
  BY <1>1, RunsChange DEF AtRest, Of, Live
<1>2. CASE attempt[b] = None
  <2>1. ASSUME NEW run \in Attempts, attempt[run] # None, NEW pc, Step(run, pc)
        PROVE  attempt'[b] = attempt[b]
    BY <1>2, <2>1 DEF Step, TypeOK
  <2>2. attempt'[b] # attempt[b]
    BY <1>2 DEF Of
  <2>3. PICK run \in Attempts, i \in Sessions : StartPreview(run, i)
    <3>1. PICK run \in Attempts : PreviewStep(run)
      BY <2>2, PopupStepLeaves, CommitStepLeaves, OtherStepsLeave DEF Next
    <3>2. (\E i \in Sessions : StartPreview(run, i))
          \/ (attempt[run] # None /\ \E pc : Step(run, pc))
      BY <3>1 DEF PreviewStep, MarkParsing, FailPreview, DeleteRows, InsertRows, PreviewReady,
         RemoveFiles, LosePreview, Live
    <3>3. QED
      BY <2>1, <2>2, <3>2
  <2>4. run = b /\ i = s
    BY <2>2, <2>3 DEF StartPreview, Of, TypeOK
  <2>5. QED
    BY <2>3, <2>4 DEF StartPreview, AtRest
<1>3. QED
  BY <1>1, <1>2

LEMMA DoneAtRest ==
    ASSUME TypeOK, [Next]_vars, NEW s \in Sessions, AtRest(s)
    PROVE  status'[s] = "done"
<1>1. ASSUME NEW i \in Sessions, i # s, NEW value, SetStatus(i, value)
      PROVE  status'[s] = status[s]
  BY <1>1 DEF SetStatus, TypeOK
<1>2. ASSUME NEW b \in Attempts, MarkParsing(b) \/ FailPreview(b) \/ PreviewReady(b)
      PROVE  status'[s] = status[s]
  <2>1. Live(b) /\ attempt[b] \in Attempt /\ attempt[b] # None
    BY <1>2 DEF MarkParsing, FailPreview, PreviewReady, Live, TypeOK
  <2>2. attempt[b].session # s /\ attempt[b].session \in Sessions
    BY <2>1 DEF AtRest, Of, Attempt
  <2>3. \E value : SetStatus(attempt[b].session, value)
    BY <1>2 DEF MarkParsing, FailPreview, PreviewReady, MarkFailed
  <2>4. QED
    BY <1>1, <2>2, <2>3
<1>3. ASSUME NEW c \in Commits, FailNoRows(c) \/ MarkImporting(c) \/ MarkDone(c) \/ Throw(c)
      PROVE  status'[s] = status[s]
  <2>1. commit[c] # None /\ commit[c] \in Commit
    BY <1>3 DEF FailNoRows, MarkImporting, MarkDone, Throw, At, TypeOK
  <2>2. commit[c].session # s /\ commit[c].session \in Sessions
    BY <2>1 DEF AtRest, Commit
  <2>3. (\E value : SetStatus(commit[c].session, value)) \/ status' = status
    BY <1>3 DEF FailNoRows, MarkImporting, MarkDone, Throw, MarkFailed
  <2>4. QED
    BY <1>1, <2>2, <2>3
<1>4. ASSUME Restart
      PROVE  status'[s] = status[s]
  <2>1. PICK recovered \in SUBSET {i \in Sessions : Stale(i)} :
          status' = [i \in Sessions |-> IF i \in recovered THEN "failed" ELSE status[i]]
    BY <1>4 DEF Restart
  <2>2. s \notin recovered
    BY <2>1 DEF Stale, AtRest
  <2>3. QED
    BY <2>1, <2>2
<1>5. ASSUME NEW b \in Attempts, PreviewStep(b)
      PROVE  status'[s] = status[s]
  <2>1. (MarkParsing(b) \/ FailPreview(b) \/ PreviewReady(b)) \/ status' = status
    BY <1>5 DEF PreviewStep, StartPreview, DeleteRows, InsertRows, RemoveFiles, LosePreview,
       sessionVars
  <2>2. QED
    BY <1>2, <2>1
<1>6. ASSUME NEW c \in Commits, CommitStep(c)
      PROVE  status'[s] = status[s]
  <2>1. (FailNoRows(c) \/ MarkImporting(c) \/ MarkDone(c) \/ Throw(c)) \/ status' = status
    BY <1>6 DEF CommitStep, Open, SelectAndRebuild, Prepare, FindNoRows, ReadExisting,
       WriteChunk, sessionVars
  <2>2. QED
    BY <1>3, <2>1
<1>7. \/ (\E b \in Attempts : PreviewStep(b)) \/ (\E c \in Commits : CommitStep(c))
      \/ Restart
      \/ status' = status
  BY PopupStepLeaves, OtherStepsLeave DEF Next, sessionVars
<1>8. status'[s] = status[s]
  BY <1>4, <1>5, <1>6, <1>7
<1>9. QED
  BY <1>8 DEF AtRest

LEMMA RestStep ==
    ASSUME TypeOK, [Next]_vars, NEW s \in Sessions, AtRest(s)
    PROVE  AtRest(s)'
<1>1. status'[s] = "done"
  BY DoneAtRest
<1>2. (s \notin jobs \/ FilesGone(s))'
  BY FilesStayGone, JobsEnd DEF AtRest
<1>3. \A b \in Attempts : ~(Of(b, s) /\ Live(b))'
  BY NoRunAtRest
<1>4. \A c \in Commits : commit'[c] # None => commit'[c].session # s
  <2>1. ~CommittedOn(s)'
    BY CommitsChange DEF AtRest, CommittedOn
  <2>2. QED
    BY <2>1 DEF CommittedOn
<1>5. QED
  BY <1>1, <1>2, <1>3, <1>4 DEF AtRest

-----------------------------------------------------------------------------
(* The theorems *)

\* Sessions, rows, reviews and what confirmations hold agree throughout, as
\* IInv says.
THEOREM InvariantHolds == Spec => []IInv
BY InitEstablishes, NextKeeps, PTL DEF Spec

\* Type correctness; in particular the stock is never negative, whatever the
\* imports decided on.
THEOREM TypeCorrect == Spec => []TypeOK
<1>1. IInv => TypeOK
  BY DEF IInv
<1>2. QED
  BY <1>1, InvariantHolds, PTL

\* Of all the confirmations of one preview, one takes the session over.
THEOREM PreviewImportedOnce == Spec => []OneImportPerPreview
<1>1. IInv => OneImportPerPreview
  BY DEF IInv, ReadyIsFresh, OneImportPerPreview
<1>2. QED
  BY <1>1, InvariantHolds, PTL

\* Nobody's order is cut without a user of its session having agreed to
\* exactly that cut.
THEOREM CutsConfirmed == Spec => []CutsWereConfirmed
<1>1. IInv => CutsWereConfirmed
  BY DEF IInv
<1>2. QED
  BY <1>1, InvariantHolds, PTL

\* No order is written for more than its file says, unless two runs of the
\* session's preview overlapped.
THEOREM FileBounds == Spec => []NothingBeyondTheFile
<1>1. IInv => NothingBeyondTheFile
  BY DEF IInv
<1>2. QED
  BY <1>1, InvariantHolds, PTL

\* No two imports, of the same or of different sessions, write one code.
THEOREM CodesImportedOnce == Spec => []OrderImportedOnce
<1>1. IInv => OrderImportedOnce
  BY DEF IInv
<1>2. QED
  BY <1>1, InvariantHolds, PTL

\* The stock of the product is never negative, no code is imported twice, and
\* the stock is what was there less what was moved elsewhere and less the
\* imported orders, whatever stock and orders the imports decided on and
\* however their chunks interleave.
THEOREM StockAndOrdersAgree == Spec => []StockFollowsOrders
<1>1. Init => StockIsLeft
  <2>1. ASSUME Init PROVE StockIsLeft
    <3>1. Quantity({}) = 0
      BY SumEmpty DEF Quantity
    <3>2. stock = Opening /\ moves.sold = 0 /\ orders = {} /\ Opening \in Nat
      BY <2>1, ImportSessionAssumption DEF Init
    <3>3. QED
      BY <3>1, <3>2 DEF StockIsLeft
  <2>2. QED
    BY <2>1
<1>2. Spec => []StockIsLeft
  BY <1>1, InvariantHolds, StockInvariant, PTL DEF Spec
<1>3. IInv /\ StockIsLeft => StockFollowsOrders
  BY DEF IInv, TypeOK, OrderImportedOnce, StockFollowsOrders, StockIsLeft, Quantity
<1>4. QED
  BY <1>2, <1>3, InvariantHolds, PTL

\* An import that is done is not taken up again, whatever comes later, once no
\* run of its preview and no other confirmation is under way on it and its
\* preview's job is over or has lost its files: all that writes a session that
\* is done needs one of these.
THEOREM FinishedImportsRest == Spec => RestsForGood
<1>1. TypeOK /\ [Next]_vars => [\A s \in Sessions : AtRest(s) => AtRest(s)']_vars
  BY RestStep
<1>2. QED
  BY <1>1, TypeCorrect, PTL DEF Spec, RestsForGood
=============================================================================

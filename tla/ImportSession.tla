--------------------------- MODULE ImportSession ---------------------------
(***************************************************************************)
(* Importing sales orders from Excel.  A preview job parses the file into  *)
(* the rows of an import session; a user who finds the stock too small     *)
(* confirms what is to be cut (ImportShortageReviewService.js); a          *)
(* confirmation (ImportWebDirectCommitService.js, importCommit.impl.js)    *)
(* rebuilds the rows against the stock of the moment, takes the session    *)
(* over and writes orders and stock in chunks, a transaction each.         *)
(* importSessionService.js holds the session document: only markImporting  *)
(* and updateShortageReview ask for the status they expect.                *)
(*                                                                         *)
(* Every order of a file is for one product, which is sold and returned    *)
(* elsewhere too.  A document code is its position in the file.  What the  *)
(* preview rejects for other reasons than its code, other import types and *)
(* progress are left out, and so is the expiry of uploaded files.          *)
(***************************************************************************)
EXTENDS FiniteSetsExt, Integers

CONSTANTS
    Sessions,    \* import sessions, each with its preview job queued
    Attempts,    \* runs of preview jobs, on any session
    Popups,      \* users with the shortage popup open
    Commits,     \* confirmations under way at the same time
    Codes,       \* document codes
    File,        \* the codes in a session's file
    Selections,  \* those of them that users select
    Want,        \* quantity a code's order asks for
    Opening,     \* stock at the start
    ChunkSize,   \* SALES_IMPORT_TX_CHUNK_SIZE
    Moves,       \* quantities sold, or returned, elsewhere
    MaxMoves,    \* bound: how many of them
    MaxRequests, \* bound: popups opened and confirmations begun, in total
    None

ASSUME ImportSessionAssumption ==
    /\ Codes \subseteq Nat
    /\ IsFiniteSet(Codes)
    /\ File \in [Sessions -> SUBSET Codes]
    /\ Selections \in [Sessions -> SUBSET SUBSET Codes]
    /\ Want \in [Codes -> Nat \ {0}]
    /\ Opening \in Nat
    /\ Moves \subseteq Int
    /\ ChunkSize \in Nat \ {0}

VARIABLES
    status,      \* of the session document
    review,      \* its shortageReview, once confirmed, else None
    rows,        \* import_session_rows: how many of each code
    jobs,        \* sessions whose preview job is pending or running
    attempt,     \* runs of preview jobs
    popup,       \* users of the shortage popup
    commit,      \* confirmations
    orders,      \* the sales orders that imports have written
    stock,       \* availableQty of the product
    moves,       \* what other documents took from it, and how many they are
    \* history: imports begun since the last preview, sessions that two runs
    \* of the preview overlapped on, the cuts that users agreed to, and how
    \* many popups and confirmations there were
    begun, overlapped, agreed, requests

sessionVars == <<status, review, rows>>
history     == <<begun, overlapped, agreed, requests>>
shop        == <<orders, stock, moves>>
vars        == <<sessionVars, jobs, attempt, popup, commit, shop, history>>

STATUSES == {"queued", "parsing", "preview_ready", "importing", "done", "failed"}
MODES    == {"exclude_shortage_quantity", "exclude_shortage_orders"}

\* A cut: the code, what is asked for and what the stock allows.
Cut         == Codes \X Nat \X Nat
Fingerprint == [scope : SUBSET Codes, cuts : SUBSET Cut]
Review      == [mode : MODES, fingerprint : Fingerprint]

Attempt == [session : Sessions,
            pc : {"loaded", "parsing", "cleared", "inserted", "saved", "ended", "over"}]
Popup   == [session : Sessions, selected : SUBSET Codes, fingerprint : Fingerprint,
            write : {None} \cup {"stale"} \cup MODES]
Commit  == [session : Sessions,
            pc : {"opened", "no_rows", "prepared", "importing", "writing"},
            docs : SUBSET (Codes \X Nat), review : {None} \cup Review]
Order   == [code : Codes, session : Sessions, qty : Nat]

ASSUME NoneAssumption == None \notin MODES /\ None \notin Review /\ None \notin Attempt

TypeOK ==
    /\ status \in [Sessions -> STATUSES]
    /\ review \in [Sessions -> {None} \cup Review]
    /\ rows \in [Sessions -> [Codes -> Nat]]
    /\ jobs \subseteq Sessions
    /\ attempt \in [Attempts -> {None} \cup Attempt]
    /\ popup \in [Popups -> {None} \cup Popup]
    /\ commit \in [Commits -> {None} \cup Commit]
    /\ orders \subseteq Order
    /\ stock \in Nat
    /\ moves \in [count : Nat, sold : Int]
    /\ begun \in [Sessions -> Nat]
    /\ overlapped \subseteq Sessions
    /\ agreed \subseteq Sessions \X Cut
    /\ requests \in Nat

Init ==
    /\ status = [s \in Sessions |-> "queued"]
    /\ review = [s \in Sessions |-> None]
    /\ rows = [s \in Sessions |-> [x \in Codes |-> 0]]
    /\ jobs = Sessions
    /\ attempt = [a \in Attempts |-> None]
    /\ popup = [u \in Popups |-> None]
    /\ commit = [c \in Commits |-> None]
    /\ orders = {}
    /\ stock = Opening
    /\ moves = [count |-> 0, sold |-> 0]
    /\ begun = [s \in Sessions |-> 0]
    /\ overlapped = {}
    /\ agreed = {}
    /\ requests = 0

-----------------------------------------------------------------------------
(* The session document *)

SetStatus(s, value) == status' = [status EXCEPT ![s] = value]

MarkFailed(s) == SetStatus(s, "failed")

\* markImporting, the session's status being `now`
ReadyFor_Anything(now) == TRUE  \* mutant: markImporting goes by the id alone

ReadyFor(now) == now = "preview_ready"

-----------------------------------------------------------------------------
(* The preview job: runImportPreview, importPreviewRunner, savePreviewResult *)

\* A run that may still write the session or its rows.
Live(a) == attempt[a] # None
           /\ attempt[a].pc \in {"loaded", "parsing", "cleared", "inserted"}
Of(a, s) == attempt[a] # None /\ attempt[a].session = s

\* A run went to its end and removed the uploaded files, without which no
\* later run gets as far as the session.
FilesGone(s) == \E a \in Attempts : Of(a, s) /\ attempt[a].pc = "ended"

Step(a, pc) == attempt' = [attempt EXCEPT ![a].pc = pc]

\* A worker has the job and its executor reads the files: for the first time,
\* after a retry or a lost settlement, or while an earlier run goes on whose
\* lease lapsed or whose worker was killed.
StartPreview(a, s) ==
    /\ attempt[a] = None
    /\ s \in jobs
    /\ ~FilesGone(s)
    /\ attempt' = [attempt EXCEPT ![a] = [session |-> s, pc |-> "loaded"]]
    /\ overlapped' = IF \E b \in Attempts : Of(b, s) /\ Live(b)
                     THEN overlapped \cup {s} ELSE overlapped
    /\ UNCHANGED <<sessionVars, jobs, popup, commit, shop, begun, agreed, requests>>

\* By the session's id alone, whatever its status.
MarkParsing(a) ==
    /\ Live(a)
    /\ attempt[a].pc = "loaded"
    /\ SetStatus(attempt[a].session, "parsing")
    /\ Step(a, "parsing")
    /\ UNCHANGED <<review, rows, jobs, popup, commit, shop, history>>

\* An error of the parser, or of savePreviewResult.
FailPreview(a) ==
    /\ Live(a)
    /\ attempt[a].pc # "loaded"
    /\ Step(a, "over")
    /\ MarkFailed(attempt[a].session)
    /\ UNCHANGED <<review, rows, jobs, popup, commit, shop, history>>

Cleared_Kept(s) == rows  \* mutant: the rows of an earlier run are not deleted

Cleared(s) == [rows EXCEPT ![s] = [x \in Codes |-> 0]]

DeleteRows(a) ==
    /\ Live(a)
    /\ attempt[a].pc = "parsing"
    /\ rows' = Cleared(attempt[a].session)
    /\ Step(a, "cleared")
    /\ UNCHANGED <<status, review, jobs, popup, commit, shop, history>>

InsertRows(a) ==
    LET s == attempt[a].session
    IN  /\ Live(a)
        /\ attempt[a].pc = "cleared"
        /\ rows' = [rows EXCEPT ![s] =
              [x \in Codes |-> IF x \in File[s] THEN rows[s][x] + 1 ELSE rows[s][x]]]
        /\ Step(a, "inserted")
        /\ UNCHANGED <<status, review, jobs, popup, commit, shop, history>>

\* The last write of savePreviewResult; the job goes on.
PreviewReady(a) ==
    LET s == attempt[a].session
    IN  /\ Live(a)
        /\ attempt[a].pc = "inserted"
        /\ SetStatus(s, "preview_ready")
        /\ review' = [review EXCEPT ![s] = None]
        /\ begun' = [begun EXCEPT ![s] = 0]
        /\ Step(a, "saved")
        /\ UNCHANGED <<rows, jobs, popup, commit, shop, overlapped, agreed, requests>>

\* The uploaded files are removed, if the run does not die before and the
\* removal, whose error is swallowed, works.
RemoveFiles(a) ==
    /\ attempt[a] # None
    /\ attempt[a].pc = "saved"
    /\ Step(a, "ended")
    /\ UNCHANGED <<sessionVars, jobs, popup, commit, shop, history>>

\* The executor dies, or markParsing throws.
LosePreview(a) ==
    /\ Live(a)
    /\ Step(a, "over")
    /\ UNCHANGED <<sessionVars, jobs, popup, commit, shop, history>>

\* The worker settles the job, in another process than the run and whenever
\* it gets to it: completed, cancelled or out of attempts.
EndJob(s) ==
    /\ s \in jobs
    /\ jobs' = jobs \ {s}
    /\ UNCHANGED <<sessionVars, attempt, popup, commit, shop, history>>

-----------------------------------------------------------------------------
(* Rebuilding rows against the stock: buildReviewForRows *)

Asked(s, selected) ==
    [x \in Codes |-> IF x \in selected THEN Want[x] * rows[s][x] ELSE 0]

AskedBefore(x, asked) == SumFunctionOnSet(asked, {y \in Codes : y < x})

\* sequential_file_order: an order gets what those before it do not ask for.
Left(x, asked) ==
    IF AskedBefore(x, asked) \in 0..stock THEN stock - AskedBefore(x, asked) ELSE 0

Allowed(asked) ==
    [x \in Codes |-> IF asked[x] <= Left(x, asked) THEN asked[x] ELSE Left(x, asked)]

\* validateImportBatch: the orders that are not there yet.
Fresh(asked, found) == {x \in Codes : asked[x] > 0 /\ x \notin found}

FingerprintOf(fresh, asked, allowed) ==
    [scope |-> fresh,
     cuts  |-> {<<x, asked[x], allowed[x]>> : x \in {y \in fresh : allowed[y] < asked[y]}}]

CurrentFingerprint(s, selected, found) ==
    LET asked == Asked(s, selected)
    IN  FingerprintOf(Fresh(asked, found), asked, Allowed(asked))

Existing == {d.code : d \in orders}

\* What a query for existing orders finds: if it fails, none.
Found == {Existing, {}}

-----------------------------------------------------------------------------
(* The shortage popup *)

OneMoreRequest == requests < MaxRequests /\ requests' = requests + 1

\* getReview shows what would be cut.
GetReview(u, s, selected, found) ==
    LET fingerprint == CurrentFingerprint(s, selected, found)
    IN  /\ popup[u] = None
        /\ status[s] = "preview_ready"
        /\ fingerprint.cuts # {}
        /\ popup' = [popup EXCEPT ![u] = [session |-> s, selected |-> selected,
                        fingerprint |-> fingerprint, write |-> None]]
        /\ OneMoreRequest
        /\ UNCHANGED <<sessionVars, jobs, attempt, commit, shop, begun, overlapped, agreed>>

\* confirmReview rebuilds and compares ...
ConfirmReview(u, mode, found) ==
    LET p == popup[u]
        s == p.session
        now == CurrentFingerprint(s, p.selected, found)
    IN  /\ p # None
        /\ p.write = None
        /\ status[s] = "preview_ready"
        /\ now.cuts # {}
        /\ popup' = [popup EXCEPT ![u] =
              [session |-> s, selected |-> {}, fingerprint |-> p.fingerprint,
               write |-> IF now = p.fingerprint THEN mode ELSE "stale"]]
        /\ agreed' = IF now = p.fingerprint /\ mode = "exclude_shortage_quantity"
                     THEN agreed \cup {<<s, cut>> : cut \in now.cuts}
                     ELSE agreed
        /\ UNCHANGED <<sessionVars, jobs, attempt, commit, shop, begun, overlapped, requests>>

\* ... and updateShortageReview stores the outcome.
UpdateShortageReview(u) ==
    LET p == popup[u]
    IN  /\ p # None
        /\ p.write # None
        /\ review' = IF status[p.session] = "preview_ready"
                     THEN [review EXCEPT ![p.session] =
                             IF p.write = "stale" THEN None
                             ELSE [mode |-> p.write, fingerprint |-> p.fingerprint]]
                     ELSE review
        /\ popup' = [popup EXCEPT ![u] = None]
        /\ UNCHANGED <<status, rows, jobs, attempt, commit, shop, history>>

\* The popup is closed, or its request is refused.
ClosePopup(u) ==
    /\ popup[u] # None
    /\ popup[u].write = None
    /\ popup' = [popup EXCEPT ![u] = None]
    /\ UNCHANGED <<sessionVars, jobs, attempt, commit, shop, history>>

-----------------------------------------------------------------------------
(* The confirmation: commitSession and commit *)

At(c, pc) == commit[c] # None /\ commit[c].pc = pc
End(c)    == commit' = [commit EXCEPT ![c] = None]

\* Confirmation c goes on with documents to write; the session that it read at
\* the start is not looked at any more.
Carry(c, pc, docs) ==
    commit' = [commit EXCEPT ![c] = [session |-> commit[c].session, pc |-> pc,
                                     docs |-> docs, review |-> None]]

ReviewHolds_ModeOnly(c, mode, fingerprint) ==  \* mutant: fingerprints are not compared
    commit[c].review # None /\ commit[c].review.mode = mode

\* validateConfirmedReview
ReviewHolds(c, mode, fingerprint) ==
    commit[c].review = [mode |-> mode, fingerprint |-> fingerprint]

\* applyReviewMode: the orders to be written and their quantities.
CommitRows(mode, fresh, asked, allowed) ==
    {<<x, allowed[x]>> : x \in
        {y \in fresh :
            /\ allowed[y] > 0
            /\ mode = "exclude_shortage_orders" => allowed[y] = asked[y]}}

\* The session is read; one in another state is answered from its status.
Open(c, s) ==
    /\ commit[c] = None
    /\ status[s] = "preview_ready"
    /\ commit' = [commit EXCEPT ![c] =
          [session |-> s, pc |-> "opened", docs |-> {}, review |-> review[s]]]
    /\ OneMoreRequest
    /\ UNCHANGED <<sessionVars, jobs, attempt, popup, shop, begun, overlapped, agreed>>

\* The selected rows are read and rebuilt.  Without a review that holds, the
\* answer is the review that is needed.
Prepare(c, selected, mode, found) ==
    LET asked == Asked(commit[c].session, selected)
        allowed == Allowed(asked)
        fresh == Fresh(asked, found)
        fingerprint == FingerprintOf(fresh, asked, allowed)
    IN  /\ At(c, "opened")
        /\ fresh # {}
        /\ IF fingerprint.cuts = {} \/ ReviewHolds(c, mode, fingerprint)
           THEN Carry(c, "prepared", CommitRows(mode, fresh, asked, allowed))
           ELSE End(c)
        /\ UNCHANGED <<sessionVars, jobs, attempt, popup, shop, history>>

\* No row is there, as while a run of the preview replaces them, or none whose
\* order is new ...
FindNoRows(c, selected, found) ==
    /\ At(c, "opened")
    /\ Fresh(Asked(commit[c].session, selected), found) = {}
    /\ Carry(c, "no_rows", {})
    /\ UNCHANGED <<sessionVars, jobs, attempt, popup, shop, history>>

\* ... and the session has failed, whatever became of it meanwhile.
FailNoRows(c) ==
    /\ At(c, "no_rows")
    /\ MarkFailed(commit[c].session)
    /\ End(c)
    /\ UNCHANGED <<review, rows, jobs, attempt, popup, shop, history>>

MarkImporting(c) ==
    LET s == commit[c].session
    IN  /\ At(c, "prepared")
        /\ IF ReadyFor(status[s])
           THEN /\ SetStatus(s, "importing")
                /\ begun' = [begun EXCEPT ![s] = @ + 1]
                /\ Carry(c, "importing", commit[c].docs)
           ELSE /\ End(c)
                /\ UNCHANGED <<status, begun>>
        /\ UNCHANGED <<review, rows, jobs, attempt, popup, shop, overlapped, agreed, requests>>

\* importSalesOrders skips the orders that exist by now.
ReadExisting(c) ==
    /\ At(c, "importing")
    /\ \E found \in Found : Carry(c, "writing", {d \in commit[c].docs : d[1] \notin found})
    /\ UNCHANGED <<sessionVars, jobs, attempt, popup, shop, history>>

CodesFree_NoIndex(chunk) == TRUE  \* mutant: no unique index on order codes

\* uniq_salesOrders_code
CodesFree(chunk) == \A d \in chunk : d[1] \notin Existing

Total(chunk) == SumFunctionOnSet([d \in chunk |-> d[2]], chunk)

\* postStockMovementBulkSalesOut
InStock(qty) == qty \in 0..stock

\* One transaction; if it fails, its orders are reported and left out.
WriteChunk(c) ==
    LET s == commit[c].session
        docs == commit[c].docs
        size == IF Cardinality(docs) < ChunkSize THEN Cardinality(docs) ELSE ChunkSize
    IN  /\ At(c, "writing")
        /\ docs # {}
        /\ \E chunk \in kSubset(size, docs) :
              /\ IF CodesFree(chunk) /\ InStock(Total(chunk))
                 THEN /\ orders' = orders \cup
                            {[code |-> d[1], session |-> s, qty |-> d[2]] : d \in chunk}
                      /\ stock' = stock - Total(chunk)
                 ELSE UNCHANGED <<orders, stock>>
              /\ Carry(c, "writing", docs \ chunk)
        /\ UNCHANGED <<sessionVars, jobs, attempt, popup, moves, history>>

MarkDone(c) ==
    /\ At(c, "writing")
    /\ commit[c].docs = {}
    /\ SetStatus(commit[c].session, "done")
    /\ End(c)
    /\ UNCHANGED <<review, rows, jobs, attempt, popup, shop, begun, overlapped, agreed, requests>>

\* Any database operation of commit may throw: safeMarkImportFailed.
Throw(c) ==
    /\ commit[c] # None
    /\ MarkFailed(commit[c].session)
    /\ End(c)
    /\ UNCHANGED <<review, rows, jobs, attempt, popup, shop, history>>

-----------------------------------------------------------------------------
(* Around it *)

\* A sale or a return of the product elsewhere.
MoveStock(qty) ==
    /\ moves.count < MaxMoves
    /\ qty <= stock
    /\ stock' = stock - qty
    /\ moves' = [count |-> moves.count + 1, sold |-> moves.sold + qty]
    /\ UNCHANGED <<sessionVars, jobs, attempt, popup, commit, orders, history>>

Stale_NoStatus(s) == s \notin jobs  \* mutant: recovery looks at the job alone

\* What recoverStaleImportSessions finds: no job works on it any more.
Stale(s) == status[s] \in {"queued", "parsing", "importing"} /\ s \notin jobs

\* The web process dies with the confirmations in it and starts again; a
\* session is recovered if by then it has been left alone for long enough.
Restart ==
    /\ commit' = [c \in Commits |-> None]
    /\ popup' = [u \in Popups |-> None]
    /\ \E recovered \in SUBSET {s \in Sessions : Stale(s)} :
          status' = [s \in Sessions |-> IF s \in recovered THEN "failed" ELSE status[s]]
    /\ UNCHANGED <<review, rows, jobs, attempt, shop, history>>

\* The request names a selection of the file's orders, and a mode.
SelectAndRebuild(c) ==
    /\ At(c, "opened")
    /\ \E selected \in Selections[commit[c].session], found \in Found :
          \/ \E mode \in MODES : Prepare(c, selected, mode, found)
          \/ FindNoRows(c, selected, found)

PreviewStep(a) ==
    \/ \E s \in Sessions : StartPreview(a, s)
    \/ MarkParsing(a)
    \/ FailPreview(a)
    \/ DeleteRows(a)
    \/ InsertRows(a)
    \/ PreviewReady(a)
    \/ RemoveFiles(a)
    \/ LosePreview(a)

PopupStep(u) ==
    \/ \E s \in Sessions, found \in Found :
          \E selected \in Selections[s] : GetReview(u, s, selected, found)
    \/ \E mode \in MODES, found \in Found : ConfirmReview(u, mode, found)
    \/ UpdateShortageReview(u)
    \/ ClosePopup(u)

CommitStep(c) ==
    \/ \E s \in Sessions : Open(c, s)
    \/ SelectAndRebuild(c)
    \/ FailNoRows(c)
    \/ MarkImporting(c)
    \/ ReadExisting(c)
    \/ WriteChunk(c)
    \/ MarkDone(c)
    \/ Throw(c)

Next ==
    \/ \E a \in Attempts : PreviewStep(a)
    \/ \E s \in Sessions : EndJob(s)
    \/ \E u \in Popups : PopupStep(u)
    \/ \E c \in Commits : CommitStep(c)
    \/ \E qty \in Moves : MoveStock(qty)
    \/ Restart

Spec == Init /\ [][Next]_vars

-----------------------------------------------------------------------------
(* Properties *)

\* Of all the confirmations of one preview, one imports: nobody takes the
\* session over twice, however they overlap, unless a preview is saved in
\* between.
OneImportPerPreview == \A s \in Sessions : begun[s] <= 1

\* An order written for less than its file asks for was cut exactly so in a
\* review of this session that a user confirmed, in the mode that cuts,
\* however the stock moved between the popup, the confirmation and the chunk.
CutsWereConfirmed ==
    \A d \in orders : d.qty < Want[d.code] =>
        \E a \in agreed : a[1] = d.session /\ a[2][1] = d.code /\ a[2][3] = d.qty

\* A document code is imported once, and the stock is what the imported
\* orders and the other documents left of it, and never negative, although
\* every import decides on orders and stock it read long before it writes.
StockFollowsOrders ==
    /\ \A d, e \in orders : d.code = e.code => d = e
    /\ stock >= 0
    /\ stock = Opening - moves.sold - SumFunctionOnSet([d \in orders |-> d.qty], orders)

\* No order is written for more than its file asks for, however often the
\* preview was run, if no two runs of it overlapped.  (If they do, both may
\* delete the rows before either inserts them, and every row is there twice.)
NothingBeyondTheFile ==
    \A d \in orders : d.session \notin overlapped => d.qty <= Want[d.code]

\* Whoever asks for an import that is done gets its result; nothing runs
\* again: a session that is done stays done.
DoneStaysDone ==
    [][\A s \in Sessions : status[s] = "done" => status'[s] = "done"]_status

\* What is left of that: a session that is done, whose preview job is over or
\* has lost its files, with no run of that job and no other confirmation under
\* way on it, stays so, whatever comes later.  (Without the first, a job whose
\* settlement was lost runs once more and takes the session back to parsing.)
AtRest(s) ==
    /\ status[s] = "done"
    /\ s \notin jobs \/ FilesGone(s)
    /\ \A a \in Attempts : ~(Of(a, s) /\ Live(a))
    /\ \A c \in Commits : commit[c] # None => commit[c].session # s

RestsForGood == [][\A s \in Sessions : AtRest(s) => AtRest(s)']_vars
=============================================================================

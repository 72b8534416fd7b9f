# TLA+ models of MK-Pro

MK-Pro is a Node.js/MongoDB system for distributors: sales orders, deliveries,
returns, stock, receivables (AR), cash funds, imports and exports, with web and
mobile front ends. It runs as one or more web processes, worker processes and
scheduled jobs over one MongoDB; nearly everything that can go wrong between
them goes wrong in documents of that database. The modules here model the parts
where several actors meet on the same documents. TLC checks them on small
instances, TLAPS proves the most important safety properties for every instance.

File paths in this text are relative to the directory `src/` of the code, those of
Markdown and JSON documents to the repository's root. `PROJECT.json` maps each
definition to its lines.

Contents: [inventory](#inventory) · [plan](#plan) · [modules](#modules-and-code) ·
[runs](#runs) · [fairness](#fairness) · [proofs](#proofs) · [findings](#findings) ·
[what is left out](#what-is-left-out)

## Inventory

### Components with models

| Component | State | Operations | Hard behaviour | What makes it correct |
|---|---|---|---|---|
| Background jobs: `services/background-jobs/BackgroundJobService.js`, `jobs/backgroundJobWorker.js`, `jobs/backgroundJobExecutor.worker.js` | `background_jobs` (status, leaseOwner, leaseExpiresAt, attemptCount, availableAt); per worker `active`, `stopping` | enqueue, claimNext, heartbeat, complete, fail, markCancelled, requestCancel, deadLetterExpiredLeases; the worker's loop, stop | leases that lapse under a live attempt, settlements that arrive late, crash before settlement, executors that survive a killed worker, cancel against claim | the last claimant decides; an ended job stays ended; a data-writing job is never cancelled half-way; every job ends |
| Debt collection: `services/DebtCollectionService.js`, `services/DebtReadService.js` | collections, order locks, AR receipts, fund entries, external debt orders | submit, confirm, reject; credits by other modules | snapshot transactions that overlap, write skew, repeated commands | no order is collected beyond its debt; postings exist exactly for confirmed collections; one collection per key |
| Command pipeline and outbox: `application/CommandPipeline.js`, `services/outbox/`, `services/integrations/IntegrationService.js`, `jobs/outboxJob.js`, `jobs/integrationJob.js` | `idempotency_requests`, `outbox_events`, `integration_jobs`; per process a draining flag | execute, enqueue, claimNext, markProcessed, markFailed, processOne, retry | several draining processes, handlers overtaken by a stale lock, crash between effect and record, lost answers | what is sent was committed, what counts as delivered was sent; a request runs once; every event ends |
| Return corrections: `services/returns/ReturnCorrectionRequestService.js` with `services/returnOrderLegacy.service.source/` and `domain/lifecycle/ReturnStateMachine.js` | correction requests, return orders and their corrected versions, stock movements | create, approve, reject, apply, warehouse recheck, stock repost, accounting finalize; receive, stock in, confirm accounting | an error path outside the transaction, screens that write back what they read earlier, sources that change between steps | a correction is finalized once; stock is reversed as recorded and restocked before it is closed |
| Accounting closeout, payment allocation and their AR rows: `services/accounting/AccountingCloseoutService.js`, `services/deliveryCloseoutCorrection.service.js`, `engines/delivery.legacy.engine.js` | the order's version, payment and confirmed flag, its return orders, corrections, closeout versions, allocations, AR balance | savePayment, saveReturn, confirmOneOrder, createCorrection of an open and of a closed order, alone or in bulk | snapshot transactions that do not write what they read; a client or a bulk context that is behind; repeated requests, without a unique index on their key | an order is closed out once; its versions form one line; the balance is what they make of it; nothing unseen is overwritten |
| Import of sales orders: `services/importSessionService.js`, `services/import/`, `jobs/importPreview*.js` | `ImportSession` (status, shortageReview), its rows, its preview job, the uploaded files; sales orders, available stock | preview, settlement of its job, getReview, confirmReview, commitSession, commit, recovery at a start | writes of the status that repeat no check; runs of a preview that overlap, or come again when the session is confirmed; stock that moves between popup, confirmation and chunk; a restart in the middle | a preview is imported once, a code once; only cuts a user agreed to; stock follows the orders |
| AR debt read model: `services/readModelSyncJob.service.js`, `services/arDebtReadModelProjector.service.js`, `services/arDebtReadModel.service.js` | `readModelSyncJobs`, `arDebtOrders`, `arDebtCustomers`; per process `drainRunning`, `drainScheduled` | enqueue (upsert), scheduleDrain, claimNextJob, the projection, markDone, markFailed | no transaction and no lease; a job that is asked for again while it runs; two drains of one customer | a job that is done shows what it was queued for; a pending job is retried |

The components touch each other through the ledgers: a confirmed collection and a
finalized return correction both credit the AR ledger, which is why
`DebtCollection` has credits by other modules, `Closeout` later receipts and
`ReadModelSync` postings elsewhere as steps of their environment. A committed closeout
queues the jobs of the read model (`Commit` of `ReadModelSync` is `CloseOut` seen from
there). A preview is a background job: `StartPreview` of `ImportSession` may happen
while an earlier run goes on, because a lease may lapse under a live attempt and an
orphaned executor goes on, and after a run that saved the preview, because its settlement
may be lost: `BackgroundJobs` shows all three. Where `ImportSession` has a job that may
still be run (`jobs`), `BackgroundJobs` has one that is pending or running. Imports take from the same stock counter that other sales
and returns move.

### Components without a model yet

| Component | State and operations | Hard behaviour | Properties to state |
|---|---|---|---|
| Request idempotency: `services/requestIdempotency.service.js` | one record per request; begin, complete, fail, reclaim of a stale one | reclaim without fencing | two executions only if one was taken for dead |
| AR posting beyond the closeout, inventory posting, fund ledger: `domain/posting/`, `engines/posting.engine.js`, `services/inventoryService.source/`, `services/fundService.js` | ledger rows by idempotency key, stock counters | repeated posting, reversal | a balance is the sum of its rows; a reversal cancels exactly its original |
| Scheduler and startup: `jobs/scheduledJobOrchestrator.js`, `services/startupState.js` | lifecycle, started jobs; start, stop | stop during start skips what has not started; the stop promise is never reset | after stop nothing runs |
| Dashboard cache: `services/dashboard/DashboardCacheService.js` | entries with a source version; read, write, invalidate | the version is taken at the write, not at the read of the value | no value older than an invalidation is served after it |
| Sales orders, returns before closeout, purchase, warehouse, routes | CRUD within one transaction per command | little beyond the pipeline | state machines |
| Promotion engine | pure | combination of rules | against a reference definition |

Printing, reports, HTTP, access policy, tenants, observability, front ends and
operational scripts have no model: they format, query or administrate
(`PROJECT.json`, `components`, has the reasons one by one).

## Plan

Done: `JobBoard` with `BackgroundJobs`, `DebtBook` with `DebtCollection`, `EventRelay` with
`OutboxRelay`, `ReturnCorrection`, `OrderAccount` with `Closeout`, `ImportSession`,
`ReadModelSync`, a proofs module for each of the seven, and `SumTheorems` for the sums in them.

Next, in this order:

1. `StockLedger`: the movements `ReturnCorrection` sees as sets and `ImportSession` as one
   counter, with keys, reversals and reservations. Both then refine an abstract ledger.
2. `RequestIdempotency`: begin, complete, fail, reclaim of a stale record
   (`services/requestIdempotency.service.js:39`). The property: an answer that is
   replayed is that of an execution which was not taken for dead.
3. `Scheduler` and `DashboardCache`: small, for the processes' own state.
4. The fund ledger and delivery remittance; the promotion engine as an operator
   against a reference definition.

Four of the seven implement an abstract specification. One more is worth stating: a dirty
set for the read model, which it implements as long as no job is disturbed.

Every safety property of a passing run has its theorem. Theorems worth proving next: that
the corrections of one source, applied by turns, leave its stock as one correction
would where the source was touched by nobody; that a job nobody settles is claimed or
swept, which is the safety half of `EveryJobSettles`; and the sums of the stock ledger,
on top of `SumTheorems`, once it has a module.

Twelve runs with forty properties are in place and take about twenty minutes. A further
module should take the place of a run whose theorem says as much (`outbox_progress`,
`returns`) rather than lengthen them.

## Modules and code

One step is one MongoDB operation, or one whole transaction where the model can
justify it; what a function read before an `await` is kept in a variable of its
caller. A database operation that throws has changed nothing. Clock readings are
abstracted to the question the code asks of them (is the lease over, is the delay
over, is the stamp the same).

### BackgroundJobs and JobBoard

`JobBoard` says what a job queue promises while its workers keep their leases: a job is in
the hands of one worker at a time, who alone decides it and puts it back only if it may
be taken again; one that was let go is taken again, or given up when it was taken too often.

State of `BackgroundJobs`: the document (`status`, `leaseOwner`, `attemptCount`, `leaseNo` and
`leaseExpired` for leaseExpiresAt, `backoff` for availableAt), the closure of each
attempt (`phase`, `ranBy`; an executor at work whose worker was killed is *orphaned*), the
worker process (`proc`, `active`, `claiming`, `swept`), what a requestCancel has read (`cancelRead`).

`Enqueue`, `BeginClaim`/`Claim`/`ClaimNothing` (claimNext), `StartExecutor`,
`ExecutorReports`/`ExecutorDies`, `Heartbeat`, `WatchCancel`, `Complete`,
`MarkCancelled`, `ReadForFail`/`WriteFail` (fail reads, then writes),
`LoseSettlement` (the write throws and is logged), `OrphanEnds`, `ReadForCancel`/`ApplyCancel`,
`ReadForSweep`/`ApplySweep` (deadLetterExpiredLeases), `Stop`/`Exit`/`Crash`/
`Restart`, `ExpireLease`/`BackoffElapses` (time). The mapping: `Standing` of the status
(running and cancel_requested are *out*), *hands* are the living workers with an attempt
they wait for or settle (`HandsOn`; an orphan is in nobody's), *taken* is attemptCount.
Heartbeats, requests to cancel and reads do not show on the board, and neither do orphans,
which write nothing in the job but its progress; a lost settlement and a crash are *LetGo*.
The executor has no `disconnect` handler and the timer that kills it is the worker's, so
nothing ends an orphan but its handler: the model lets it go on for ever.

### DebtCollection and DebtBook

`DebtBook` says what collecting promises, as if one person kept a book of totals: a slip is
entered once for its key and fits what is left of its orders, by the totals of that
moment; it is then confirmed, which pays it, or rejected, which frees it. Only the credits
of others may be older than the entry: those are the ones *known* when it began.

State of `DebtCollection`: collections `col`, `receipts`, `fund`, `credited`, `external`; per call
`pc`, `ensured`, `held`; per accountant `doc`; per open transaction the snapshot
`snap` and the documents others have written since, `changed`. A write to a
document in `changed`, or to one another open transaction wrote, is a write
conflict, after which `withTransaction` starts over. The lock is written after the
snapshot is taken, which is the point of the model: it is the conflict and not the
lock that makes the check complete.

`Submit`, `EnsureLock`, `AnswerExisting`, `OpenSubmit`, `LockOrder`, `Retry`,
`Refuse`, `Create`, `Lose` (submitDebtCollection); `OpenConfirm`, `RefuseConfirm`,
`Confirm`, `AbortConfirm`; `Reject`; `CreditOrder` (another module's posting). The mapping:
*reserved* and *paid* are the sums over the collections that are not rejected, and over
the receipts; *known* are the credits in the snapshot of an open transaction.

### OutboxRelay and EventRelay

`EventRelay` says what an outbox promises: delivered events were published,
acknowledged events were delivered. `OutboxRelay` has the executions of commands
(`Begin`, `Commit`, `Conflict`, `Fail`), the outbox loop of each process
(`ClaimEvent`, `Handle`, `HandlingFails`, `MarkProcessed`, `MarkFailed`,
`DrainThrows`), the integration loop (`ClaimJob`, `EndpointReceives`, `SendFails`,
`CompleteJob`, `FailJob`, `SendThrows`), `RetryJob` and `Crash`. The mapping:
*published* are the executed commands, *delivered* those of which the endpoint got
a job, *acknowledged* those with a completed job. An endpoint that got the request
may still answer with an error, or not at all.

### ReturnCorrection

State: `returnOrder` (state, warehouse check, stockPosted) for orders and for the
corrected versions, which are named by their request; the movements `stockIn` and
`stockOut`; the request (`status`, `entity`, `metadata`, `finalized`, and
`unchanged`, whether the source still has the updatedAt the request recorded);
`applying`, the error path of an apply; `screen`, what a screen's call has read.

`LookAtSource`/`CreateRequest` (createRequest reads, then inserts),
`ApproveRequest`, `RejectRequest`, `ApplyRequest`, `ApplyThrows` and
`MarkFailed`/`LeaveUnmarked` (the catch block reads, then writes),
`WarehouseRecheck`, `StockRepost`, `AccountingFinalize`; `ConfirmReceive`,
`OpenReturnOrder` and `RepeatStockIn`/`StockInReturnOrder`/`ConfirmAccounting`/
`RefuseScreen` (read outside a transaction, then act on what was read).

Functions that run in `withMongoTransaction` are one step. Two of them that write
a common document conflict, and one is run again; what one of them only reads, and
another writes, can be stale in one direction only, so the pair is equivalent to
running one after the other.

### Closeout and OrderAccount

`OrderAccount` says what the accounts promise of a delivered order: a payment may be set
until it is closed out; that opens its account; corrections then form one line of
versions, each of which moves the balance by what it changes, and receipts lower it.

State of `Closeout`: `order` (version, confirmed, paid, returned), `returns`,
`corrections`, `versions`, `allocations`, `balance`, and per request `call`: what it asks,
what its client or bulk context had read (`seen`), its snapshot (`snap`) and the
documents of it that others have written since (`missed`). Money is one amount.

`Read` and `Start` (a request that goes by an earlier read), `Ask` (any other), `Retry`
and `GiveUp` (withTransaction); `SavePayment`, `SaveReturn`; `CloseOut`
(confirmOneOrder with its allocation and ledger rows); `OpenAdjustment`,
`ClosedCorrection` and `AnswerRepeat` (createCorrection); `TakeReceipt` (environment).
A correction of a closed order does not write the order: it and another one collide
on the unique index of the allocations alone. The mapping to `OrderAccount`: the account's
version and payment are those of the latest closeout version, its balance the sum of
the ledger rows.

### ImportSession

State: the session (`status`, `review`, `rows`), the preview jobs that are not over
(`jobs`) and their runs (`attempt`), users of the shortage popup (`popup`), confirmations
(`commit`), the `orders` and the `stock` that imports write, what others took from it
(`moves`). History: `begun`, `overlapped`, `agreed`, `requests`.

`StartPreview` (the executor reads the uploaded files), `MarkParsing` (by id alone),
`DeleteRows`, `InsertRows`, `PreviewReady` (savePreviewResult), `RemoveFiles`, `FailPreview`,
`LosePreview`; `EndJob`, the settlement by the worker, in another process and any time
later, or when the attempts are used up: a run that saved its preview may be repeated
until then, unless it got to remove the files. `GetReview`, `ConfirmReview`,
`UpdateShortageReview`, `ClosePopup`; `Open` (commitSession reads the session and with it
its review), `Prepare` (the rows are rebuilt, and lose the orders whose code exists by
now; if the query for these codes fails it finds none), `FindNoRows` and `FailNoRows` (no
row is left: the session is marked failed, whatever its status has become),
`MarkImporting` (the conditional takeover), `ReadExisting`, `WriteChunk`
(a transaction per chunk), `MarkDone`, `Throw` (safeMarkImportFailed); `MoveStock`;
`Restart` with recoverStaleImportSessions, which passes over sessions whose job is not over. All orders are for one product, so that the
order of the file decides who is cut.

### ReadModelSync

State: `ledger`, `order` and `summary` count, for each source, the changes of the ledger
that the row and the customer's total take into account: versions instead of amounts.
`job` (status, attempts, due), what a committed closeout has still to queue (`closing`,
`queued`), `scheduled` (drainScheduled), `drain`, the stage of each process's
drainPendingJobs with what it read. History: `asked`, the ledger when a job was last
queued; `disturbed`, the jobs whose run shared its time with another run of the customer
or that were queued again before it had ended.

`Commit`; `PostElsewhere` (a receipt or a confirmed sale, which leaves the rows alone, or the
reversal of a sale, whose only callers are cancelOrder and deleteOrder in their
transactions: the entry and the rebuilt row appear together); `Enqueue` (the upsert: pending and due, attempts kept),
`EnqueueFails`; `RunScheduled` (the setImmediate callback; it does nothing during a drain),
`RunScript`; `Claim`, `FindNone`, `ClaimFails`, `EndDrain`; `ReadLedger`, `WriteOrder`,
`ReadOrders`, `WriteSummary` (the projection, every read and write a step), `MarkDone` (by
id alone), `RunFails`, `MarkFailed`, `AbortDrain`; `BecomeDue`, `Crash`.

## Runs

| Run | Instance | Question |
|---|---|---|
| `jobs_safety` | an export with 2 attempts, 2 workers of concurrency 2, leases may lapse under live attempts up to number 3, 1 crash or shutdown; symmetric workers; 203,526 states | do ended jobs stay ended, does the last claimant decide, under every fault? |
| `jobs_progress` | an export (2 attempts) and a commit (1), concurrency 1, no lapses, 1 crash or shutdown; 178,952 states | do jobs end, is the queue a job board, and do attempts overlap only with orphans? |
| `debt_collection` | 3 calls on a sales order and an external debt order, two of them with one key; a credit of 3 on the sales order; 2 accountants; tolerance 1; 96,210 states | are debts never over-collected, postings exact, commands answered; is a book kept? |
| `debt_overdrawn` (violation) | 1 call, 1 accountant, a credit | does a confirmation never take a balance below zero? |
| `outbox` | a command, its repetition, another command with its key; 2 processes, one without an endpoint; 2 event attempts, claim limit 2, 2 job attempts, 1 fault; 1.9 million states | is the relay implemented? |
| `outbox_progress` | one command, 2 processes, claim limit 3, 1 job attempt, 2 faults; 147,000 states | does every event end, with one handler while locks hold? |
| `returns` | one return order, 2 requests (on it or on each other's version), 1 apply error path, 1 screen; symmetric requests; 3.1 million states, no bound | is a correction finalized once, with stock as recorded? |
| `closeout` | one order sold for 3, 2 overlapping requests of 8 kinds (payment, return, closeout, adjustments with and without key or return lines, plain, with an expected version, bulk), paid amounts 1 and 4, receipts of 2, tolerance 1; symmetric calls; 1.04 million states | are versions linear, keys used once, reads not overwritten, the account implemented? |
| `closeout_stale` (violation) | the same | is an adjustment refused whose client saw the order before it was closed out? |
| `import_session` | 2 files with a code in common, 2 preview runs, 1 popup and 2 confirmations at a time, 3 of them in all, stock 2 for a demand of 3, chunks of 1, one sale or return elsewhere; symmetric; 1.96 million states | is a preview imported once, only agreed cuts made, stock kept, a finished session left alone? |
| `import_done_again` (violation) | the same, stock 3, chunks of 2, no moves | does a session that is done stay done, a preview job being repeated? |
| `read_model` | one customer with 2 sources, a job of both and a job of one, a web process and a script, 1 job per drain, 2 attempts, 2 faults; 285,000 states | does a job that is done show what it was queued for, are pending jobs retried? |

Why the bounds suffice: two claimants are the least that can overtake each other,
and in each protocol a third would take the place of one of the two; two attempts
have one retried and one last; three lease numbers let a lease lapse, be taken
over and lapse again; two requests on one source, or a chain of versions, are what
corrections can do to each other; two requests on one order are the least that read
the same version, and the third version shows in the line they form; two confirmations
and two preview runs are the least that overlap, and a second file with a code in
common is what competes for codes and stock; three requests are a popup with the two
confirmations that use its review, or three confirmations of the two sessions; two jobs of one customer, one within the
other, are what can set each other's rows back. The bounds of the models are `MaxLeaseNo`,
`MaxRestarts`, `ClaimLimit` (100 in the code; only that there is one matters), `MaxFaults`,
`MaxVersion` (payments on an open order; the versions of a closed one end with the
keys the requests can make), `MaxMoves`, `MaxRequests` and `MaxPosts`. The numbers of attempts,
`ChunkSize` and `LIMIT` are parameters of the code, taken small; `Selections` limits
what users select to the whole file. Return corrections need no bound: a
request changes nothing forever.

`CHECK_DEADLOCK FALSE` stands where calls are used up (`Calls` of `DebtCollection` and
`Commands` are finite), which is where the program has nothing left to do, and in the
import runs, whose `Restart` is enabled always so that nothing could be found. The
other runs keep the deadlock check.

Every passing property has a mutant: an operator in the module that changes a mapped
definition as a slip in the code would (a lock not taken, a filter without the
owner, a flag taken for a movement), under which TLC finds the property violated.
Mutants are marked as such in the modules and belong to no specification.

## Fairness

- `jobs_progress`: timers fire (poll, heartbeat watch, sweep, lease and delay run
  out), a forked executor ends (its worker's timeout kills it; an orphan has none and owes
  nothing), settlements are attempted, the
  supervisor restarts a worker (`WORKER_DEPLOYMENT_RUNBOOK.md`): weak fairness. A
  claim is strongly fair, because a worker that polls claims the oldest job and the
  queue is finite. Users owe nothing.
- `debt_collection`: a call the server works on goes on, weakly fair per call. That it
  then ends, rather than restarting for ever, is what is shown: locks are taken in
  sorted order, so conflicts do not go round.
- `outbox_progress`: a handler's next step is weakly fair per process; claims are
  strongly fair per event, over all processes together, since claims go in the order of
  availableAt and every process drains on a timer. Liveness of integration jobs is not
  claimed: a crash on the last attempt, or `retry` of an exhausted job, leaves one for
  good.
- `read_model`: a drain that has started goes on, the callback of setImmediate runs, and
  back-off times pass: weak fairness. That a drain comes again is not assumed, because
  closeouts and the operator's script start drains and nothing else does: it is the
  premise of `PendingIsRetried`, in the words of `readModelSyncJob.service.js:271` ("lần
  drain sau"). Claims take any due job in the model; the code takes the oldest.

The other specifications state no fairness.

## Proofs

For each module the proofs are in `<Module>Proofs`. They have one shape: an inductive
invariant `IInv` of named conjuncts, a lemma for each group of conjuncts with a step
per action, `Invariance`, and a theorem per property.

| Module | Theorems | Why the strengthening |
|---|---|---|
| `BackgroundJobsProofs` | `TypeCorrect`, `LeaseHeld`, `NoCancelAfterClaim`, `EndedStaysEnded`, `LastClaimantDecides`, `SweepIsSafe`; while leases are kept `OverlapsAreOrphans`, `ExecutorsAreBounded`, `WaitingJobsMayBeClaimed`, `BoardIsImplemented` | late writes filter by leaseOwner alone; `OwnerIsLastClaimant` ties the owner to the last attempt, `WritersAreNotCancelled` ties a read of requestCancel to the job's history; `SweptRowsHold`: a row the sweep read is still true while its lease number stands; `LiveHoldsLease`: an attempt in the hands of a worker holds the lease and is the latest, so that an earlier one still at work is an orphan; `ActiveFits`: no more jobs are active in a worker than it may run, and its executors inject into them (`UnsettledIsActive`); `RetriesAreLeft`: what fail() has read says whether an attempt is left |
| `DebtCollectionProofs` | `TypeCorrect`, `LockMakesSnapshotComplete`, `PostedExactlyWhenConfirmed`, `KeyMakesOneCollection`, `RepetitionAnswered`, `DecisionStands`, `NothingOverCollected`, `ExternalOrdersFollowLedger`, `ConfirmationsStayWithinDebt`, `BookIsImplemented` | `UnseenIsMarked`: a collection missing from a snapshot has its lock among the changed documents, so writing that lock conflicts; `LocksAreHeldAlone`; `SnapshotsArePast`: snapshots are earlier states, one earlier than the other; `DebtIsReserved`: a confirmation that may succeed has its amounts, and those it saw pending, left; `ReceiptsAsSeen` for external orders |
| `OutboxRelayProofs` | `TypeCorrect`, `RequestsExecuteOnce`, `ProcessedNamesJob`, `LockExcludes`, `GivenUpLate`, `SettledStays`, `RelayIsImplemented` | a process holds claims of committed events only, and while nobody was overtaken its claim is the current one (`ClaimsAreCurrent`) |
| `ReturnCorrectionProofs` | `TypeCorrect`, `CorrectionFinalizedOnce`, `ReversalRecorded`, `CorrectionRestocked`, `UntouchedSourceTakenBack` | `FinalizedHasEnded`: after finalization the source has changed, so apply refuses it for good; `FlagsAgree`, `ReversedIsPosted` and `FlagsStay`: flags are never taken back, not even by `ScreensSawReturns`' stale documents |
| `CloseoutProofs` | `TypeCorrect`, `VersionsFollowOneAnother`, `KeyMakesOneCorrection`, `NothingUnseenIsLost`, `AccountIsImplemented` | `WellFormed`: version numbers have no gap and each has its allocation, so the index that refuses an allocation refuses a version; `Behind`: what a request has read is an earlier state of the same documents, equal where the numbers it compares are equal |
| `ImportSessionProofs` | `TypeCorrect`, `PreviewImportedOnce`, `CutsConfirmed`, `FileBounds`, `CodesImportedOnce`, `StockAndOrdersAgree`, `StockIsGivenOut`, `RowsFitStock`, `FinishedImportsRest` | `ReadyIsFresh` for the takeover; `OneRun` and `RowsOnce`: without an overlap the rows are empty between delete and insert; `ReviewsAgreed`, `PopupsAgreed` and `CommitsFit` carry a user's consent from the popup over the review a confirmation has read to the chunk; that done sessions rest needs only types (`RestStep`): files once removed stay so (`FilesStayGone`), jobs only end (`JobsEnd`), and what writes a session is a run or a confirmation of it, or a recovery that passes over it |
| `ReadModelSyncProofs` | `TypeCorrect`, `DoneShows` | `Alone`: runs of one customer at one time have disturbed each other's jobs; `RunsFit`: how far an undisturbed run's rows are, stage by stage; `DoneIsSpared`: no run under way holds a read older than what a finished job was asked for |
| `SumTheorems` | `SumEmpty`, `SumAgrees`, `SumTakeOut`, `SumUnion`, `SumMonotone`, `SumOfPart`, `SumRenamed` | about `SumFunctionOnSet` of the community modules, for integers on finite sets |

The four refinements are `RelayIsImplemented`, `AccountIsImplemented`, `BoardIsImplemented` and
`BookIsImplemented` (`Spec => Relay!Spec`, and so on): initial states map to initial states,
every step to a step or a stutter. In `BookIsImplemented` each side of the argument has its
lemma: a submission commits only with a complete snapshot (`CreateFits`), a confirmation
may overlap others, and the one that comes later has counted it (`ConfirmFits`, from
`DebtIsReserved`).

The sums are folds over finite sets, defined by recursion. `SumTheorems` proves them by an
induction that needs no operator parameter: the claim is made for the members of a set
(of numbers, or of subsets of the finite set), and `InductiveSet` and `InductiveFamily`
show, from the well-foundedness of `<`, that such a set leaves nothing out.

Some theorems are not about a property of a run, because runs are few: `LeaseHeld`
(`LeaseHeldWhileRunning`), `RepetitionAnswered` (`RepeatIsAnswered`), `DecisionStands`
(`DecisionIsFinal`), `GivenUpLate` (`GivenUpOnlyWhenExhausted`), `SettledStays`
(`SettledIsFinal`), `CodesImportedOnce` (the first part of `StockFollowsOrders`),
`WaitingJobsMayBeClaimed` and the two about the operators of a review, `StockIsGivenOut` and
`RowsFitStock`. `TypeOK` of the jobs, of collections and of imports is proved by
`TypeCorrect` and in no run any more.

Assumptions are the named ASSUMEs of the modules: sets of names are disjoint where the code
distinguishes them, numbers are numbers, and `MaxAttempts <= ClaimLimit` for the outbox. No
bound on the number of workers, calls, requests, sessions or processes is assumed, nor
that `MaxFaults`, `MaxLeaseNo`, `MaxRestarts`, `MaxVersion`, `MaxMoves`, `MaxRequests` or
`MaxPosts` is small.
Some theorems have a hypothesis besides, in their ASSUME:

- `~LeaseMayLapse` (`OverlapsAreOrphans`, `ExecutorsAreBounded`, `WaitingJobsMayBeClaimed`,
  `BoardIsImplemented`): no lease runs out under a live attempt. A heartbeat renews it at a
  third of its length, so that it takes a process that stalls, or heartbeats that fail
  twice in a row; `jobs_safety` has these, and there two workers may supervise attempts of
one job side by side. `OverlapsAreOrphans` does not say that one process at a time works on a
job: after the hard kill of a worker its executor goes on beside the next attempt. It says
that there is no other overlap.
  What holds even then has no hypothesis.
- `OneNamePerOrder` (`NothingOverCollected`, `BookIsImplemented`): calls that share an order
  name its lock alike. The code does not see to that (see the findings): the theorem says
  that nothing else can make it collect too much.
- `NoForeignCredit` (`ExternalOrdersFollowLedger`): only collections credit external debt
  orders. The modules that post credits do so for returns and corrections of sales orders.

`ConfirmationsStayWithinDebt` needs none, but speaks of confirmations whose snapshot shows
all credits; `debt_overdrawn` shows what becomes of the others.

Only model-checked is liveness, which is out of the prover's reach as ENABLED is:
`EveryCallIsAnswered`, `EveryJobSettles`, `EveryEventSettles`, `PendingIsRetried`.

## Findings

With a run (`PROJECT.json`, `findings`):

1. A confirmation reads a snapshot and takes no order lock; a credit by another
   module commits beside it and the balance goes below zero (`debt_overdrawn`).
2. The expected version of an adjustment is compared with `SalesOrder.version` while the
   order is open and with the closeout version once it is closed. Both are 1 after one
   payment: an adjustment meant for the open order passes as a correction of the closed
   one (`closeout_stale`).
3. markParsing takes a session back to parsing by its id alone
   (`importSessionService.js:263`). A preview job whose run saved the preview runs again if
   the executor or the worker died, or the settlement was lost, before the files were
   removed (`BackgroundJobHandlers.js:87`, `backgroundJobWorker.js:78`). If the user imports
   meanwhile, the session that is done is parsed again and offered for import once more
   (`import_done_again`). The same happens by the commit's error path, which marks the session
   failed by its id alone: a second confirmation that throws late, or finds no rows, turns a
   session that is done into a failed one, whose user is told to load the file again.
   `ImportWebDirectCommitService.js:123` says a session that is done answers with its result.
   What is left of the rule is `RestsForGood`: a session that is done, whose preview job
   is over or has lost its files, with no run and no confirmation under way on it, stays so.

Seen in the models and left without a run, where the repository states no rule or
another run says more:

Debt collection and jobs

- The lock's name is the id or the code of the order, whichever the request sent: two
  requests on one order may hold two locks and collect its debt twice
  (`DebtCollectionService.js:127`; `CodeOnly` of the model, `OneNamePerOrder` of the proofs).
- A debt of at most `DEBT_ZERO_TOLERANCE` counts as zero: the last small collection on an
  order can be recorded and never confirmed.
- A job that is `cancel_requested` when its worker dies is recovered by nothing
  (`BackgroundJobService.js:122`).
- The executor of a killed worker goes on, as nothing in `backgroundJobExecutor.worker.js`
  watches for the end of its parent (`backgroundJobWorker.js:45`), and the next attempt of the
  job begins beside it once the lease is over: two runs of a preview or of an
  `import_commit`, two artifacts of an export. What the orphan reports reaches nobody.
- A worker that claims its own lapsed job while its earlier fail() is between read and
  write puts the job back with no attempt left: the decision of `:217` is stale when it is
  written. `EveryJobSettles` and `ImplementsBoard` are checked without lapses.
- The same worker then has two executors under one entry of `active`, which is keyed by the
  job (`backgroundJobWorker.js:66`), and may run more than CONCURRENCY. `BoundedConcurrency` is
  checked without lapses.
- fail() after an accepted cancellation puts the job back to pending
  (`BackgroundJobService.js:234`); the runbook expects `cancelled`.

Command pipeline

- The unique index on idempotency records is on `key` alone (`mongoIndexService.js:445`): a
  key used for one command makes others with that key fail. They execute once even so.
- A handler that outlives its lock is overtaken: two processes handle one event, and as
  markProcessed and markFailed go by the id alone (`OutboxService.js:66`, `:84`), its late
  failure reopens an event that was processed. `OneHandlerWhileLocked` excepts these events.
- `IntegrationService.retry` keeps attemptCount: an exhausted job is answered with ok and
  never claimed.

Return corrections

- Applying an applied or rejected request again marks it failed, from where it may be
  applied. That it is not finalized twice is `FinalizedOnce`.
- Two requests on one source are both applied, since apply does not touch the source:
  its stock is taken back twice. A source received after the application, or after the
  finalization, is in stock beside its correction. (`SourceTakenBack` is about sources
  nobody touched.)
- A corrected version of a source that was posted to AR inherits `arPosted`, so the
  stock-in screen finds it stocked in without a movement; a request on that version
  then reverses stock that never came in.
- Of two createRequest calls with one key that race, the loser answers with the id of a
  request that was not stored.

Closeout

- A request without a key gets one made of its contents
  (`deliveryCloseoutCorrection.service.js:711`). Setting a payment to A, then to B, then to A
  again is answered as a repetition of the first: nothing is stored, and the screen
  says "Đã lưu điều chỉnh." (`public/js/app/new/91-delivery-today-new.js:2285`).
- The lookup of a client's key does not name the order (`:1653`, `:1947`) and the fingerprint is
  of the contents alone: a key that comes back on another order with the same amounts
  is answered as done. (In the model a key belongs to the order it is sent for.)
- Recording returned goods writes `returnOrders` only
  (`domain/returns/ReturnMutationGuard.js` merely reads the order): one that runs beside
  the closeout changes the return order of a closed order, whose account does not know.
- An order that is paid beyond the tolerance is closed out with a balance of zero; a later
  correction of the payment then moves the balance away from what is owed.

Import

- Two runs of a preview that overlap may both delete the rows before either inserts its
  own: quantities double, and the confirmation orders them (`overlapped` excepts this from
  `NothingBeyondTheFile`).
- A confirmation that finds none of its orders new (all codes exist by now) marks its session
  failed and not done, also when another confirmation of it has just imported them
  (`importCommit.impl.js:299`).
- A preview that is saved late makes an imported session ready again. Importing it again
  finds its codes taken; that no code is written twice is `StockFollowsOrders`.

Read model

- If the process ends between the closeout's commit and the upserts, no job is
  queued. A rebuild by an operator is what is left.
- A job whose process ends, or whose markFailed throws (`readModelSyncJob.service.js:254`),
  stays `running`: claims take pending jobs only. The next closeout of the same orders
  makes it pending again.
- A job that is queued again while it runs is set to pending, and markDone of the run
  sets it to done (`:208`): the second request may never be carried out. Two runs of one
  customer may write the older result last. `disturbed` is exactly these cases, which
  `DoneMeansShown` excepts: it shows that nothing else goes wrong, not that these do not.
- scheduleDrain during a drain does nothing (`:243`), also when that drain has used up its
  limit of 10 jobs, or is about to end: a closeout leaves jobs until the next closeout or
  script. `PendingIsRetried` presupposes that one comes.
- A failed job that is queued again keeps its attempts: it gets one more attempt each time.

## What is left out

In the modelled components: artifact
clean-up, progress fields, expiry of records, access policy, texts and logs, the
notification after a confirmed collection, jobs enqueued through the API without an event,
an event type without a handler. In return corrections: quantities of items, the links between
versions and isCurrentVersion (the stale write-backs of the screens can undo
it), separation of duties, the contents of the closeout version and the allocation,
edits and cancellations (which the closeout locks), warehouse checks of original orders.

In `Closeout`: reopening by an administrator, the checks on inventory state and on return
signals without a return order, several orders in one closeout, the inFlight guard against
duplicates in one process, saveReturn outside a transaction
(`controllers/returnOrderController.js:59`), the lock of return orders that are posted, the
order of the several reads of a bulk context (they are one step). In `ImportSession`: other
types of import, rows rejected for other reasons than an existing code, parsing, the expiry of uploaded files,
progress, orders whose code the system makes; a preview run inline (it is a run without a second); what commit reads is one
step after the session's, and so is the insertion of all row batches; a change of the review's mode between its
validation and the takeover; `activeCommits`, which keeps apart the confirmations of one
process only; the job type `import_commit`, which only the adapter `AsyncJobHttpAdapter`
submits and no controller uses. In `ReadModelSync`: amounts, the bulk enqueue behind
`PERF_CLOSEOUT_SYNC_BULK_V1` (off by default), more than one closeout at a time per web
process, a source whose ledger has no canonical entry left (it keeps its row), full
rebuilds, writes still on their way when their process ends.

Not modelled at all, beside what the inventory lists as formatting or administration:
the scheduler's stop during its start, the dashboard cache's version taken at the write,
and the reclaim of a stale idempotent request. They are next in the plan.

MongoDB is taken to do what its manual says of single-document atomicity, snapshot
isolation in transactions, write conflicts and unique indexes.

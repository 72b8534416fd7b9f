--------------------------- MODULE BackgroundJobs ---------------------------
(***************************************************************************)
(* The persistent job queue of MK-Pro: the collection `background_jobs`    *)
(* as BackgroundJobService.js reads and writes it, the worker processes of *)
(* backgroundJobWorker.js that lease jobs from it, the executor each       *)
(* worker forks per attempt, and the users who submit and cancel jobs.     *)
(*                                                                         *)
(* One document operation of MongoDB is one step.  A function of the       *)
(* service that awaits two operations is two steps, and what the first one *)
(* read is kept in the caller.                                             *)
(*                                                                         *)
(* A job is identified with its idempotency key, which a unique index      *)
(* guards.  Clock readings are abstracted: a lease is `expired` or not,    *)
(* a retry delay is over or not, and `leaseNo` stands for the value of     *)
(* leaseExpiresAt, which no two lease extensions share.                    *)
(***************************************************************************)
EXTENDS Integers, FiniteSets

CONSTANTS
    Jobs,             \* the jobs users may submit, named by idempotency key
    Workers,          \* worker identities (WORKER_ID)
    NoWorker,         \* the empty leaseOwner
    CancellableJobs,  \* jobs whose type is in CANCELLABLE_WHILE_RUNNING
    CancelRequests,   \* jobs some user asks to cancel
    MaxAttempts,      \* maxAttempts of each job
    AttemptLimit,     \* the clamp of enqueue: no job has more attempts
    Concurrency,      \* CONCURRENCY of a worker
    LeaseMayLapse,    \* may a lease expire under a live attempt (the process
                      \* is paused, or the database out of reach, that long)?
    MaxLeaseNo,       \* bound: no lease numbered higher lapses that way
    MaxRestarts       \* bound: crashes and shutdowns of workers, in total

ASSUME BackgroundJobsAssumption ==
    /\ NoWorker \notin Workers
    /\ CancellableJobs \subseteq Jobs
    /\ CancelRequests \subseteq Jobs
    /\ AttemptLimit \in Nat
    /\ MaxAttempts \in [Jobs -> 1..AttemptLimit]
    /\ Concurrency \in Nat \ {0}
    /\ LeaseMayLapse \in BOOLEAN
    /\ MaxLeaseNo \in Nat
    /\ MaxRestarts \in Nat

VARIABLES
    \* the job document
    status, leaseOwner, attemptCount, leaseNo, leaseExpired, backoff,
    \* the closure runClaimed makes for an attempt: its state and its worker
    phase, ranBy,
    \* the worker process: state, `active` map, a claimNext in flight, rows
    \* the lease sweep has read
    proc, active, claiming, swept,
    \* what a requestCancel in flight has read
    cancelRead,
    restarts

document == <<status, leaseOwner, attemptCount, leaseNo, leaseExpired, backoff>>
worker   == <<proc, active, claiming, swept>>
vars     == <<document, phase, ranBy, worker, cancelRead, restarts>>

TERMINAL == {"completed", "dead_letter", "cancelled"}
Leased   == {"running", "cancel_requested"}
Status   == {"absent", "pending"} \cup Leased \cup TERMINAL

(***************************************************************************)
(* An attempt is `forked` until its executor has read the job, then        *)
(* `executing`.  settle() chooses one of complete / cancel / fail / bury   *)
(* (the last two: a retryable or a non-retryable failure); fail() goes     *)
(* through retrying / burying between its read and its write.  When the    *)
(* worker is killed, its closures are `lost`; an executor at work is not   *)
(* told and goes on as an orphan, `orphaned` until it ends.                *)
(***************************************************************************)
Unsettled == {"forked", "executing"}
Settling  == {"complete", "cancel", "fail", "bury", "retrying", "burying"}
Phase     == {"none", "settled", "orphaned", "lost"} \cup Unsettled \cup Settling

\* A worker waits for the attempt or settles it.
Supervised == Unsettled \cup Settling

\* A process is at work on the attempt.
AtWork == Supervised \cup {"orphaned"}

AttemptNos == 1..AttemptLimit

TypeOK ==
    /\ status \in [Jobs -> Status]
    /\ leaseOwner \in [Jobs -> Workers \cup {NoWorker}]
    /\ attemptCount \in [Jobs -> 0..AttemptLimit]
    /\ leaseNo \in [Jobs -> Nat]
    /\ leaseExpired \in [Jobs -> BOOLEAN]
    /\ backoff \in [Jobs -> BOOLEAN]
    /\ phase \in [Jobs -> [AttemptNos -> Phase]]
    /\ ranBy \in [Jobs -> [AttemptNos -> Workers \cup {NoWorker}]]
    /\ proc \in [Workers -> {"up", "stopping", "down"}]
    /\ active \in [Workers -> SUBSET Jobs]
    /\ claiming \in [Workers -> BOOLEAN]
    /\ swept \in [Workers -> SUBSET (Jobs \X Nat)]
    /\ cancelRead \in [Jobs -> {"none", "pending"} \cup Leased]
    /\ restarts \in Nat

Init ==
    /\ status = [j \in Jobs |-> "absent"]
    /\ leaseOwner = [j \in Jobs |-> NoWorker]
    /\ attemptCount = [j \in Jobs |-> 0]
    /\ leaseNo = [j \in Jobs |-> 0]
    /\ leaseExpired = [j \in Jobs |-> FALSE]
    /\ backoff = [j \in Jobs |-> FALSE]
    /\ phase = [j \in Jobs |-> [k \in AttemptNos |-> "none"]]
    /\ ranBy = [j \in Jobs |-> [k \in AttemptNos |-> NoWorker]]
    /\ proc = [w \in Workers |-> "up"]
    /\ active = [w \in Workers |-> {}]
    /\ claiming = [w \in Workers |-> FALSE]
    /\ swept = [w \in Workers |-> {}]
    /\ cancelRead = [j \in Jobs |-> "none"]
    /\ restarts = 0

-----------------------------------------------------------------------------
(* Users: submit and cancel *)

\* enqueue: a second request with the same key finds the first one's job,
\* before the insert or, through the unique index, after it.
Enqueue(j) ==
    /\ status[j] = "absent"
    /\ status' = [status EXCEPT ![j] = "pending"]
    /\ UNCHANGED <<leaseOwner, attemptCount, leaseNo, leaseExpired, backoff,
                   phase, ranBy, worker, cancelRead, restarts>>

\* requestCancel, up to its first await: the early returns leave no trace.
ReadForCancel(j) ==
    /\ j \in CancelRequests
    /\ cancelRead[j] = "none"
    /\ status[j] \in {"pending", "cancel_requested"}
         \/ (status[j] = "running" /\ j \in CancellableJobs)
    /\ cancelRead' = [cancelRead EXCEPT ![j] = status[j]]
    /\ UNCHANGED <<document, phase, ranBy, worker, restarts>>

CancelApplies_AnyStatus(j) == TRUE  \* mutant: the update does not repeat the status

\* The update of requestCancel is conditional on the status it read.
CancelApplies(j) == status[j] = cancelRead[j]

ApplyCancel(j) ==
    /\ cancelRead[j] # "none"
    /\ cancelRead' = [cancelRead EXCEPT ![j] = "none"]
    /\ IF CancelApplies(j)
       THEN status' = [status EXCEPT ![j] =
                IF cancelRead[j] = "pending" THEN "cancelled" ELSE "cancel_requested"]
       ELSE UNCHANGED status
    /\ UNCHANGED <<leaseOwner, attemptCount, leaseNo, leaseExpired, backoff,
                   phase, ranBy, worker, restarts>>

-----------------------------------------------------------------------------
(* The worker's loop: claim, heartbeat *)

BeginClaim_OffByOne(w) ==  \* mutant: <= CONCURRENCY
    /\ proc[w] = "up"
    /\ ~claiming[w]
    /\ Cardinality(active[w]) <= Concurrency
    /\ claiming' = [claiming EXCEPT ![w] = TRUE]
    /\ UNCHANGED <<document, phase, ranBy, proc, active, swept, cancelRead, restarts>>

\* tick: the guards are read before claimNext is awaited.
BeginClaim(w) ==
    /\ proc[w] = "up"
    /\ ~claiming[w]
    /\ Cardinality(active[w]) < Concurrency
    /\ claiming' = [claiming EXCEPT ![w] = TRUE]
    /\ UNCHANGED <<document, phase, ranBy, proc, active, swept, cancelRead, restarts>>

\* Mutant of Claimable.
Claimable_IgnoresLease(j) ==
    attemptCount[j] < MaxAttempts[j] /\ status[j] \in {"pending", "running"}

Claimable(j) ==
    /\ attemptCount[j] < MaxAttempts[j]
    /\ \/ status[j] = "pending" /\ ~backoff[j]
       \/ status[j] = "running" /\ leaseExpired[j]

\* claimNext, then runClaimed: the executor is forked and `active` filled
\* even if stop() was called meanwhile.
Claim(w, j) ==
    LET k == attemptCount[j] + 1 IN
    /\ claiming[w]
    /\ Claimable(j)
    /\ claiming' = [claiming EXCEPT ![w] = FALSE]
    /\ status' = [status EXCEPT ![j] = "running"]
    /\ leaseOwner' = [leaseOwner EXCEPT ![j] = w]
    /\ attemptCount' = [attemptCount EXCEPT ![j] = k]
    /\ leaseNo' = [leaseNo EXCEPT ![j] = @ + 1]
    /\ leaseExpired' = [leaseExpired EXCEPT ![j] = FALSE]
    /\ phase' = [phase EXCEPT ![j][k] = "forked"]
    /\ ranBy' = [ranBy EXCEPT ![j][k] = w]
    /\ active' = [active EXCEPT ![w] = @ \cup {j}]
    /\ UNCHANGED <<backoff, proc, swept, cancelRead, restarts>>

\* claimNext finds nothing, or its operation fails.
ClaimNothing(w) ==
    /\ claiming[w]
    /\ claiming' = [claiming EXCEPT ![w] = FALSE]
    /\ UNCHANGED <<document, phase, ranBy, proc, active, swept, cancelRead, restarts>>

\* The interval of an unsettled attempt; only a renewal of an expired lease
\* tells anything apart.
Heartbeat(j, k) ==
    /\ phase[j][k] \in Unsettled
    /\ status[j] \in Leased
    /\ leaseOwner[j] = ranBy[j][k]
    /\ leaseExpired[j]
    /\ leaseExpired' = [leaseExpired EXCEPT ![j] = FALSE]
    /\ leaseNo' = [leaseNo EXCEPT ![j] = @ + 1]
    /\ UNCHANGED <<status, leaseOwner, attemptCount, backoff,
                   phase, ranBy, worker, cancelRead, restarts>>

-----------------------------------------------------------------------------
(* The executor and settle() *)

\* Moves attempt k of j out of the unsettled phases: settle() marks the
\* closure settled and deletes active[job.id], whoever put it there.
Settle(j, k, kind) ==
    /\ phase' = [phase EXCEPT ![j][k] = kind]
    /\ active' = [active EXCEPT ![ranBy[j][k]] = @ \ {j}]
    /\ UNCHANGED <<document, ranBy, proc, claiming, swept, cancelRead, restarts>>

\* The executor reads the job: BACKGROUND_JOB_NOT_RUNNABLE is not retryable.
StartExecutor(j, k) ==
    /\ phase[j][k] = "forked"
    /\ IF status[j] \in Leased
       THEN /\ phase' = [phase EXCEPT ![j][k] = "executing"]
            /\ UNCHANGED <<document, ranBy, worker, cancelRead, restarts>>
       ELSE Settle(j, k, "bury")

\* The handler returns, or fails with or without a way to retry.
ExecutorReports(j, k) ==
    /\ phase[j][k] = "executing"
    /\ \E kind \in {"complete", "fail", "bury"} : Settle(j, k, kind)

\* Timeout, exit or fork error, and the SIGTERM / SIGKILL of stop(): all
\* are settled as a retryable failure.
ExecutorDies(j, k) ==
    /\ phase[j][k] \in Unsettled
    /\ Settle(j, k, "fail")

\* cancelWatch: the poll sees cancel_requested.
WatchCancel(j, k) ==
    /\ phase[j][k] \in Unsettled
    /\ status[j] = "cancel_requested"
    /\ j \in CancellableJobs
    /\ Settle(j, k, "cancel")

Release_KeepsOwner(j) == UNCHANGED <<leaseOwner, leaseExpired>>  \* mutant

Release(j) ==
    /\ leaseOwner' = [leaseOwner EXCEPT ![j] = NoWorker]
    /\ leaseExpired' = [leaseExpired EXCEPT ![j] = FALSE]

EndAttempt(j, k) ==
    /\ phase' = [phase EXCEPT ![j][k] = "settled"]
    /\ UNCHANGED <<ranBy, worker, cancelRead, restarts>>

Owns_AnyWorker(j, k) == status[j] \in Leased  \* mutant: the filter drops leaseOwner

\* The filter of complete and markCancelled.
Owns(j, k) == leaseOwner[j] = ranBy[j][k] /\ status[j] \in Leased

Complete(j, k) ==
    /\ phase[j][k] = "complete"
    /\ IF Owns(j, k)
       THEN /\ status' = [status EXCEPT ![j] = "completed"]
            /\ Release(j)
            /\ UNCHANGED <<attemptCount, leaseNo, backoff>>
       ELSE UNCHANGED document
    /\ EndAttempt(j, k)

MarkCancelled(j, k) ==
    /\ phase[j][k] = "cancel"
    /\ IF Owns(j, k)
       THEN /\ status' = [status EXCEPT ![j] = "cancelled"]
            /\ Release(j)
            /\ UNCHANGED <<attemptCount, leaseNo, backoff>>
       ELSE UNCHANGED document
    /\ EndAttempt(j, k)

Exhausted_OffByOne(j) == attemptCount[j] > MaxAttempts[j]  \* mutant

Exhausted(j) == attemptCount[j] >= MaxAttempts[j]

\* fail(), first await: find the job by id and leaseOwner.
ReadForFail(j, k) ==
    /\ phase[j][k] \in {"fail", "bury"}
    /\ phase' = [phase EXCEPT ![j][k] =
            IF leaseOwner[j] # ranBy[j][k] THEN "settled"
            ELSE IF Exhausted(j) \/ phase[j][k] = "bury" THEN "burying"
            ELSE "retrying"]
    /\ UNCHANGED <<document, ranBy, worker, cancelRead, restarts>>

\* fail(), second await: the filter is id and leaseOwner, not the status.
WriteFail(j, k) ==
    /\ phase[j][k] \in {"retrying", "burying"}
    /\ IF leaseOwner[j] = ranBy[j][k]
       THEN /\ status' = [status EXCEPT ![j] =
                    IF phase[j][k] = "burying" THEN "dead_letter" ELSE "pending"]
            /\ backoff' = [backoff EXCEPT ![j] = phase[j][k] = "retrying" \/ @]
            /\ Release(j)
            /\ UNCHANGED <<attemptCount, leaseNo>>
       ELSE UNCHANGED document
    /\ EndAttempt(j, k)

\* The settlement's operation throws: settle() logs it and goes on.
LoseSettlement(j, k) ==
    /\ phase[j][k] \in Settling
    /\ UNCHANGED document
    /\ EndAttempt(j, k)

-----------------------------------------------------------------------------
(* deadLetterExpiredLeases, run by tick once a minute *)

\* Mutant: a job is exhausted only when it went past maxAttempts.
Sweepable_LastAttemptOnly(j) ==
    status[j] = "running" /\ leaseExpired[j] /\ attemptCount[j] > MaxAttempts[j]

Sweepable(j) == status[j] = "running" /\ leaseExpired[j] /\ Exhausted(j)

ReadForSweep(w) ==
    /\ proc[w] # "down"
    /\ swept[w] = {}
    /\ \E j \in Jobs : Sweepable(j)
    /\ swept' = [swept EXCEPT ![w] = {<<j, leaseNo[j]>> : j \in {i \in Jobs : Sweepable(i)}}]
    /\ UNCHANGED <<document, phase, ranBy, proc, active, claiming, cancelRead, restarts>>

SweepApplies_AnyLease(row) == status[row[1]] = "running"  \* mutant: no leaseExpiresAt

\* The update repeats the status and the leaseExpiresAt that were read.
SweepApplies(row) == status[row[1]] = "running" /\ leaseNo[row[1]] = row[2]

ApplySweepRow(w, row) ==
    /\ swept' = [swept EXCEPT ![w] = @ \ {row}]
    /\ IF SweepApplies(row)
       THEN /\ status' = [status EXCEPT ![row[1]] = "dead_letter"]
            /\ Release(row[1])
            /\ UNCHANGED <<attemptCount, leaseNo, backoff>>
       ELSE UNCHANGED document
    /\ UNCHANGED <<phase, ranBy, proc, active, claiming, cancelRead, restarts>>

ApplySweep(w) == \E row \in swept[w] : ApplySweepRow(w, row)

-----------------------------------------------------------------------------
(* Shutdown, crash, restart, time *)

\* stop(): no further tick begins a claim.
Stop(w) ==
    /\ proc[w] = "up"
    /\ restarts < MaxRestarts
    /\ restarts' = restarts + 1
    /\ proc' = [proc EXCEPT ![w] = "stopping"]
    /\ UNCHANGED <<document, phase, ranBy, active, claiming, swept, cancelRead>>

\* The process is gone, with every closure it held.  Its executors are
\* processes of their own: fork() without a `disconnect` handler in the child.
Gone(w) ==
    /\ proc' = [proc EXCEPT ![w] = "down"]
    /\ active' = [active EXCEPT ![w] = {}]
    /\ claiming' = [claiming EXCEPT ![w] = FALSE]
    /\ swept' = [swept EXCEPT ![w] = {}]
    /\ phase' = [j \in Jobs |-> [k \in AttemptNos |->
            IF ranBy[j][k] # w THEN phase[j][k]
            ELSE IF phase[j][k] \in Unsettled THEN "orphaned"
            ELSE IF phase[j][k] \in Settling THEN "lost"
            ELSE phase[j][k]]]
    /\ UNCHANGED <<document, ranBy, cancelRead>>

\* stop() kills the executors and waits for `active` only: a settlement in
\* flight is not in it.
Exit(w) ==
    /\ proc[w] = "stopping"
    /\ active[w] = {}
    /\ Gone(w)
    /\ UNCHANGED restarts

Crash(w) ==
    /\ proc[w] # "down"
    /\ restarts < MaxRestarts
    /\ restarts' = restarts + 1
    /\ Gone(w)

Restart(w) ==
    /\ proc[w] = "down"
    /\ proc' = [proc EXCEPT ![w] = "up"]
    /\ UNCHANGED <<document, phase, ranBy, active, claiming, swept, cancelRead, restarts>>

\* An orphan has run its handler to the end, or has found the job in a status
\* that is not for it.  Its report goes nowhere and no timer of the worker is
\* left to kill it; it writes nothing in the job but the progress field.
OrphanEnds(j, k) ==
    /\ phase[j][k] = "orphaned"
    /\ phase' = [phase EXCEPT ![j][k] = "lost"]
    /\ UNCHANGED <<document, ranBy, worker, cancelRead, restarts>>

\* Some worker supervises an attempt for the leaseOwner of j, and renews or
\* ends the lease.
HeldAlive(j) ==
    \E k \in AttemptNos :
        phase[j][k] \in Supervised /\ ranBy[j][k] = leaseOwner[j]

\* leaseExpiresAt passes.
ExpireLease(j) ==
    /\ status[j] \in Leased
    /\ ~leaseExpired[j]
    /\ HeldAlive(j) => LeaseMayLapse /\ leaseNo[j] < MaxLeaseNo
    /\ leaseExpired' = [leaseExpired EXCEPT ![j] = TRUE]
    /\ UNCHANGED <<status, leaseOwner, attemptCount, leaseNo, backoff,
                   phase, ranBy, worker, cancelRead, restarts>>

\* availableAt passes.
BackoffElapses(j) ==
    /\ backoff[j]
    /\ backoff' = [backoff EXCEPT ![j] = FALSE]
    /\ UNCHANGED <<status, leaseOwner, attemptCount, leaseNo, leaseExpired,
                   phase, ranBy, worker, cancelRead, restarts>>

-----------------------------------------------------------------------------
AttemptStep(j, k) ==
    \/ StartExecutor(j, k) \/ ExecutorReports(j, k) \/ ExecutorDies(j, k)
    \/ WatchCancel(j, k) \/ Heartbeat(j, k)
    \/ Complete(j, k) \/ MarkCancelled(j, k)
    \/ ReadForFail(j, k) \/ WriteFail(j, k) \/ LoseSettlement(j, k)
    \/ OrphanEnds(j, k)

JobStep(j) ==
    \/ Enqueue(j) \/ ReadForCancel(j) \/ ApplyCancel(j)
    \/ ExpireLease(j) \/ BackoffElapses(j)

WorkerStep(w) ==
    \/ BeginClaim(w) \/ ClaimNothing(w)
    \/ \E j \in Jobs : Claim(w, j)
    \/ ReadForSweep(w) \/ ApplySweep(w)
    \/ Stop(w) \/ Exit(w) \/ Crash(w) \/ Restart(w)

Next ==
    \/ \E j \in Jobs : JobStep(j)
    \/ \E j \in Jobs, k \in AttemptNos : AttemptStep(j, k)
    \/ \E w \in Workers : WorkerStep(w)

Spec == Init /\ [][Next]_vars

(***************************************************************************)
(* Fairness.  The worker's timers fire, a forked executor ends (the        *)
(* timeout kills it), MongoDB does not fail every operation for ever, and  *)
(* the supervisor restarts a worker.  Users owe nothing, and an orphan may *)
(* never end.                                                              *)
(***************************************************************************)
Fairness ==
    /\ \A j \in Jobs :
        /\ WF_vars(ExpireLease(j)) /\ WF_vars(BackoffElapses(j))
        /\ WF_vars(ApplyCancel(j))
    /\ \A j \in Jobs, k \in AttemptNos :
        /\ WF_vars(StartExecutor(j, k))
        /\ WF_vars(ExecutorReports(j, k) \/ ExecutorDies(j, k))
        /\ WF_vars(WatchCancel(j, k))
        /\ WF_vars(Complete(j, k)) /\ WF_vars(MarkCancelled(j, k))
        /\ WF_vars(ReadForFail(j, k)) /\ WF_vars(WriteFail(j, k))
    /\ \A w \in Workers :
        /\ WF_vars(BeginClaim(w)) /\ WF_vars(ClaimNothing(w))
        /\ WF_vars(ReadForSweep(w)) /\ WF_vars(ApplySweep(w))
        /\ WF_vars(Exit(w)) /\ WF_vars(Restart(w))
    /\ SF_vars(\E w \in Workers, j \in Jobs : Claim(w, j))

FairSpec == Spec /\ Fairness

-----------------------------------------------------------------------------
(* Properties of the queue, with every fault the model has *)

\* A job has a leaseOwner exactly while it is running or being cancelled.
\* fail() filters its write by leaseOwner alone, so this is what keeps a
\* late failure away from a job that ended or went back to the queue.
LeaseHeldWhileRunning ==
    \A j \in Jobs : leaseOwner[j] # NoWorker <=> status[j] \in Leased

\* A job that writes data is cancelled before any worker claims it, or not
\* at all, whatever claim and cancel requests cross (runbook, section 4).
CancelledBeforeClaim ==
    \A j \in Jobs \ CancellableJobs :
        status[j] \in {"cancelled", "cancel_requested"} /\ MaxAttempts[j] = 1
            => attemptCount[j] = 0

\* A completed, dead or cancelled job keeps its status whatever late
\* settlement, sweep, cancellation or heartbeat arrives.
TerminalIsFinal ==
    [][\A j \in Jobs : status[j] \in TERMINAL => status'[j] = status[j]]_vars

\* An attempt that lost the job to another worker does not decide its
\* outcome: the document changes by settlements of the last claimant only.
LastClaimantSettles ==
    [][\A j \in Jobs, k \in AttemptNos :
        phase[j][k] \in Settling /\ phase'[j][k] = "settled" /\ status'[j] # status[j]
            => ranBy[j][k] = ranBy[j][attemptCount[j]]]_vars

\* The sweep buries a job only while its lease is expired: a worker on its
\* last attempt that renewed in time goes on.
SweepSparesLiveLease ==
    [][\A j \in Jobs :
        status[j] = "running" /\ ~leaseExpired[j] /\ status'[j] = "dead_letter"
            => \E k \in AttemptNos : phase[j][k] = "burying"]_vars

(* Properties of the queue when no lease lapses under a live attempt *)

\* A worker supervises at most Concurrency executors at a time.
BoundedConcurrency ==
    \A w \in Workers :
        Cardinality({a \in Jobs \X AttemptNos :
            ranBy[a[1]][a[2]] = w /\ phase[a[1]][a[2]] \in Unsettled}) <= Concurrency

\* Two attempts of one job overlap only after a hard kill: the earlier of the
\* two is then an orphan, which no worker waits for and which decides nothing.
\* Restarts, lost settlements and sweeps never put a worker at work on a job
\* that another one, or the same one, still has in hand.
OnlyOrphansOverlap ==
    \A j \in Jobs, k, n \in AttemptNos :
        k < n /\ phase[j][k] \in AtWork /\ phase[j][n] \in AtWork
            => phase[j][k] = "orphaned"

\* What a job's status and its attempts mean on a job board.
Standing(value) ==
    CASE value = "absent"     -> "absent"
      [] value = "pending"    -> "waiting"
      [] value \in Leased     -> "out"
      [] value \in TERMINAL   -> "over"

\* The workers that have the job in hand: an orphan is no worker's.
HandsOn(j) ==
    {ranBy[j][k] : k \in {n \in AttemptNos : phase[j][n] \in Supervised}}

Board == INSTANCE JobBoard WITH
    Tries <- MaxAttempts,
    state <- [j \in Jobs |-> Standing(status[j])],
    hands <- [j \in Jobs |-> HandsOn(j)],
    taken <- attemptCount

\* The queue is a job board (JobBoard): one worker at a time has a job and
\* alone decides it, a job that goes back may be claimed again, and heartbeats,
\* late writes, stale rows of the sweep and restarts do not show.
ImplementsBoard == Board!Spec

\* Every submitted job ends, completed, dead or cancelled, unless it is asked
\* to stop while it runs: no sweep takes up a job in cancel_requested whose
\* worker died.
EveryJobSettles ==
    \A j \in Jobs :
        status[j] = "pending" ~> status[j] \in TERMINAL \cup {"cancel_requested"}
=============================================================================

------------------------ MODULE BackgroundJobsProofs ------------------------
(***************************************************************************)
(* Safety of the job queue for every set of jobs and workers, every        *)
(* maxAttempts, and leases that may lapse at any time.                     *)
(***************************************************************************)
EXTENDS BackgroundJobs, Functions, FiniteSetTheorems, TLAPS

\* The variables keep their types: in particular no job is tried more often
\* than the clamp of enqueue allows.
THEOREM TypeCorrect == Spec => []TypeOK
<1>1. Init => TypeOK
  BY BackgroundJobsAssumption DEF Init, TypeOK, Status, Phase
<1>2. TypeOK /\ [Next]_vars => TypeOK'
  <2> SUFFICES ASSUME TypeOK, [Next]_vars
               PROVE  TypeOK'
    OBVIOUS
  <2> USE BackgroundJobsAssumption
       DEF TypeOK, Status, Phase, Leased, TERMINAL, Unsettled, Settling, worker, document
  <2>1. ASSUME NEW j \in Jobs, JobStep(j)
        PROVE  TypeOK'
    <3>1. CASE Enqueue(j)        BY <3>1 DEF Enqueue
    <3>2. CASE ReadForCancel(j)  BY <3>2 DEF ReadForCancel
    <3>3. CASE ApplyCancel(j)    BY <3>3 DEF ApplyCancel
    <3>4. CASE ExpireLease(j)    BY <3>4 DEF ExpireLease
    <3>5. CASE BackoffElapses(j) BY <3>5 DEF BackoffElapses
    <3> QED BY <2>1, <3>1, <3>2, <3>3, <3>4, <3>5 DEF JobStep
  <2>2. ASSUME NEW j \in Jobs, NEW k \in AttemptNos, AttemptStep(j, k)
        PROVE  TypeOK'
    <3> USE DEF Settle, EndAttempt, Release
    <3>a. ASSUME NEW kind \in Settling, Settle(j, k, kind)
          PROVE  TypeOK'
      BY <3>a
    <3>1. CASE StartExecutor(j, k)
      <4>1. CASE status[j] \in Leased
        <5>1. /\ phase' = [phase EXCEPT ![j][k] = "executing"]
              /\ UNCHANGED <<document, ranBy, worker, cancelRead, restarts>>
          BY <3>1, <4>1 DEF StartExecutor
        <5> QED BY <5>1
      <4>2. CASE ~ (status[j] \in Leased)
        <5>1. Settle(j, k, "bury") BY <3>1, <4>2 DEF StartExecutor
        <5> QED BY <3>a, <5>1
      <4> QED BY <4>1, <4>2
    <3>2. CASE ExecutorReports(j, k)
      <4>1. PICK kind \in {"complete", "fail", "bury"} : Settle(j, k, kind)
        BY <3>2 DEF ExecutorReports
      <4> QED BY <3>a, <4>1
    <3>3. CASE ExecutorDies(j, k)    BY <3>3, <3>a DEF ExecutorDies
    <3>4. CASE WatchCancel(j, k)     BY <3>4, <3>a DEF WatchCancel
    <3>5. CASE Heartbeat(j, k)       BY <3>5 DEF Heartbeat
    <3>6. CASE Complete(j, k)        BY <3>6 DEF Complete
    <3>7. CASE MarkCancelled(j, k)   BY <3>7 DEF MarkCancelled
    <3>8. CASE ReadForFail(j, k)     BY <3>8 DEF ReadForFail
    <3>9. CASE WriteFail(j, k)       BY <3>9 DEF WriteFail
    <3>10. CASE LoseSettlement(j, k) BY <3>10 DEF LoseSettlement
    <3>11. CASE OrphanEnds(j, k)     BY <3>11 DEF OrphanEnds
    <3> QED BY <2>2, <3>1, <3>2, <3>3, <3>4, <3>5, <3>6, <3>7, <3>8, <3>9, <3>10, <3>11
            DEF AttemptStep
  <2>3. ASSUME NEW w \in Workers, WorkerStep(w)
        PROVE  TypeOK'
    <3>1. CASE BeginClaim(w)   BY <3>1 DEF BeginClaim
    <3>2. CASE ClaimNothing(w) BY <3>2 DEF ClaimNothing
    <3>3. ASSUME NEW j \in Jobs, Claim(w, j)
          PROVE  TypeOK'
      <4>1. attemptCount[j] + 1 \in AttemptNos
        BY <3>3 DEF Claim, Claimable, AttemptNos
      <4> QED BY <3>3, <4>1 DEF Claim, AttemptNos
    <3>4. CASE ReadForSweep(w) BY <3>4 DEF ReadForSweep
    <3>5. CASE ApplySweep(w)
      <4>1. PICK row \in swept[w] : ApplySweepRow(w, row)
        BY <3>5 DEF ApplySweep
      <4>2. row[1] \in Jobs
        BY <4>1
      <4> QED BY <4>1, <4>2 DEF ApplySweepRow, Release
    <3>6. CASE Stop(w)         BY <3>6 DEF Stop
    <3>7. CASE Exit(w)         BY <3>7 DEF Exit, Gone
    <3>8. CASE Crash(w)        BY <3>8 DEF Crash, Gone
    <3>9. CASE Restart(w)      BY <3>9 DEF Restart
    <3> QED BY <2>3, <3>1, <3>2, <3>3, <3>4, <3>5, <3>6, <3>7, <3>8, <3>9
            DEF WorkerStep
  <2>4. CASE UNCHANGED vars
    BY <2>4 DEF vars
  <2> QED BY <2>1, <2>2, <2>3, <2>4 DEF Next
<1> QED BY <1>1, <1>2, PTL DEF Spec

-----------------------------------------------------------------------------
(***************************************************************************)
(* The inductive invariant.  fail() repeats neither the status nor the     *)
(* attempt in its write, so the safety of the queue rests on leaseOwner:   *)
(* it is set exactly while the job is leased, it names the worker of the   *)
(* last attempt, and every attempt belongs to a worker (so that the empty  *)
(* leaseOwner of a job that ended matches no late settlement).             *)
(***************************************************************************)
OwnerIsLastClaimant ==
    \A j \in Jobs : status[j] \in Leased =>
        /\ attemptCount[j] \in AttemptNos
        /\ leaseOwner[j] = ranBy[j][attemptCount[j]]

AttemptsWereClaimed ==
    \A j \in Jobs, k \in AttemptNos : phase[j][k] # "none" =>
        k <= attemptCount[j] /\ ranBy[j][k] \in Workers

WritersAreNotCancelled ==
    \A j \in Jobs \ CancellableJobs :
        /\ status[j] # "cancel_requested"
        /\ cancelRead[j] \in {"none", "pending"}
        /\ \A k \in AttemptNos : phase[j][k] # "cancel"

SingleAttempts ==
    \A j \in Jobs \ CancellableJobs : MaxAttempts[j] = 1 =>
        /\ \A k \in AttemptNos : phase[j][k] # "retrying"
        /\ status[j] \in {"absent", "pending", "cancelled"} => attemptCount[j] = 0

IInv ==
    /\ TypeOK
    /\ LeaseHeldWhileRunning
    /\ OwnerIsLastClaimant
    /\ AttemptsWereClaimed
    /\ WritersAreNotCancelled
    /\ SingleAttempts

LEMMA IInvInit == Init => IInv
  BY BackgroundJobsAssumption
  DEF Init, IInv, TypeOK, Status, Phase, LeaseHeldWhileRunning, OwnerIsLastClaimant,
      AttemptsWereClaimed, WritersAreNotCancelled, SingleAttempts, Leased

LEMMA IInvNext == IInv /\ TypeOK' /\ [Next]_vars => IInv'
<1> SUFFICES ASSUME IInv, TypeOK', [Next]_vars
             PROVE  IInv'
  OBVIOUS
<1> USE BackgroundJobsAssumption
<1> DEFINE Parts == /\ LeaseHeldWhileRunning /\ OwnerIsLastClaimant
                    /\ AttemptsWereClaimed /\ WritersAreNotCancelled /\ SingleAttempts
<1> USE DEF LeaseHeldWhileRunning, OwnerIsLastClaimant, AttemptsWereClaimed,
            WritersAreNotCancelled, SingleAttempts
<1>t. TypeOK /\ Parts
  BY DEF IInv
<1>p. SUFFICES Parts'
  BY DEF IInv
<1>1. ASSUME NEW j \in Jobs, JobStep(j)
      PROVE  Parts'
  <2>1. CASE Enqueue(j)
    BY <1>t, <2>1 DEF Enqueue, TypeOK, Leased, TERMINAL
  <2>2. CASE ReadForCancel(j)
    BY <1>t, <2>2 DEF ReadForCancel, document, TypeOK, Leased
  <2>3. CASE ApplyCancel(j)
    <3>1. CASE CancelApplies(j)
      <4>1. status' = [status EXCEPT ![j] =
                IF cancelRead[j] = "pending" THEN "cancelled" ELSE "cancel_requested"]
        BY <2>3, <3>1 DEF ApplyCancel
      <4>2. cancelRead[j] \in {"pending"} \cup Leased /\ status[j] = cancelRead[j]
        BY <1>t, <2>3, <3>1 DEF ApplyCancel, CancelApplies, TypeOK, Leased
      <4>3. j \notin CancellableJobs => cancelRead[j] = "pending"
        BY <1>t, <4>2 DEF Leased
      <4> QED BY <1>t, <2>3, <4>1, <4>2, <4>3 DEF ApplyCancel, TypeOK, Leased
    <3>2. CASE ~CancelApplies(j)
      BY <1>t, <2>3, <3>2 DEF ApplyCancel, TypeOK, Leased
    <3> QED BY <3>1, <3>2
  <2>4. CASE ExpireLease(j)
    BY <1>t, <2>4 DEF ExpireLease
  <2>5. CASE BackoffElapses(j)
    BY <1>t, <2>5 DEF BackoffElapses
  <2> QED BY <1>1, <2>1, <2>2, <2>3, <2>4, <2>5 DEF JobStep
<1>2. ASSUME NEW j \in Jobs, NEW k \in AttemptNos, AttemptStep(j, k)
      PROVE  Parts'
  <2>a. ASSUME NEW kind \in Settling, kind \notin {"cancel", "retrying"},
               phase[j][k] \in Unsettled, Settle(j, k, kind)
        PROVE  Parts'
    BY <1>t, <2>a DEF Settle, document, TypeOK, Unsettled, Settling, Leased
  <2>1. CASE StartExecutor(j, k)
    <3>1. CASE status[j] \in Leased
      <4>1. /\ phase' = [phase EXCEPT ![j][k] = "executing"]
            /\ UNCHANGED <<document, ranBy, worker, cancelRead, restarts>>
        BY <2>1, <3>1 DEF StartExecutor
      <4> QED BY <1>t, <2>1, <4>1 DEF StartExecutor, document, TypeOK
    <3>2. CASE ~ (status[j] \in Leased)
      <4>1. Settle(j, k, "bury") /\ phase[j][k] \in Unsettled
        BY <2>1, <3>2 DEF StartExecutor, Unsettled
      <4> QED BY <2>a, <4>1 DEF Settling
    <3> QED BY <3>1, <3>2
  <2>2. CASE ExecutorReports(j, k)
    BY <2>2, <2>a DEF ExecutorReports, Unsettled, Settling
  <2>3. CASE ExecutorDies(j, k)
    BY <2>3, <2>a DEF ExecutorDies, Unsettled, Settling
  <2>4. CASE WatchCancel(j, k)
    BY <1>t, <2>4 DEF WatchCancel, Settle, document, TypeOK, Unsettled, Settling, Leased
  <2>5. CASE Heartbeat(j, k)
    BY <1>t, <2>5 DEF Heartbeat
  <2>6. CASE Complete(j, k)
    BY <1>t, <2>6 DEF Complete, Owns, Release, EndAttempt, document, TypeOK, Leased
  <2>7. CASE MarkCancelled(j, k)
    <3>0. j \in CancellableJobs
      BY <1>t, <2>7 DEF MarkCancelled
    <3>1. CASE Owns(j, k)
      <4>1. /\ status' = [status EXCEPT ![j] = "cancelled"]
            /\ leaseOwner' = [leaseOwner EXCEPT ![j] = NoWorker]
            /\ phase' = [phase EXCEPT ![j][k] = "settled"]
            /\ UNCHANGED <<attemptCount, ranBy, cancelRead>>
        BY <2>7, <3>1 DEF MarkCancelled, Release, EndAttempt
      <4> QED BY <1>t, <3>0, <4>1, <2>7 DEF TypeOK, Leased, MarkCancelled
    <3>2. CASE ~Owns(j, k)
      BY <1>t, <2>7, <3>2 DEF MarkCancelled, EndAttempt, document, TypeOK
    <3> QED BY <3>1, <3>2
  <2>8. CASE ReadForFail(j, k)
    <3>1. attemptCount[j] \in Nat /\ attemptCount[j] >= 1
      <4>1. k \in Nat /\ k >= 1 /\ attemptCount[j] \in Nat
        BY <1>t DEF AttemptNos, TypeOK
      <4>2. k <= attemptCount[j]
        BY <1>t, <2>8 DEF ReadForFail
      <4> QED BY <4>1, <4>2
    <3>2. PICK next \in {"settled", "burying", "retrying"} :
             /\ phase' = [phase EXCEPT ![j][k] = next]
             /\ next = "retrying" => ~Exhausted(j)
      <4> DEFINE next == IF leaseOwner[j] # ranBy[j][k] THEN "settled"
                         ELSE IF Exhausted(j) \/ phase[j][k] = "bury" THEN "burying"
                         ELSE "retrying"
      <4>1. phase' = [phase EXCEPT ![j][k] = next]
        BY <2>8 DEF ReadForFail
      <4>2. next \in {"settled", "burying", "retrying"} /\ (next = "retrying" => ~Exhausted(j))
        OBVIOUS
      <4> HIDE DEF next
      <4> QED BY <4>1, <4>2
    <3>3. MaxAttempts[j] = 1 => next # "retrying"
      BY <3>1, <3>2 DEF Exhausted
    <3>4. /\ UNCHANGED <<status, leaseOwner, attemptCount, ranBy, cancelRead>>
          /\ phase[j][k] # "none"
      BY <2>8 DEF ReadForFail, document
    <3> QED BY <1>t, <3>2, <3>3, <3>4 DEF TypeOK
  <2>9. CASE WriteFail(j, k)
    <3>1. CASE leaseOwner[j] = ranBy[j][k]
      <4>1. PICK next \in {"dead_letter", "pending"} :
               /\ status' = [status EXCEPT ![j] = next]
               /\ next = "pending" => phase[j][k] = "retrying"
        BY <2>9, <3>1 DEF WriteFail
      <4>2. j \notin CancellableJobs /\ MaxAttempts[j] = 1 => next # "pending"
        BY <1>t, <4>1
      <4> QED BY <1>t, <2>9, <3>1, <4>1, <4>2
              DEF WriteFail, Release, EndAttempt, TypeOK, Leased
    <3>2. CASE leaseOwner[j] # ranBy[j][k]
      BY <1>t, <2>9, <3>2 DEF WriteFail, EndAttempt, document, TypeOK
    <3> QED BY <3>1, <3>2
  <2>10. CASE LoseSettlement(j, k)
    BY <1>t, <2>10 DEF LoseSettlement, EndAttempt, document, TypeOK, Settling
  <2>11. CASE OrphanEnds(j, k)
    BY <1>t, <2>11 DEF OrphanEnds, document, TypeOK
  <2> QED BY <1>2, <2>1, <2>2, <2>3, <2>4, <2>5, <2>6, <2>7, <2>8, <2>9, <2>10, <2>11
          DEF AttemptStep
<1>3. ASSUME NEW w \in Workers, WorkerStep(w)
      PROVE  Parts'
  <2>1. CASE BeginClaim(w)   BY <1>t, <2>1 DEF BeginClaim, document
  <2>2. CASE ClaimNothing(w) BY <1>t, <2>2 DEF ClaimNothing, document
  <2>3. ASSUME NEW j \in Jobs, Claim(w, j)
        PROVE  Parts'
    <3>1. attemptCount[j] + 1 \in AttemptNos
      BY <1>t, <2>3 DEF Claim, Claimable, AttemptNos, TypeOK
    <3> QED BY <1>t, <2>3, <3>1 DEF Claim, Claimable, TypeOK, Leased, AttemptNos
  <2>4. CASE ReadForSweep(w) BY <1>t, <2>4 DEF ReadForSweep, document
  <2>5. CASE ApplySweep(w)
    <3>1. PICK row \in swept[w] : ApplySweepRow(w, row)
      BY <2>5 DEF ApplySweep
    <3>2. row[1] \in Jobs
      BY <1>t, <3>1 DEF TypeOK
    <3>3. CASE SweepApplies(row)
      <4>1. status[row[1]] = "running" /\ status' = [status EXCEPT ![row[1]] = "dead_letter"]
        BY <3>1, <3>3 DEF ApplySweepRow, SweepApplies
      <4> QED BY <1>t, <3>1, <3>2, <3>3, <4>1 DEF ApplySweepRow, Release, TypeOK, Leased
    <3>4. CASE ~SweepApplies(row)
      BY <1>t, <3>1, <3>4 DEF ApplySweepRow, document
    <3> QED BY <3>3, <3>4
  <2>6. CASE Stop(w)         BY <1>t, <2>6 DEF Stop, document
  <2>7. ASSUME Gone(w)
        PROVE  Parts'
    BY <1>t, <2>7 DEF Gone, document, TypeOK, Unsettled, Settling
  <2>8. CASE Restart(w)      BY <1>t, <2>8 DEF Restart, document
  <2> QED BY <1>3, <2>1, <2>2, <2>3, <2>4, <2>5, <2>6, <2>7, <2>8
          DEF WorkerStep, Exit, Crash
<1>4. CASE UNCHANGED vars
  BY <1>t, <1>4 DEF vars, document
<1> QED BY <1>1, <1>2, <1>3, <1>4 DEF Next

LEMMA Invariance == Spec => []IInv
<1>1. Spec => []TypeOK
  BY TypeCorrect
<1>2. TypeOK /\ TypeOK' /\ IInv /\ [Next]_vars => IInv'
  BY IInvNext
<1> QED BY <1>1, <1>2, IInvInit, PTL DEF Spec

\* A job has a leaseOwner exactly while it is leased (complete, fail,
\* markCancelled and the sweep all clear it, requestCancel never needs to).
THEOREM LeaseHeld == Spec => []LeaseHeldWhileRunning
  BY Invariance, PTL DEF IInv

\* A data-writing job with one attempt is never cancelled once it was claimed.
THEOREM NoCancelAfterClaim == Spec => []CancelledBeforeClaim
<1>1. IInv => CancelledBeforeClaim
  BY DEF IInv, CancelledBeforeClaim, WritersAreNotCancelled, SingleAttempts
<1> QED BY <1>1, Invariance, PTL

\* No step changes the status of a job that ended.
LEMMA StatusStep ==
    ASSUME IInv, Next, NEW j \in Jobs, status'[j] # status[j], status[j] \in TERMINAL
    PROVE  FALSE
<1> USE BackgroundJobsAssumption
<1>t. TypeOK /\ LeaseHeldWhileRunning /\ AttemptsWereClaimed
  BY DEF IInv
<1>o. leaseOwner[j] = NoWorker /\ status[j] \notin Leased /\ status[j] \notin {"absent", "pending"}
  BY <1>t DEF TERMINAL, Leased, LeaseHeldWhileRunning, TypeOK
<1>1. ASSUME NEW i \in Jobs, JobStep(i)
      PROVE  FALSE
  <2>1. CASE ApplyCancel(i)
    BY <1>t, <1>o, <2>1 DEF ApplyCancel, CancelApplies, TypeOK, Leased
  <2> QED BY <1>t, <1>o, <1>1, <2>1
          DEF JobStep, Enqueue, ReadForCancel, ExpireLease, BackoffElapses, document, TypeOK
<1>2. ASSUME NEW i \in Jobs, NEW k \in AttemptNos, AttemptStep(i, k)
      PROVE  FALSE
  <2>1. CASE Complete(i, k)
    BY <1>t, <1>o, <2>1 DEF Complete, Owns, document, TypeOK
  <2>2. CASE MarkCancelled(i, k)
    BY <1>t, <1>o, <2>2 DEF MarkCancelled, Owns, document, TypeOK
  <2>3. CASE WriteFail(i, k)
    <3>1. ranBy[i][k] \in Workers
      BY <1>t, <2>3 DEF WriteFail, AttemptsWereClaimed
    <3> QED BY <1>t, <1>o, <2>3, <3>1 DEF WriteFail, document, TypeOK
  <2> QED BY <1>2, <2>1, <2>2, <2>3
          DEF AttemptStep, StartExecutor, ExecutorReports, ExecutorDies, WatchCancel,
              Heartbeat, Settle, ReadForFail, LoseSettlement, OrphanEnds, document
<1>3. ASSUME NEW w \in Workers, WorkerStep(w)
      PROVE  FALSE
  <2>1. ASSUME NEW i \in Jobs, Claim(w, i)
        PROVE  FALSE
    BY <1>t, <1>o, <2>1 DEF Claim, Claimable, TypeOK, Leased
  <2>2. CASE ApplySweep(w)
    <3>1. PICK row \in swept[w] : ApplySweepRow(w, row)
      BY <2>2 DEF ApplySweep
    <3> QED BY <1>t, <1>o, <3>1 DEF ApplySweepRow, SweepApplies, document, TypeOK, Leased
  <2> QED BY <1>3, <2>1, <2>2
          DEF WorkerStep, BeginClaim, ClaimNothing, ReadForSweep, Stop, Exit, Crash, Gone,
              Restart, document
<1> QED BY <1>1, <1>2, <1>3 DEF Next

\* Once completed, dead-lettered or cancelled, always so: the write of
\* fail(), which has no condition on the status, never finds its leaseOwner.
THEOREM EndedStaysEnded == Spec => TerminalIsFinal
<1>1. IInv /\ [Next]_vars =>
        [\A j \in Jobs : status[j] \in TERMINAL => status'[j] = status[j]]_vars
  BY StatusStep
<1> QED BY <1>1, Invariance, PTL DEF Spec, TerminalIsFinal

\* A settlement that changes the job comes from the worker of its last attempt.
THEOREM LastClaimantDecides == Spec => LastClaimantSettles
<1> USE BackgroundJobsAssumption
<1>1. ASSUME IInv, Next, NEW j \in Jobs, NEW k \in AttemptNos,
             phase[j][k] \in Settling, phase'[j][k] = "settled", status'[j] # status[j]
      PROVE  ranBy[j][k] = ranBy[j][attemptCount[j]]
  <2>t. TypeOK /\ LeaseHeldWhileRunning /\ AttemptsWereClaimed /\ OwnerIsLastClaimant
    BY <1>1 DEF IInv
  <2>p. phase'[j][k] # phase[j][k]
    BY <1>1 DEF Settling
  <2>1. ASSUME NEW i \in Jobs, JobStep(i)
        PROVE  FALSE
    BY <1>1, <2>p, <2>1
    DEF JobStep, Enqueue, ReadForCancel, ApplyCancel, ExpireLease, BackoffElapses
  <2>2. ASSUME NEW w \in Workers, WorkerStep(w)
        PROVE  FALSE
    <3>1. ASSUME NEW i \in Jobs, Claim(w, i)
          PROVE  FALSE
      <4>1. \/ phase'[j][k] = phase[j][k]
            \/ phase'[j][k] = "forked"
        BY <2>t, <3>1 DEF Claim, TypeOK
      <4> QED BY <1>1, <2>p, <4>1
    <3>2. ASSUME Gone(w)
          PROVE  FALSE
      BY <1>1, <3>2 DEF Gone, document
    <3> QED BY <1>1, <2>p, <2>2, <3>1, <3>2
            DEF WorkerStep, BeginClaim, ClaimNothing, ReadForSweep, ApplySweep,
                ApplySweepRow, Stop, Exit, Crash, Restart, document
  <2>3. ASSUME NEW i \in Jobs, NEW m \in AttemptNos, AttemptStep(i, m)
        PROVE  ranBy[j][k] = ranBy[j][attemptCount[j]]
    <3>1. i = j /\ m = k /\ leaseOwner[j] = ranBy[j][k]
      <4>1. CASE Complete(i, m)
        BY <1>1, <2>t, <2>p, <4>1 DEF Complete, Owns, EndAttempt, document, TypeOK
      <4>2. CASE MarkCancelled(i, m)
        BY <1>1, <2>t, <2>p, <4>2 DEF MarkCancelled, Owns, EndAttempt, document, TypeOK
      <4>3. CASE WriteFail(i, m)
        BY <1>1, <2>t, <2>p, <4>3 DEF WriteFail, EndAttempt, document, TypeOK
      <4> QED BY <1>1, <2>3, <4>1, <4>2, <4>3
              DEF AttemptStep, StartExecutor, ExecutorReports, ExecutorDies, WatchCancel,
                  Heartbeat, Settle, ReadForFail, LoseSettlement, OrphanEnds, document
    <3>2. ranBy[j][k] \in Workers
      BY <1>1, <2>t DEF AttemptsWereClaimed, Settling
    <3> QED BY <2>t, <3>1, <3>2 DEF LeaseHeldWhileRunning, OwnerIsLastClaimant
  <2> QED BY <1>1, <2>1, <2>2, <2>3 DEF Next
<1>2. IInv /\ [Next]_vars =>
        [\A j \in Jobs, k \in AttemptNos :
            phase[j][k] \in Settling /\ phase'[j][k] = "settled" /\ status'[j] # status[j]
                => ranBy[j][k] = ranBy[j][attemptCount[j]]]_vars
  BY <1>1
<1> QED BY <1>2, Invariance, PTL DEF Spec, LastClaimantSettles

-----------------------------------------------------------------------------
(***************************************************************************)
(* The sweep.  It acts on what it read some time ago, and repeats of that  *)
(* the status and leaseExpiresAt.  A lease number names one lease, from    *)
(* the claim or renewal that writes it to the next, and a lease that has   *)
(* expired stays so: a row whose number is still the job's is still right. *)
(***************************************************************************)
SweptRowsHold ==
    \A w \in Workers : \A row \in swept[w] :
        /\ row[2] <= leaseNo[row[1]]
        /\ row[2] = leaseNo[row[1]] /\ status[row[1]] \in Leased => leaseExpired[row[1]]

\* Within one lease number a job keeps its lease, and an expired one stays
\* expired.
LEMMA LeaseStep ==
    ASSUME TypeOK, [Next]_vars, NEW j \in Jobs
    PROVE  /\ leaseNo[j] <= leaseNo'[j]
           /\ leaseNo'[j] = leaseNo[j] /\ status'[j] \in Leased =>
                status[j] \in Leased /\ (leaseExpired[j] => leaseExpired'[j])
<1> DEFINE Goal == /\ leaseNo[j] <= leaseNo'[j]
                   /\ leaseNo'[j] = leaseNo[j] /\ status'[j] \in Leased =>
                        status[j] \in Leased /\ (leaseExpired[j] => leaseExpired'[j])
<1>0. leaseNo[j] \in Nat
  BY DEF TypeOK
<1>1. ASSUME NEW i \in Jobs, JobStep(i)
      PROVE  Goal
  <2>1. CASE ApplyCancel(i)
    BY <1>0, <2>1 DEF ApplyCancel, CancelApplies, TypeOK, Leased
  <2> QED
    BY <1>0, <1>1, <2>1 DEF JobStep, Enqueue, ReadForCancel, ExpireLease, BackoffElapses,
       document, TypeOK, Leased
<1>2. ASSUME NEW i \in Jobs, NEW k \in AttemptNos, AttemptStep(i, k)
      PROVE  Goal
  <2>1. CASE Heartbeat(i, k)
    <3>1. CASE i = j
      <4>1. leaseNo'[j] = leaseNo[j] + 1
        BY <2>1, <3>1 DEF Heartbeat, TypeOK
      <4>2. QED
        BY <1>0, <4>1
    <3>2. CASE i # j
      BY <1>0, <2>1, <3>2 DEF Heartbeat, TypeOK
    <3>3. QED
      BY <3>1, <3>2
  <2>2. CASE Complete(i, k)
    BY <1>0, <2>2 DEF Complete, Owns, Release, document, TypeOK, Leased
  <2>3. CASE MarkCancelled(i, k)
    BY <1>0, <2>3 DEF MarkCancelled, Owns, Release, document, TypeOK, Leased
  <2>4. CASE WriteFail(i, k)
    <3>1. CASE leaseOwner[i] = ranBy[i][k]
      <4>1. PICK next \in {"dead_letter", "pending"} : status' = [status EXCEPT ![i] = next]
        BY <2>4, <3>1 DEF WriteFail
      <4>2. leaseNo' = leaseNo /\ leaseExpired' = [leaseExpired EXCEPT ![i] = FALSE]
        BY <2>4, <3>1 DEF WriteFail, Release
      <4>3. QED
        BY <1>0, <4>1, <4>2 DEF TypeOK, Leased
    <3>2. CASE leaseOwner[i] # ranBy[i][k]
      BY <1>0, <2>4, <3>2 DEF WriteFail, document
    <3>3. QED
      BY <3>1, <3>2
  <2>5. CASE UNCHANGED document
    BY <1>0, <2>5 DEF document
  <2> QED
    BY <1>2, <2>1, <2>2, <2>3, <2>4, <2>5
    DEF AttemptStep, StartExecutor, ExecutorReports, ExecutorDies, WatchCancel, Settle,
        ReadForFail, LoseSettlement, OrphanEnds
<1>3. ASSUME NEW w \in Workers, WorkerStep(w)
      PROVE  Goal
  <2>1. ASSUME NEW i \in Jobs, Claim(w, i)
        PROVE  Goal
    <3>1. CASE i = j
      <4>1. leaseNo'[j] = leaseNo[j] + 1
        BY <2>1, <3>1 DEF Claim, TypeOK
      <4>2. QED
        BY <1>0, <4>1
    <3>2. CASE i # j
      BY <1>0, <2>1, <3>2 DEF Claim, TypeOK
    <3>3. QED
      BY <3>1, <3>2
  <2>2. CASE ApplySweep(w)
    <3>1. PICK row \in swept[w] : ApplySweepRow(w, row)
      BY <2>2 DEF ApplySweep
    <3>2. row[1] \in Jobs
      BY DEF TypeOK
    <3>3. QED
      BY <1>0, <3>1, <3>2 DEF ApplySweepRow, Release, document, TypeOK, Leased
  <2>3. CASE UNCHANGED document
    BY <1>0, <2>3 DEF document
  <2> QED
    BY <1>3, <2>1, <2>2, <2>3
    DEF WorkerStep, BeginClaim, ClaimNothing, ReadForSweep, Stop, Exit, Crash, Gone, Restart
<1>4. CASE UNCHANGED vars
  BY <1>0, <1>4 DEF vars, document
<1> QED BY <1>1, <1>2, <1>3, <1>4 DEF Next

\* A row of the sweep was there before, or is read in this step.
LEMMA SweptStep ==
    ASSUME TypeOK, [Next]_vars, NEW w \in Workers, NEW row \in swept'[w]
    PROVE  \/ row \in swept[w]
           \/ /\ row[1] \in Jobs /\ row[2] = leaseNo[row[1]] /\ leaseExpired[row[1]]
              /\ Exhausted(row[1])
              /\ UNCHANGED document
<1>1. CASE UNCHANGED swept
  BY <1>1
<1>2. ASSUME NEW v \in Workers, ReadForSweep(v)
      PROVE  \/ row \in swept[w]
             \/ /\ row[1] \in Jobs /\ row[2] = leaseNo[row[1]] /\ leaseExpired[row[1]]
                /\ Exhausted(row[1])
                /\ UNCHANGED document
  BY <1>2 DEF ReadForSweep, Sweepable, TypeOK
<1>3. ASSUME NEW v \in Workers, ApplySweep(v) \/ Gone(v)
      PROVE  row \in swept[w]
  BY <1>3 DEF ApplySweep, ApplySweepRow, Gone, TypeOK
<1>4. \/ UNCHANGED swept
      \/ \E v \in Workers : ReadForSweep(v) \/ ApplySweep(v) \/ Gone(v)
  BY DEF Next, vars, worker, JobStep, Enqueue, ReadForCancel, ApplyCancel, ExpireLease,
     BackoffElapses, AttemptStep, StartExecutor, ExecutorReports, ExecutorDies, WatchCancel,
     Heartbeat, Settle, Complete, MarkCancelled, ReadForFail, WriteFail, LoseSettlement,
     OrphanEnds, EndAttempt, WorkerStep, BeginClaim, ClaimNothing, Claim, Stop, Exit, Crash, Restart
<1> QED BY <1>1, <1>2, <1>3, <1>4

LEMMA SweptRowsHoldNext ==
    TypeOK /\ TypeOK' /\ SweptRowsHold /\ [Next]_vars => SweptRowsHold'
<1> SUFFICES ASSUME TypeOK, TypeOK', SweptRowsHold, [Next]_vars, NEW w \in Workers,
                    NEW row \in swept'[w]
             PROVE  /\ row[2] <= leaseNo'[row[1]]
                    /\ row[2] = leaseNo'[row[1]] /\ status'[row[1]] \in Leased
                          => leaseExpired'[row[1]]
  BY DEF SweptRowsHold
<1> DEFINE j == row[1]
<1>1. j \in Jobs /\ row[2] \in Nat /\ leaseNo[j] \in Nat /\ leaseNo'[j] \in Nat
  BY DEF TypeOK
<1>2. /\ leaseNo[j] <= leaseNo'[j]
      /\ leaseNo'[j] = leaseNo[j] /\ status'[j] \in Leased =>
           status[j] \in Leased /\ (leaseExpired[j] => leaseExpired'[j])
  BY <1>1, LeaseStep
<1>3. CASE row \in swept[w]
  <2>1. /\ row[2] <= leaseNo[j]
        /\ row[2] = leaseNo[j] /\ status[j] \in Leased => leaseExpired[j]
    BY <1>3 DEF SweptRowsHold
  <2>2. row[2] = leaseNo'[j] => leaseNo'[j] = leaseNo[j]
    BY <1>1, <1>2, <2>1
  <2>3. QED
    BY <1>1, <1>2, <2>1, <2>2
<1>4. CASE row[2] = leaseNo[j] /\ leaseExpired[j] /\ UNCHANGED document
  BY <1>1, <1>4 DEF document
<1> QED BY <1>3, <1>4, SweptStep

LEMMA SweptInvariance == Spec => []SweptRowsHold
<1>1. Init => SweptRowsHold
  BY DEF Init, SweptRowsHold
<1> QED BY <1>1, SweptRowsHoldNext, TypeCorrect, PTL DEF Spec

\* A job whose lease is live is buried by a failure of its own attempt only:
\* the sweep, however old the rows it read are, never takes a job from a
\* worker that renewed its lease or from one that claimed the job since.
THEOREM SweepIsSafe == Spec => SweepSparesLiveLease
<1>1. ASSUME TypeOK, SweptRowsHold, Next, NEW j \in Jobs, status[j] = "running",
             ~leaseExpired[j], status'[j] = "dead_letter"
      PROVE  \E k \in AttemptNos : phase[j][k] = "burying"
  <2>1. ASSUME NEW i \in Jobs, JobStep(i)
        PROVE  FALSE
    BY <1>1, <2>1 DEF JobStep, Enqueue, ReadForCancel, ApplyCancel, ExpireLease,
       BackoffElapses, document, TypeOK
  <2>2. ASSUME NEW i \in Jobs, NEW k \in AttemptNos, AttemptStep(i, k)
        PROVE  i = j /\ phase[j][k] = "burying"
    <3>1. CASE WriteFail(i, k)
      BY <1>1, <3>1 DEF WriteFail, document, TypeOK
    <3>2. CASE Complete(i, k) \/ MarkCancelled(i, k)
      BY <1>1, <3>2 DEF Complete, MarkCancelled, document, TypeOK
    <3>3. CASE UNCHANGED status
      BY <1>1, <3>3
    <3> QED
      BY <2>2, <3>1, <3>2, <3>3
      DEF AttemptStep, StartExecutor, ExecutorReports, ExecutorDies, WatchCancel, Settle,
          Heartbeat, ReadForFail, LoseSettlement, OrphanEnds, document
  <2>3. ASSUME NEW w \in Workers, WorkerStep(w)
        PROVE  FALSE
    <3>1. ASSUME NEW i \in Jobs, Claim(w, i)
          PROVE  FALSE
      BY <1>1, <3>1 DEF Claim, TypeOK
    <3>2. CASE ApplySweep(w)
      <4>1. PICK row \in swept[w] : ApplySweepRow(w, row)
        BY <3>2 DEF ApplySweep
      <4>2. row[1] = j /\ row[2] = leaseNo[j]
        BY <1>1, <4>1 DEF ApplySweepRow, SweepApplies, document, TypeOK
      <4>3. QED
        BY <1>1, <4>1, <4>2 DEF SweptRowsHold, Leased
    <3> QED
      BY <1>1, <2>3, <3>1, <3>2
      DEF WorkerStep, BeginClaim, ClaimNothing, ReadForSweep, Stop, Exit, Crash, Gone,
          Restart, document
  <2> QED BY <1>1, <2>1, <2>2, <2>3 DEF Next
<1>2. TypeOK /\ SweptRowsHold /\ [Next]_vars =>
        [\A j \in Jobs :
            status[j] = "running" /\ ~leaseExpired[j] /\ status'[j] = "dead_letter"
                => \E k \in AttemptNos : phase[j][k] = "burying"]_vars
  BY <1>1
<1> QED BY <1>2, TypeCorrect, SweptInvariance, PTL DEF Spec, SweepSparesLiveLease

-----------------------------------------------------------------------------
(***************************************************************************)
(* One attempt at a time.  While no lease lapses under a live attempt, an  *)
(* attempt at work is the job's last one and has its live lease; nobody    *)
(* else claims, buries or ends the job then.                               *)
(***************************************************************************)
LiveHoldsLease ==
    \A j \in Jobs, k \in AttemptNos : phase[j][k] \in Supervised =>
        k = attemptCount[j] /\ status[j] \in Leased /\ ~leaseExpired[j]

\* A step of the job itself: a cancellation leaves it leased, and its lease
\* does not lapse.
LEMMA LiveJobStep ==
    ASSUME IInv, LiveHoldsLease, ~LeaseMayLapse, NEW i \in Jobs, JobStep(i)
    PROVE  LiveHoldsLease'
<1>t. TypeOK /\ OwnerIsLastClaimant
  BY DEF IInv
<1> USE DEF LiveHoldsLease
<1>1. CASE Enqueue(i)
  BY <1>t, <1>1 DEF Enqueue, TypeOK, Leased
<1>2. CASE ReadForCancel(i)
  BY <1>2 DEF ReadForCancel, document
<1>3. CASE ApplyCancel(i)
  <2>1. CASE CancelApplies(i)
    <3>1. status' = [status EXCEPT ![i] =
              IF cancelRead[i] = "pending" THEN "cancelled" ELSE "cancel_requested"]
      BY <1>3, <2>1 DEF ApplyCancel
    <3>2. status[i] \in Leased => status'[i] \in Leased
      BY <1>t, <2>1, <3>1 DEF CancelApplies, TypeOK, Leased
    <3>3. QED
      BY <1>t, <1>3, <3>1, <3>2 DEF ApplyCancel, TypeOK
  <2>2. CASE ~CancelApplies(i)
    BY <1>3, <2>2 DEF ApplyCancel
  <2>3. QED
    BY <2>1, <2>2
<1>4. CASE ExpireLease(i)
  <2>1. ~HeldAlive(i)
    BY <1>4 DEF ExpireLease
  <2>2. \A k \in AttemptNos : phase[i][k] \notin Supervised
    BY <1>t, <2>1 DEF HeldAlive, Supervised, OwnerIsLastClaimant
  <2>3. QED
    BY <1>t, <1>4, <2>2 DEF ExpireLease, TypeOK
<1>5. CASE BackoffElapses(i)
  BY <1>5 DEF BackoffElapses
<1> QED BY <1>1, <1>2, <1>3, <1>4, <1>5 DEF JobStep

\* A step of an attempt: if it ends the attempt, no attempt of the job is at
\* work any more; if not, the job keeps its lease.
LEMMA LiveAttemptStep ==
    ASSUME TypeOK, LiveHoldsLease, NEW i \in Jobs, NEW m \in AttemptNos, AttemptStep(i, m)
    PROVE  LiveHoldsLease'
<1>0. CASE OrphanEnds(i, m)
  BY <1>0 DEF OrphanEnds, LiveHoldsLease, TypeOK, document, Supervised, Unsettled, Settling
<1> SUFFICES ASSUME ~OrphanEnds(i, m)
             PROVE  LiveHoldsLease'
  BY <1>0
<1>1. /\ \A j \in Jobs, k \in AttemptNos :
            phase'[j][k] \in Supervised => phase[j][k] \in Supervised
      /\ attemptCount' = attemptCount
      /\ phase[i][m] \in Supervised
      /\ \A j \in Jobs : j # i =>
            status'[j] = status[j] /\ leaseExpired'[j] = leaseExpired[j]
      /\ phase'[i][m] \in Supervised =>
            status'[i] = status[i] /\ (leaseExpired'[i] => leaseExpired[i])
  <2> USE DEF TypeOK, Supervised, Unsettled, Settling, Leased, document
  <2>1. CASE StartExecutor(i, m)
    <3>1. UNCHANGED document /\ phase[i][m] = "forked"
      BY <2>1 DEF StartExecutor, Settle
    <3>2. PICK next \in {"executing", "bury"} : phase' = [phase EXCEPT ![i][m] = next]
      BY <2>1 DEF StartExecutor, Settle
    <3>3. \A j \in Jobs, k \in AttemptNos :
            phase'[j][k] \in Supervised => phase[j][k] \in Supervised
      BY <3>1, <3>2
    <3>4. QED
      BY <3>1, <3>3
  <2>2. CASE ExecutorReports(i, m)
    BY <2>2 DEF ExecutorReports, Settle
  <2>3. CASE ExecutorDies(i, m)
    BY <2>3 DEF ExecutorDies, Settle
  <2>4. CASE WatchCancel(i, m)
    BY <2>4 DEF WatchCancel, Settle
  <2>5. CASE Heartbeat(i, m)
    BY <2>5 DEF Heartbeat
  <2>6. CASE Complete(i, m)
    BY <2>6 DEF Complete, EndAttempt, Release
  <2>7. CASE MarkCancelled(i, m)
    BY <2>7 DEF MarkCancelled, EndAttempt, Release
  <2>8. CASE ReadForFail(i, m)
    BY <2>8 DEF ReadForFail
  <2>9. CASE WriteFail(i, m)
    BY <2>9 DEF WriteFail, EndAttempt, Release
  <2>10. CASE LoseSettlement(i, m)
    BY <2>10 DEF LoseSettlement, EndAttempt
  <2> QED
    BY <2>1, <2>2, <2>3, <2>4, <2>5, <2>6, <2>7, <2>8, <2>9, <2>10 DEF AttemptStep
<1>2. m = attemptCount[i]
  BY <1>1 DEF LiveHoldsLease
<1>3. ASSUME NEW j \in Jobs, NEW k \in AttemptNos, phase'[j][k] \in Supervised
      PROVE  k = attemptCount'[j] /\ status'[j] \in Leased /\ ~leaseExpired'[j]
  <2>1. k = attemptCount[j] /\ status[j] \in Leased /\ ~leaseExpired[j]
    BY <1>1, <1>3 DEF LiveHoldsLease
  <2>2. CASE j = i
    BY <1>1, <1>2, <1>3, <2>1, <2>2
  <2>3. CASE j # i
    BY <1>1, <2>1, <2>3
  <2>4. QED
    BY <2>2, <2>3
<1> QED BY <1>3 DEF LiveHoldsLease

\* A step of a worker: it claims and buries jobs with an attempt at work only
\* when their lease is over.
LEMMA LiveWorkerStep ==
    ASSUME TypeOK, SweptRowsHold, LiveHoldsLease, NEW w \in Workers, WorkerStep(w)
    PROVE  LiveHoldsLease'
<1>1. ASSUME NEW i \in Jobs, Claim(w, i)
      PROVE  LiveHoldsLease'
  <2>1. \A k \in AttemptNos : phase[i][k] \notin Supervised
    BY <1>1 DEF Claim, Claimable, LiveHoldsLease, Leased
  <2>2. \A k \in AttemptNos : k # attemptCount[i] + 1 => phase'[i][k] = phase[i][k]
    BY <1>1 DEF Claim, TypeOK
  <2>3. attemptCount'[i] = attemptCount[i] + 1 /\ status'[i] = "running" /\ ~leaseExpired'[i]
    BY <1>1 DEF Claim, TypeOK
  <2>4. \A j \in Jobs : j # i =>
            /\ phase'[j] = phase[j] /\ attemptCount'[j] = attemptCount[j]
            /\ status'[j] = status[j] /\ leaseExpired'[j] = leaseExpired[j]
    BY <1>1 DEF Claim, TypeOK
  <2>5. QED
    BY <2>1, <2>2, <2>3, <2>4 DEF LiveHoldsLease, Leased
<1>2. CASE ApplySweep(w)
  <2>1. PICK row \in swept[w] : ApplySweepRow(w, row)
    BY <1>2 DEF ApplySweep
  <2>2. row[1] \in Jobs
    BY DEF TypeOK
  <2>3. CASE SweepApplies(row)
    <3>1. leaseExpired[row[1]]
      BY <2>1, <2>3 DEF SweepApplies, SweptRowsHold, Leased
    <3>2. \A k \in AttemptNos : phase[row[1]][k] \notin Supervised
      BY <2>2, <3>1 DEF LiveHoldsLease
    <3>3. QED
      BY <2>1, <2>2, <2>3, <3>2 DEF ApplySweepRow, Release, LiveHoldsLease, TypeOK
  <2>4. CASE ~SweepApplies(row)
    BY <2>1, <2>4 DEF ApplySweepRow, LiveHoldsLease, document
  <2>5. QED
    BY <2>3, <2>4
<1>3. ASSUME Gone(w)
      PROVE  LiveHoldsLease'
  <2>1. \A j \in Jobs, k \in AttemptNos : phase'[j][k] \in Supervised => phase'[j][k] = phase[j][k]
    BY <1>3 DEF Gone, Supervised, Unsettled, Settling
  <2>2. UNCHANGED document
    BY <1>3 DEF Gone
  <2>3. QED
    BY <2>1, <2>2 DEF LiveHoldsLease, document
<1>4. CASE UNCHANGED <<document, phase>>
  BY <1>4 DEF LiveHoldsLease, document
<1> QED
  BY <1>1, <1>2, <1>3, <1>4
  DEF WorkerStep, BeginClaim, ClaimNothing, ReadForSweep, Stop, Exit, Crash, Restart

LEMMA LiveInvariance ==
    ASSUME ~LeaseMayLapse
    PROVE  Spec => []LiveHoldsLease
<1>1. Init => LiveHoldsLease
  BY DEF Init, LiveHoldsLease, Supervised, Unsettled, Settling
<1>2. IInv /\ SweptRowsHold /\ LiveHoldsLease /\ [Next]_vars => LiveHoldsLease'
  <2> SUFFICES ASSUME IInv, SweptRowsHold, LiveHoldsLease, [Next]_vars
               PROVE  LiveHoldsLease'
    OBVIOUS
  <2>1. TypeOK
    BY DEF IInv
  <2>2. CASE UNCHANGED vars
    BY <2>2 DEF vars, document, LiveHoldsLease
  <2> QED BY <2>1, <2>2, LiveJobStep, LiveAttemptStep, LiveWorkerStep DEF Next
<1> QED BY <1>1, <1>2, Invariance, SweptInvariance, PTL DEF Spec

\* While no lease lapses under a live attempt, two attempts of a job overlap
\* only if the worker of the earlier one was killed: whatever shutdowns,
\* restarts, lost settlements, sweeps and cancellations happen, no worker
\* starts on a job that a living worker has in hand.
THEOREM OverlapsAreOrphans ==
    ASSUME ~LeaseMayLapse
    PROVE  Spec => []OnlyOrphansOverlap
<1>1. IInv /\ LiveHoldsLease => OnlyOrphansOverlap
  <2> SUFFICES ASSUME IInv, LiveHoldsLease, NEW j \in Jobs,
                      NEW k \in AttemptNos, NEW n \in AttemptNos, k < n,
                      phase[j][k] \in Supervised, phase[j][n] \in AtWork
               PROVE  FALSE
    BY DEF OnlyOrphansOverlap, AtWork
  <2>1. k = attemptCount[j]
    BY DEF LiveHoldsLease
  <2>2. phase[j][n] # "none"
    BY DEF AtWork, Supervised, Unsettled, Settling
  <2>3. n <= attemptCount[j]
    BY <2>2 DEF IInv, AttemptsWereClaimed
  <2> QED BY <2>1, <2>3, BackgroundJobsAssumption DEF AttemptNos
<1> QED BY <1>1, Invariance, LiveInvariance, PTL

-----------------------------------------------------------------------------
(***************************************************************************)
(* The bound on executors.  tick reads the size of `active` before it      *)
(* awaits claimNext, and one claim is in flight at a time, so that `active`*)
(* never has more than Concurrency jobs.  The executors are no more than   *)
(* those while no job has two.                                             *)
(***************************************************************************)
ActiveFits ==
    \A w \in Workers :
        /\ IsFiniteSet(active[w])
        /\ Cardinality(active[w]) <= Concurrency
        /\ claiming[w] => Cardinality(active[w]) < Concurrency

UnsettledIsActive ==
    \A j \in Jobs, k \in AttemptNos : phase[j][k] \in Unsettled => j \in active[ranBy[j][k]]

\* Only claims add to `active`, and only tick begins a claim.
LEMMA ActiveStep ==
    ASSUME TypeOK, [Next]_vars, NEW w \in Workers
    PROVE  \/ /\ active'[w] \subseteq active[w]
              /\ claiming'[w] => claiming[w] \/ Cardinality(active'[w]) < Concurrency
           \/ \E j \in Jobs : /\ active'[w] = active[w] \cup {j}
                              /\ claiming[w]
                              /\ ~claiming'[w]
<1> DEFINE Goal ==
           \/ /\ active'[w] \subseteq active[w]
              /\ claiming'[w] => claiming[w] \/ Cardinality(active'[w]) < Concurrency
           \/ \E j \in Jobs : /\ active'[w] = active[w] \cup {j}
                              /\ claiming[w]
                              /\ ~claiming'[w]
<1>1. CASE UNCHANGED <<active, claiming>>
  BY <1>1
<1>2. ASSUME NEW j \in Jobs, NEW k \in AttemptNos, AttemptStep(j, k)
      PROVE  Goal
  <2>1. ASSUME NEW kind, Settle(j, k, kind)
        PROVE  Goal
    BY <2>1 DEF Settle, TypeOK
  <2>2. (\E kind : Settle(j, k, kind)) \/ UNCHANGED <<active, claiming>>
    BY <1>2 DEF AttemptStep, StartExecutor, ExecutorReports, ExecutorDies, WatchCancel,
       Heartbeat, Complete, MarkCancelled, ReadForFail, WriteFail, LoseSettlement,
       OrphanEnds, EndAttempt, worker
  <2> QED BY <2>1, <2>2, <1>1
<1>3. ASSUME NEW v \in Workers, WorkerStep(v)
      PROVE  Goal
  <2>1. CASE BeginClaim(v)
    BY <2>1 DEF BeginClaim, TypeOK
  <2>2. CASE ClaimNothing(v)
    BY <2>2 DEF ClaimNothing, TypeOK
  <2>3. ASSUME NEW j \in Jobs, Claim(v, j)
        PROVE  Goal
    BY <2>3 DEF Claim, TypeOK
  <2>4. CASE Gone(v)
    BY <2>4 DEF Gone, TypeOK
  <2>5. CASE UNCHANGED <<active, claiming>>
    BY <2>5
  <2> QED
    BY <1>3, <2>1, <2>2, <2>3, <2>4, <2>5
    DEF WorkerStep, ReadForSweep, ApplySweep, ApplySweepRow, Stop, Exit, Crash, Restart
<1>4. ASSUME NEW j \in Jobs, JobStep(j)
      PROVE  UNCHANGED <<active, claiming>>
  BY <1>4 DEF JobStep, Enqueue, ReadForCancel, ApplyCancel, ExpireLease, BackoffElapses, worker
<1>5. CASE UNCHANGED vars
  BY <1>1, <1>5 DEF vars, worker
<1> QED BY <1>1, <1>2, <1>3, <1>4, <1>5 DEF Next

LEMMA ActiveFitsNext == TypeOK /\ ActiveFits /\ [Next]_vars => ActiveFits'
<1> SUFFICES ASSUME TypeOK, ActiveFits, [Next]_vars, NEW w \in Workers
             PROVE  /\ IsFiniteSet(active'[w])
                    /\ Cardinality(active'[w]) <= Concurrency
                    /\ claiming'[w] => Cardinality(active'[w]) < Concurrency
  BY DEF ActiveFits
<1>1. /\ IsFiniteSet(active[w])
      /\ Cardinality(active[w]) \in Nat
      /\ Cardinality(active[w]) <= Concurrency
      /\ claiming[w] => Cardinality(active[w]) < Concurrency
      /\ Concurrency \in Nat
  BY FS_CardinalityType, BackgroundJobsAssumption DEF ActiveFits
<1>2. ASSUME active'[w] \subseteq active[w],
             claiming'[w] => claiming[w] \/ Cardinality(active'[w]) < Concurrency
      PROVE  /\ IsFiniteSet(active'[w])
             /\ Cardinality(active'[w]) <= Concurrency
             /\ claiming'[w] => Cardinality(active'[w]) < Concurrency
  <2>1. /\ IsFiniteSet(active'[w])
        /\ Cardinality(active'[w]) <= Cardinality(active[w])
        /\ Cardinality(active'[w]) \in Nat
    BY <1>1, <1>2, FS_Subset, FS_CardinalityType
  <2>2. QED
    BY <1>1, <1>2, <2>1
<1>3. ASSUME NEW j \in Jobs, active'[w] = active[w] \cup {j}, claiming[w], ~claiming'[w]
      PROVE  IsFiniteSet(active'[w]) /\ Cardinality(active'[w]) <= Concurrency
  <2>1. /\ IsFiniteSet(active'[w])
        /\ \/ Cardinality(active'[w]) = Cardinality(active[w])
           \/ Cardinality(active'[w]) = Cardinality(active[w]) + 1
    <3>1. /\ IsFiniteSet(active[w] \cup {j})
          /\ \/ Cardinality(active[w] \cup {j}) = Cardinality(active[w])
             \/ Cardinality(active[w] \cup {j}) = Cardinality(active[w]) + 1
      BY <1>1, FS_AddElement
    <3>2. QED
      BY <1>3, <3>1
  <2>2. QED
    BY <1>1, <1>3, <2>1
<1> QED BY <1>2, <1>3, ActiveStep

LEMMA ActiveInvariance == Spec => []ActiveFits
<1>1. Init => ActiveFits
  <2>1. IsFiniteSet({}) /\ Cardinality({}) = 0
    BY FS_EmptySet
  <2> QED BY <2>1, BackgroundJobsAssumption DEF Init, ActiveFits
<1> QED BY <1>1, ActiveFitsNext, TypeCorrect, PTL DEF Spec

\* settle() deletes active[job.id] whoever put it there; while no job has two
\* attempts at work, that is the attempt's own entry.
LEMMA UnsettledIsActiveNext ==
    IInv /\ LiveHoldsLease /\ UnsettledIsActive /\ [Next]_vars => UnsettledIsActive'
<1> SUFFICES ASSUME IInv, LiveHoldsLease, UnsettledIsActive, [Next]_vars,
                    NEW j \in Jobs, NEW k \in AttemptNos, phase'[j][k] \in Unsettled
             PROVE  j \in active'[ranBy'[j][k]]
  BY DEF UnsettledIsActive
<1>t. TypeOK /\ AttemptsWereClaimed
  BY DEF IInv
<1>0. phase[j][k] \in Unsettled =>
        j \in active[ranBy[j][k]] /\ k = attemptCount[j] /\ ranBy[j][k] \in Workers
  BY <1>t DEF UnsettledIsActive, LiveHoldsLease, Supervised, AttemptsWereClaimed, Unsettled
<1>1. CASE UNCHANGED <<phase, ranBy, active>>
  BY <1>0, <1>1
<1>2. ASSUME NEW i \in Jobs, NEW m \in AttemptNos, AttemptStep(i, m)
      PROVE  j \in active'[ranBy'[j][k]]
  <2>1. ASSUME NEW kind \in Settling, Settle(i, m, kind), phase[i][m] \in Unsettled
        PROVE  j \in active'[ranBy'[j][k]]
    <3>1. <<i, m>> # <<j, k>> /\ phase'[j][k] = phase[j][k]
      BY <1>t, <2>1 DEF Settle, TypeOK, Unsettled, Settling
    <3>2. m = attemptCount[i]
      BY <2>1 DEF LiveHoldsLease, Supervised
    <3>3. i # j
      BY <1>0, <3>1, <3>2
    <3>4. QED
      BY <1>t, <1>0, <2>1, <3>1, <3>3 DEF Settle, TypeOK
  <2>2. ASSUME NEW next \in {"executing", "burying", "retrying", "settled", "lost"},
               phase' = [phase EXCEPT ![i][m] = next],
               next = "executing" => phase[i][m] = "forked",
               UNCHANGED <<ranBy, active>>
        PROVE  j \in active'[ranBy'[j][k]]
    <3>1. phase[j][k] \in Unsettled
      BY <1>t, <2>2 DEF TypeOK, Unsettled
    <3>2. QED
      BY <1>0, <2>2, <3>1
  <2>3. CASE StartExecutor(i, m)
    <3>1. CASE status[i] \in Leased
      BY <2>2, <2>3, <3>1 DEF StartExecutor, worker
    <3>2. CASE status[i] \notin Leased
      BY <2>1, <2>3, <3>2 DEF StartExecutor, Unsettled, Settling
    <3>3. QED
      BY <3>1, <3>2
  <2>4. CASE ExecutorReports(i, m)
    BY <2>1, <2>4 DEF ExecutorReports, Unsettled, Settling
  <2>5. CASE ExecutorDies(i, m) \/ WatchCancel(i, m)
    BY <2>1, <2>5 DEF ExecutorDies, WatchCancel, Unsettled, Settling
  <2>6. CASE Heartbeat(i, m)
    BY <1>1, <2>6 DEF Heartbeat, worker
  <2>7. CASE ReadForFail(i, m)
    BY <2>2, <2>7 DEF ReadForFail, worker
  <2>8. CASE Complete(i, m) \/ MarkCancelled(i, m) \/ WriteFail(i, m) \/ LoseSettlement(i, m)
    BY <2>2, <2>8 DEF Complete, MarkCancelled, WriteFail, LoseSettlement, EndAttempt, worker
  <2>9. CASE OrphanEnds(i, m)
    BY <2>2, <2>9 DEF OrphanEnds, worker
  <2> QED
    BY <1>2, <2>3, <2>4, <2>5, <2>6, <2>7, <2>8, <2>9 DEF AttemptStep
<1>3. ASSUME NEW v \in Workers, WorkerStep(v)
      PROVE  j \in active'[ranBy'[j][k]]
  <2>1. ASSUME NEW i \in Jobs, Claim(v, i)
        PROVE  j \in active'[ranBy'[j][k]]
    <3>1. CASE i = j /\ k = attemptCount[i] + 1
      <4>1. ranBy'[j][k] = v /\ j \in active'[v]
        BY <1>t, <2>1, <3>1 DEF Claim, TypeOK
      <4>2. QED
        BY <4>1
    <3>2. CASE ~(i = j /\ k = attemptCount[i] + 1)
      <4>1. phase'[j][k] = phase[j][k] /\ ranBy'[j][k] = ranBy[j][k]
        BY <1>t, <2>1, <3>2 DEF Claim, TypeOK
      <4>2. \A u \in Workers : active[u] \subseteq active'[u]
        BY <1>t, <2>1 DEF Claim, TypeOK
      <4>3. QED
        BY <1>0, <4>1, <4>2
    <3>3. QED
      BY <3>1, <3>2
  <2>2. ASSUME Gone(v)
        PROVE  j \in active'[ranBy'[j][k]]
    <3>1. phase'[j][k] = phase[j][k] /\ ranBy[j][k] # v
      BY <2>2 DEF Gone, Unsettled, Settling
    <3>2. \A u \in Workers : u # v => active'[u] = active[u]
      BY <1>t, <2>2 DEF Gone, TypeOK
    <3>3. ranBy' = ranBy
      BY <2>2 DEF Gone
    <3>4. QED
      BY <1>0, <3>1, <3>2, <3>3
  <2> QED
    BY <1>1, <1>3, <2>1, <2>2
    DEF WorkerStep, BeginClaim, ClaimNothing, ReadForSweep, ApplySweep, ApplySweepRow,
        Stop, Exit, Crash, Restart
<1>4. ASSUME NEW i \in Jobs, JobStep(i)
      PROVE  UNCHANGED <<phase, ranBy, active>>
  BY <1>4 DEF JobStep, Enqueue, ReadForCancel, ApplyCancel, ExpireLease, BackoffElapses, worker
<1>5. CASE UNCHANGED vars
  BY <1>1, <1>5 DEF vars, worker
<1> QED BY <1>1, <1>2, <1>3, <1>4, <1>5 DEF Next

LEMMA UnsettledInvariance ==
    ASSUME ~LeaseMayLapse
    PROVE  Spec => []UnsettledIsActive
<1>1. Init => UnsettledIsActive
  BY DEF Init, UnsettledIsActive, Unsettled
<1> QED BY <1>1, UnsettledIsActiveNext, Invariance, LiveInvariance, PTL DEF Spec

\* While no lease lapses under a live attempt, a worker never has more than
\* Concurrency executors, although tick decides before an await and settle()
\* frees a place by the job's id.
THEOREM ExecutorsAreBounded ==
    ASSUME ~LeaseMayLapse
    PROVE  Spec => []BoundedConcurrency
<1>1. LiveHoldsLease /\ ActiveFits /\ UnsettledIsActive => BoundedConcurrency
  <2> SUFFICES ASSUME LiveHoldsLease, ActiveFits, UnsettledIsActive, NEW w \in Workers
               PROVE  Cardinality({a \in Jobs \X AttemptNos :
                         ranBy[a[1]][a[2]] = w /\ phase[a[1]][a[2]] \in Unsettled}) <= Concurrency
    BY DEF BoundedConcurrency
  <2> DEFINE running == {a \in Jobs \X AttemptNos :
                           ranBy[a[1]][a[2]] = w /\ phase[a[1]][a[2]] \in Unsettled}
             job == [a \in running |-> a[1]]
  <2>1. \A a \in running : a[1] \in active[w] /\ a[2] = attemptCount[a[1]] /\ a = <<a[1], a[2]>>
    BY DEF UnsettledIsActive, LiveHoldsLease, Supervised
  <2>2. job \in Injection(running, active[w])
    BY <2>1 DEF Injection, IsInjective
  <2>3. /\ IsFiniteSet(active[w])
        /\ Cardinality(active[w]) \in Nat
        /\ Cardinality(active[w]) <= Concurrency
        /\ Concurrency \in Nat
    BY FS_CardinalityType, BackgroundJobsAssumption DEF ActiveFits
  <2> HIDE DEF running, job
  <2>4. IsFiniteSet(running) /\ Cardinality(running) <= Cardinality(active[w])
    BY <2>2, <2>3, FS_Injection
  <2>5. Cardinality(running) \in Nat
    BY <2>4, FS_CardinalityType
  <2>6. Cardinality(running) <= Concurrency
    BY <2>3, <2>4, <2>5
  <2> QED BY <2>6 DEF running
<1> QED BY <1>1, LiveInvariance, ActiveInvariance, UnsettledInvariance, PTL

-----------------------------------------------------------------------------
(***************************************************************************)
(* The queue as a job board.  A retry goes back to the queue only if it    *)
(* was decided with an attempt left, and none was claimed since; a row of  *)
(* the sweep is of a job without one.                                      *)
(***************************************************************************)
RetriesAreLeft ==
    \A j \in Jobs :
        /\ status[j] = "absent" => attemptCount[j] = 0
        /\ status[j] = "pending" => attemptCount[j] < MaxAttempts[j]
        /\ \A k \in AttemptNos : phase[j][k] = "retrying" => attemptCount[j] < MaxAttempts[j]

SweptAreExhausted ==
    \A w \in Workers : \A row \in swept[w] : attemptCount[row[1]] >= MaxAttempts[row[1]]

LEMMA CountStep ==
    ASSUME TypeOK, [Next]_vars, NEW j \in Jobs
    PROVE  attemptCount[j] <= attemptCount'[j]
<1>0. attemptCount[j] \in Nat
  BY BackgroundJobsAssumption DEF TypeOK
<1>1. ASSUME NEW w \in Workers, NEW i \in Jobs, Claim(w, i)
      PROVE  attemptCount[j] <= attemptCount'[j]
  <2>1. attemptCount'[j] = attemptCount[j] \/ attemptCount'[j] = attemptCount[j] + 1
    BY <1>1 DEF Claim, TypeOK
  <2>2. QED
    BY <1>0, <2>1
<1>2. (\E w \in Workers, i \in Jobs : Claim(w, i)) \/ UNCHANGED attemptCount
  BY DEF Next, vars, document, JobStep, Enqueue, ReadForCancel, ApplyCancel, ExpireLease,
     BackoffElapses, AttemptStep, StartExecutor, ExecutorReports, ExecutorDies, WatchCancel,
     Heartbeat, Settle, Complete, MarkCancelled, ReadForFail, WriteFail, LoseSettlement,
     OrphanEnds, EndAttempt, WorkerStep, BeginClaim, ClaimNothing, ReadForSweep, ApplySweep,
     ApplySweepRow, Stop, Exit, Crash, Gone, Restart
<1> QED BY <1>0, <1>1, <1>2

LEMMA SweptAreExhaustedNext ==
    TypeOK /\ TypeOK' /\ SweptAreExhausted /\ [Next]_vars => SweptAreExhausted'
<1> SUFFICES ASSUME TypeOK, TypeOK', SweptAreExhausted, [Next]_vars, NEW w \in Workers,
                    NEW row \in swept'[w]
             PROVE  attemptCount'[row[1]] >= MaxAttempts[row[1]]
  BY DEF SweptAreExhausted
<1> DEFINE j == row[1]
<1>1. j \in Jobs
  BY DEF TypeOK
<1>2. attemptCount[j] >= MaxAttempts[j]
  BY SweptStep DEF SweptAreExhausted, Exhausted
<1>3. attemptCount[j] <= attemptCount'[j]
  BY <1>1, CountStep
<1>4. attemptCount[j] \in Nat /\ attemptCount'[j] \in Nat /\ MaxAttempts[j] \in Nat
  BY <1>1, BackgroundJobsAssumption DEF TypeOK
<1> QED BY <1>2, <1>3, <1>4

LEMMA ExhaustedInvariance == Spec => []SweptAreExhausted
<1>1. Init => SweptAreExhausted
  BY DEF Init, SweptAreExhausted
<1> QED BY <1>1, SweptAreExhaustedNext, TypeCorrect, PTL DEF Spec

LEMMA RetriesAreLeftNext ==
    IInv /\ LiveHoldsLease /\ RetriesAreLeft /\ [Next]_vars => RetriesAreLeft'
<1> SUFFICES ASSUME IInv, LiveHoldsLease, RetriesAreLeft, [Next]_vars
             PROVE  RetriesAreLeft'
  OBVIOUS
<1>t. TypeOK
  BY DEF IInv
<1>m. \A j \in Jobs : MaxAttempts[j] \in Nat /\ MaxAttempts[j] >= 1 /\ attemptCount[j] \in Nat
  BY <1>t, BackgroundJobsAssumption DEF TypeOK
<1>1. ASSUME NEW i \in Jobs, JobStep(i)
      PROVE  RetriesAreLeft'
  <2>1. CASE Enqueue(i)
    BY <1>t, <1>m, <2>1 DEF Enqueue, RetriesAreLeft, TypeOK
  <2>2. CASE ApplyCancel(i)
    BY <1>t, <2>2 DEF ApplyCancel, RetriesAreLeft, TypeOK
  <2>3. CASE UNCHANGED <<status, attemptCount, phase>>
    BY <2>3 DEF RetriesAreLeft
  <2> QED
    BY <1>1, <2>1, <2>2, <2>3 DEF JobStep, ReadForCancel, ExpireLease, BackoffElapses, document
<1>2. ASSUME NEW i \in Jobs, NEW m \in AttemptNos, AttemptStep(i, m)
      PROVE  RetriesAreLeft'
  <2>1. ASSUME NEW next \in Phase \ {"retrying"}, phase' = [phase EXCEPT ![i][m] = next],
               UNCHANGED <<status, attemptCount>>
        PROVE  RetriesAreLeft'
    BY <1>t, <2>1 DEF RetriesAreLeft, TypeOK
  <2>2. ASSUME NEW kind \in Settling \ {"retrying"}, Settle(i, m, kind)
        PROVE  RetriesAreLeft'
    BY <2>1, <2>2 DEF Settle, document, Phase
  <2>3. ASSUME NEW value \in TERMINAL, status' = [status EXCEPT ![i] = value],
               UNCHANGED attemptCount, phase' = [phase EXCEPT ![i][m] = "settled"]
        PROVE  RetriesAreLeft'
    BY <1>t, <2>3 DEF RetriesAreLeft, TypeOK, TERMINAL
  <2>4. CASE StartExecutor(i, m)
    <3>1. CASE status[i] \in Leased
      BY <2>1, <2>4, <3>1 DEF StartExecutor, document, Phase, Unsettled
    <3>2. CASE status[i] \notin Leased
      BY <2>2, <2>4, <3>2 DEF StartExecutor, Settling
    <3>3. QED
      BY <3>1, <3>2
  <2>5. CASE ExecutorReports(i, m)
    BY <2>2, <2>5 DEF ExecutorReports, Settling
  <2>6. CASE ExecutorDies(i, m) \/ WatchCancel(i, m)
    BY <2>2, <2>6 DEF ExecutorDies, WatchCancel, Settling
  <2>7. CASE Heartbeat(i, m)
    BY <2>7 DEF Heartbeat, RetriesAreLeft
  <2>8. CASE Complete(i, m) \/ MarkCancelled(i, m) \/ LoseSettlement(i, m)
    BY <2>1, <2>3, <2>8 DEF Complete, MarkCancelled, LoseSettlement, EndAttempt, document,
       TERMINAL, Phase
  <2>9. CASE ReadForFail(i, m)
    <3>1. UNCHANGED <<status, attemptCount>>
      BY <2>9 DEF ReadForFail, document
    <3>2. PICK next \in {"settled", "burying", "retrying"} :
             /\ phase' = [phase EXCEPT ![i][m] = next]
             /\ next = "retrying" => ~Exhausted(i)
      <4> DEFINE next == IF leaseOwner[i] # ranBy[i][m] THEN "settled"
                         ELSE IF Exhausted(i) \/ phase[i][m] = "bury" THEN "burying"
                         ELSE "retrying"
      <4>1. phase' = [phase EXCEPT ![i][m] = next]
        BY <2>9 DEF ReadForFail
      <4>2. next \in {"settled", "burying", "retrying"} /\ (next = "retrying" => ~Exhausted(i))
        OBVIOUS
      <4> HIDE DEF next
      <4> QED BY <4>1, <4>2
    <3>3. next = "retrying" => attemptCount[i] < MaxAttempts[i]
      BY <1>m, <3>2 DEF Exhausted
    <3>4. QED
      BY <1>t, <3>1, <3>2, <3>3 DEF RetriesAreLeft, TypeOK
  <2>10. CASE WriteFail(i, m)
    <3>1. CASE leaseOwner[i] = ranBy[i][m]
      <4>1. PICK value \in {"dead_letter", "pending"} :
              /\ status' = [status EXCEPT ![i] = value]
              /\ value = "pending" => phase[i][m] = "retrying"
        BY <2>10, <3>1 DEF WriteFail
      <4>2. UNCHANGED attemptCount /\ phase' = [phase EXCEPT ![i][m] = "settled"]
        BY <2>10, <3>1 DEF WriteFail, EndAttempt
      <4>3. value = "pending" => attemptCount[i] < MaxAttempts[i]
        BY <4>1 DEF RetriesAreLeft
      <4>4. QED
        BY <1>t, <4>1, <4>2, <4>3 DEF RetriesAreLeft, TypeOK
    <3>2. CASE leaseOwner[i] # ranBy[i][m]
      BY <2>1, <2>10, <3>2 DEF WriteFail, EndAttempt, document, Phase
    <3>3. QED
      BY <3>1, <3>2
  <2>11. CASE OrphanEnds(i, m)
    BY <2>1, <2>11 DEF OrphanEnds, document, Phase
  <2> QED
    BY <1>2, <2>4, <2>5, <2>6, <2>7, <2>8, <2>9, <2>10, <2>11 DEF AttemptStep
<1>3. ASSUME NEW w \in Workers, WorkerStep(w)
      PROVE  RetriesAreLeft'
  <2>1. ASSUME NEW i \in Jobs, Claim(w, i)
        PROVE  RetriesAreLeft'
    <3>1. \A k \in AttemptNos : phase[i][k] \notin Supervised
      BY <2>1 DEF Claim, Claimable, LiveHoldsLease, Leased
    <3>2. \A k \in AttemptNos : phase'[i][k] = "forked" \/ phase'[i][k] = phase[i][k]
      BY <1>t, <2>1 DEF Claim, TypeOK
    <3>3. \A k \in AttemptNos : phase'[i][k] # "retrying"
      BY <3>1, <3>2 DEF Supervised, Settling
    <3>4. status'[i] = "running"
      BY <1>t, <2>1 DEF Claim, TypeOK
    <3>5. \A j \in Jobs : j # i =>
            /\ phase'[j] = phase[j] /\ attemptCount'[j] = attemptCount[j]
            /\ status'[j] = status[j]
      BY <1>t, <2>1 DEF Claim, TypeOK
    <3>6. QED
      BY <3>3, <3>4, <3>5 DEF RetriesAreLeft
  <2>2. CASE ApplySweep(w)
    BY <1>t, <2>2 DEF ApplySweep, ApplySweepRow, document, RetriesAreLeft, TypeOK
  <2>3. CASE Gone(w)
    BY <2>3 DEF Gone, document, RetriesAreLeft
  <2>4. CASE UNCHANGED <<status, attemptCount, phase>>
    BY <2>4 DEF RetriesAreLeft
  <2> QED
    BY <1>3, <2>1, <2>2, <2>3, <2>4
    DEF WorkerStep, BeginClaim, ClaimNothing, ReadForSweep, Stop, Exit, Crash, Restart, document
<1>4. CASE UNCHANGED vars
  BY <1>4 DEF vars, document, RetriesAreLeft
<1> QED BY <1>1, <1>2, <1>3, <1>4 DEF Next

LEMMA RetriesInvariance ==
    ASSUME ~LeaseMayLapse
    PROVE  Spec => []RetriesAreLeft
<1>1. Init => RetriesAreLeft
  BY DEF Init, RetriesAreLeft
<1> QED BY <1>1, RetriesAreLeftNext, Invariance, LiveInvariance, PTL DEF Spec

\* A job that waits may be claimed: no failure, sweep or cancellation puts a
\* job back that has no attempt left, where no worker would ever find it.
THEOREM WaitingJobsMayBeClaimed ==
    ASSUME ~LeaseMayLapse
    PROVE  Spec => [](\A j \in Jobs : status[j] = "pending" => attemptCount[j] < MaxAttempts[j])
<1>1. RetriesAreLeft =>
        \A j \in Jobs : status[j] = "pending" => attemptCount[j] < MaxAttempts[j]
  BY DEF RetriesAreLeft
<1> QED BY <1>1, RetriesInvariance, PTL

\* Who works on a job: nobody, or the worker of the attempt at work.
LEMMA NoHands ==
    ASSUME NEW j \in Jobs, \A k \in AttemptNos : phase[j][k] \notin Supervised
    PROVE  HandsOn(j) = {}
BY DEF HandsOn, Supervised

LEMMA OneHand ==
    ASSUME LiveHoldsLease, NEW j \in Jobs, NEW k \in AttemptNos, phase[j][k] \in Supervised
    PROVE  HandsOn(j) = {ranBy[j][k]}
<1>1. \A n \in AttemptNos : phase[j][n] \in Supervised => n = k
  BY DEF LiveHoldsLease
<1> QED BY <1>1 DEF HandsOn, Supervised

LEMMA Standings ==
    /\ Standing("absent") = "absent" /\ Standing("pending") = "waiting"
    /\ Standing("running") = "out" /\ Standing("cancel_requested") = "out"
    /\ \A value \in Leased : Standing(value) = "out"
    /\ \A value \in TERMINAL : Standing(value) = "over"
BY DEF Standing, Leased, TERMINAL

\* The variables of the board, and how a change of one job shows there.
States == [j \in Jobs |-> Standing(status[j])]
Hands  == [j \in Jobs |-> HandsOn(j)]

LEMMA StateBecomes ==
    ASSUME TypeOK, NEW j \in Jobs, NEW value, status' = [status EXCEPT ![j] = value]
    PROVE  States' = [States EXCEPT ![j] = Standing(value)]
<1>1. \A i \in Jobs : status'[i] = IF i = j THEN value ELSE status[i]
  BY DEF TypeOK
<1>2. \A i \in Jobs :
        Standing(status'[i]) = IF i = j THEN Standing(value) ELSE Standing(status[i])
  BY <1>1
<1>3. States' = [i \in Jobs |-> Standing(status'[i])]
  BY DEF States
<1>4. [States EXCEPT ![j] = Standing(value)] =
        [i \in Jobs |-> IF i = j THEN Standing(value) ELSE Standing(status[i])]
  BY DEF States
<1> QED BY <1>2, <1>3, <1>4

\* An attempt that moves on stays in the same hands; one that ends leaves none.
LEMMA HandsStay ==
    ASSUME TypeOK, NEW j \in Jobs, NEW k \in AttemptNos, phase[j][k] \in Supervised,
           NEW next \in Supervised, phase' = [phase EXCEPT ![j][k] = next], UNCHANGED ranBy
    PROVE  Hands' = Hands
<1>1. \A i \in Jobs, n \in AttemptNos : phase'[i][n] \in Supervised <=> phase[i][n] \in Supervised
  BY DEF TypeOK
<1>2. \A i \in Jobs : {n \in AttemptNos : phase'[i][n] \in Supervised} = {n \in AttemptNos : phase[i][n] \in Supervised}
  BY <1>1
<1>3. \A i \in Jobs : HandsOn(i)' = HandsOn(i)
  BY <1>2 DEF HandsOn, Supervised
<1> QED BY <1>3 DEF Hands

LEMMA HandsLetGo ==
    ASSUME TypeOK, LiveHoldsLease, NEW j \in Jobs, NEW k \in AttemptNos,
           phase[j][k] \in Supervised, phase' = [phase EXCEPT ![j][k] = "settled"], UNCHANGED ranBy
    PROVE  Hands[j] = {ranBy[j][k]} /\ Hands' = [Hands EXCEPT ![j] = {}]
<1>1. \A n \in AttemptNos : phase'[j][n] \notin Supervised
  BY DEF TypeOK, LiveHoldsLease, Supervised, Unsettled, Settling
<1>2. HandsOn(j)' = {}
  BY <1>1 DEF HandsOn, Supervised
<1>3. \A i \in Jobs : i # j => HandsOn(i)' = HandsOn(i)
  <2> SUFFICES ASSUME NEW i \in Jobs, i # j PROVE HandsOn(i)' = HandsOn(i)
    OBVIOUS
  <2>1. phase'[i] = phase[i]
    BY DEF TypeOK
  <2>2. QED
    BY <2>1 DEF HandsOn
<1>4. \A i \in Jobs : HandsOn(i)' = IF i = j THEN {} ELSE HandsOn(i)
  BY <1>2, <1>3
<1>5. Hands' = [Hands EXCEPT ![j] = {}]
  BY <1>4 DEF Hands
<1>6. Hands[j] = {ranBy[j][k]}
  BY OneHand DEF Hands
<1> QED BY <1>5, <1>6

\* The board in these terms.
LEMMA BoardActions ==
    /\ Board!Next <=>
        \/ \E j \in Jobs : Board!Post(j) \/ Board!Withdraw(j) \/ Board!GiveUp(j)
        \/ \E w \in Workers, j \in Jobs :
              Board!Take(w, j) \/ Board!PutBack(w, j) \/ Board!Finish(w, j)
        \/ \E w \in Workers, some \in SUBSET Jobs : Board!LetGo(w, some)
    /\ Board!board = <<States, Hands, attemptCount>>
BY DEF Board!Next, Board!board, States, Hands

LEMMA BoardKept ==
    ASSUME States' = States, Hands' = Hands, attemptCount' = attemptCount
    PROVE  UNCHANGED Board!board
BY DEF Board!board, States, Hands

LEMMA BoardStays ==
    ASSUME UNCHANGED <<status, attemptCount, phase, ranBy>>
    PROVE  UNCHANGED Board!board
BY DEF Board!board, HandsOn

LEMMA JobStepOnBoard ==
    ASSUME TypeOK, NEW j \in Jobs, JobStep(j)
    PROVE  Board!Next \/ UNCHANGED Board!board
<1>1. CASE Enqueue(j)
  <2>1. status[j] = "absent" /\ States' = [States EXCEPT ![j] = "waiting"]
    BY <1>1, StateBecomes, Standings DEF Enqueue
  <2>2. Hands' = Hands /\ attemptCount' = attemptCount
    BY <1>1 DEF Enqueue, Hands, HandsOn
  <2>3. States[j] = "absent"
    BY <2>1, Standings DEF States
  <2>4. Board!Post(j)
    BY <2>1, <2>2, <2>3 DEF Board!Post, Board!Become, States, Hands
  <2> QED BY <2>4, BoardActions
<1>2. CASE ApplyCancel(j)
  <2>1. Hands' = Hands /\ attemptCount' = attemptCount
    BY <1>2 DEF ApplyCancel, Hands, HandsOn
  <2>2. CASE status[j] = "pending" /\ CancelApplies(j)
    <3>1. status' = [status EXCEPT ![j] = "cancelled"]
      BY <1>2, <2>2 DEF ApplyCancel, CancelApplies
    <3>2. Standing("cancelled") = "over" /\ States[j] = "waiting"
      BY <2>2, Standings DEF States, TERMINAL
    <3>3. States' = [States EXCEPT ![j] = "over"]
      BY <3>1, <3>2, StateBecomes
    <3>4. Board!Withdraw(j)
      BY <2>1, <3>2, <3>3 DEF Board!Withdraw, Board!Become, States, Hands
    <3> QED BY <3>4, BoardActions
  <2>3. CASE status[j] # "pending" /\ CancelApplies(j)
    <3>1. status[j] \in Leased
      BY <1>2, <2>3 DEF ApplyCancel, CancelApplies, TypeOK
    <3>2. status' = [status EXCEPT ![j] = "cancel_requested"]
      BY <1>2, <2>3 DEF ApplyCancel, CancelApplies
    <3>3. States' = [States EXCEPT ![j] = "out"] /\ States[j] = "out"
      BY <3>1, <3>2, StateBecomes, Standings DEF States
    <3>4. States' = States
      BY <3>3 DEF States
    <3> QED BY <2>1, <3>4, BoardKept
  <2>4. CASE ~CancelApplies(j)
    <3>1. States' = States
      BY <1>2, <2>4 DEF ApplyCancel, States
    <3> QED BY <2>1, <3>1, BoardKept
  <2> QED BY <2>2, <2>3, <2>4
<1>3. CASE ReadForCancel(j) \/ ExpireLease(j) \/ BackoffElapses(j)
  BY <1>3, BoardStays DEF ReadForCancel, ExpireLease, BackoffElapses, document
<1> QED BY <1>1, <1>2, <1>3 DEF JobStep

\* An attempt ends with a result, with a retry, or without a word.
LEMMA AttemptStepOnBoard ==
    ASSUME IInv, LiveHoldsLease, RetriesAreLeft, NEW j \in Jobs, NEW k \in AttemptNos,
           AttemptStep(j, k)
    PROVE  Board!Next \/ UNCHANGED Board!board
<1>t. TypeOK /\ OwnerIsLastClaimant /\ AttemptsWereClaimed
  BY DEF IInv
<1>0. phase[j][k] \in Supervised =>
        /\ status[j] \in Leased
        /\ leaseOwner[j] = ranBy[j][k]
        /\ ranBy[j][k] \in Workers
        /\ Owns(j, k)
  BY <1>t DEF LiveHoldsLease, OwnerIsLastClaimant, AttemptsWereClaimed, Supervised, Unsettled,
     Settling, Owns
<1>1. ASSUME phase[j][k] \in Supervised, NEW next \in Supervised, phase' = [phase EXCEPT ![j][k] = next],
             UNCHANGED <<status, attemptCount, ranBy>>
      PROVE  UNCHANGED Board!board
  <2>1. Hands' = Hands
    BY <1>t, <1>1, HandsStay
  <2>2. States' = States
    BY <1>1 DEF States
  <2> QED BY <1>1, <2>1, <2>2, BoardKept
<1>2. ASSUME NEW kind \in Settling, phase[j][k] \in Supervised, Settle(j, k, kind)
      PROVE  UNCHANGED Board!board
  BY <1>1, <1>2 DEF Settle, document, Supervised
<1>3. ASSUME NEW value \in TERMINAL, phase[j][k] \in Supervised,
             status' = [status EXCEPT ![j] = value], UNCHANGED <<attemptCount, ranBy>>,
             phase' = [phase EXCEPT ![j][k] = "settled"]
      PROVE  Board!Next
  <2>1. Hands[j] = {ranBy[j][k]} /\ Hands' = [Hands EXCEPT ![j] = {}]
    BY <1>t, <1>3, HandsLetGo
  <2>2. States' = [States EXCEPT ![j] = "over"]
    BY <1>t, <1>3, StateBecomes, Standings
  <2>3. Board!Finish(ranBy[j][k], j)
    BY <1>3, <2>1, <2>2 DEF Board!Finish, Board!Become, States, Hands
  <2> QED BY <1>0, <1>3, <2>3, BoardActions
<1>4. CASE StartExecutor(j, k)
  <2>1. phase[j][k] \in Supervised
    BY <1>4 DEF StartExecutor, Supervised, Unsettled
  <2>2. status[j] \in Leased
    BY <1>0, <2>1
  <2> QED BY <1>1, <1>4, <2>1, <2>2 DEF StartExecutor, document, Supervised, Unsettled
<1>5. CASE ExecutorReports(j, k) \/ ExecutorDies(j, k) \/ WatchCancel(j, k)
  BY <1>2, <1>5 DEF ExecutorReports, ExecutorDies, WatchCancel, Supervised, Unsettled, Settling
<1>6. CASE Heartbeat(j, k)
  BY <1>6, BoardStays DEF Heartbeat
<1>7. CASE Complete(j, k)
  <2>1. phase[j][k] \in Supervised
    BY <1>7 DEF Complete, Supervised, Settling
  <2> QED BY <1>0, <1>3, <1>7, <2>1 DEF Complete, EndAttempt, TERMINAL
<1>8. CASE MarkCancelled(j, k)
  <2>1. phase[j][k] \in Supervised
    BY <1>8 DEF MarkCancelled, Supervised, Settling
  <2> QED BY <1>0, <1>3, <1>8, <2>1 DEF MarkCancelled, EndAttempt, TERMINAL
<1>9. CASE ReadForFail(j, k)
  <2>1. phase[j][k] \in Supervised
    BY <1>9 DEF ReadForFail, Supervised, Settling
  <2>2. leaseOwner[j] = ranBy[j][k]
    BY <1>0, <2>1
  <2>3. PICK next \in {"burying", "retrying"} : phase' = [phase EXCEPT ![j][k] = next]
    BY <1>9, <2>2 DEF ReadForFail
  <2> QED BY <1>1, <1>9, <2>1, <2>3 DEF ReadForFail, document, Supervised, Settling
<1>10. CASE WriteFail(j, k)
  <2>1. phase[j][k] \in Supervised
    BY <1>10 DEF WriteFail, Supervised, Settling
  <2>2. leaseOwner[j] = ranBy[j][k]
    BY <1>0, <2>1
  <2>3. UNCHANGED <<attemptCount, ranBy>> /\ phase' = [phase EXCEPT ![j][k] = "settled"]
    BY <1>10, <2>2 DEF WriteFail, EndAttempt
  <2>4. CASE phase[j][k] = "burying"
    BY <1>3, <1>10, <2>1, <2>2, <2>3, <2>4 DEF WriteFail, TERMINAL
  <2>5. CASE phase[j][k] = "retrying"
    <3>1. status' = [status EXCEPT ![j] = "pending"]
      BY <1>10, <2>2, <2>5 DEF WriteFail
    <3>2. States' = [States EXCEPT ![j] = "waiting"]
      BY <1>t, <3>1, StateBecomes, Standings
    <3>3. Hands[j] = {ranBy[j][k]} /\ Hands' = [Hands EXCEPT ![j] = {}]
      BY <1>t, <2>1, <2>3, HandsLetGo
    <3>4. attemptCount[j] < MaxAttempts[j]
      BY <2>5 DEF RetriesAreLeft
    <3>5. Board!PutBack(ranBy[j][k], j)
      BY <2>3, <3>2, <3>3, <3>4 DEF Board!PutBack, Board!Become, States, Hands
    <3> QED BY <1>0, <2>1, <3>5, BoardActions
  <2> QED BY <1>10, <2>4, <2>5 DEF WriteFail
<1>11. CASE LoseSettlement(j, k)
  <2>1. phase[j][k] \in Supervised
    BY <1>11 DEF LoseSettlement, Supervised
  <2>2. UNCHANGED <<status, attemptCount, ranBy>> /\ phase' = [phase EXCEPT ![j][k] = "settled"]
    BY <1>11 DEF LoseSettlement, EndAttempt, document
  <2>3. Hands[j] = {ranBy[j][k]} /\ Hands' = [Hands EXCEPT ![j] = {}]
    BY <1>t, <2>1, <2>2, HandsLetGo
  <2>4. Hands' = [i \in Jobs |-> IF i \in {j} THEN {} ELSE Hands[i]]
    BY <2>3 DEF Hands
  <2>5. Board!LetGo(ranBy[j][k], {j})
    BY <2>2, <2>3, <2>4 DEF Board!LetGo, States, Hands
  <2> QED BY <1>0, <2>1, <2>5, BoardActions
<1>12. CASE OrphanEnds(j, k)
  <2>1. UNCHANGED <<status, attemptCount, ranBy>>
    BY <1>12 DEF OrphanEnds, document
  <2>2. \A i \in Jobs, n \in AttemptNos :
          phase'[i][n] \in Supervised <=> phase[i][n] \in Supervised
    BY <1>t, <1>12 DEF OrphanEnds, TypeOK, Supervised, Unsettled, Settling
  <2>3. \A i \in Jobs : HandsOn(i)' = HandsOn(i)
    BY <2>1, <2>2 DEF HandsOn
  <2>4. Hands' = Hands /\ States' = States
    BY <2>1, <2>3 DEF Hands, States
  <2> QED BY <2>1, <2>4, BoardKept
<1> QED
  BY <1>4, <1>5, <1>6, <1>7, <1>8, <1>9, <1>10, <1>11, <1>12 DEF AttemptStep

LEMMA ClaimOnBoard ==
    ASSUME IInv, LiveHoldsLease, NEW w \in Workers, NEW j \in Jobs, Claim(w, j)
    PROVE  Board!Take(w, j)
<1> DEFINE k == attemptCount[j] + 1
<1>t. TypeOK
  BY DEF IInv
<1>1. k \in AttemptNos
  BY <1>t, BackgroundJobsAssumption DEF Claim, Claimable, AttemptNos, TypeOK
<1>2. \A n \in AttemptNos : phase[j][n] \notin Supervised
  BY DEF Claim, Claimable, LiveHoldsLease, Leased
<1>3. Hands[j] = {}
  BY <1>2, NoHands DEF Hands
<1>4. States[j] \in {"waiting", "out"}
  BY Standings DEF Claim, Claimable, States
<1>5. States' = [States EXCEPT ![j] = "out"]
  BY <1>t, StateBecomes, Standings DEF Claim
<1>6. /\ phase'[j][k] = "forked" /\ ranBy'[j][k] = w
      /\ \A n \in AttemptNos : n # k => phase'[j][n] = phase[j][n]
      /\ \A i \in Jobs : i # j => phase'[i] = phase[i] /\ ranBy'[i] = ranBy[i]
  BY <1>t, <1>1 DEF Claim, TypeOK
<1>7. {n \in AttemptNos : phase'[j][n] \in Supervised} = {k}
  BY <1>1, <1>2, <1>6 DEF Supervised, Unsettled
<1>8. HandsOn(j)' = {w}
  BY <1>6, <1>7 DEF HandsOn, Supervised
<1>9. \A i \in Jobs : i # j => HandsOn(i)' = HandsOn(i)
  <2> SUFFICES ASSUME NEW i \in Jobs, i # j PROVE HandsOn(i)' = HandsOn(i)
    OBVIOUS
  <2> QED BY <1>6 DEF HandsOn
<1>10. Hands' = [Hands EXCEPT ![j] = {w}]
  BY <1>8, <1>9 DEF Hands
<1>11. attemptCount[j] < MaxAttempts[j] /\ attemptCount' = [attemptCount EXCEPT ![j] = attemptCount[j] + 1]
  BY DEF Claim, Claimable
<1> QED
  BY <1>3, <1>4, <1>5, <1>10, <1>11 DEF Board!Take, Board!Become, States, Hands

LEMMA WorkerStepOnBoard ==
    ASSUME IInv, LiveHoldsLease, SweptRowsHold, SweptAreExhausted, NEW w \in Workers,
           WorkerStep(w)
    PROVE  Board!Next \/ UNCHANGED Board!board
<1>t. TypeOK
  BY DEF IInv
<1>1. ASSUME NEW j \in Jobs, Claim(w, j)
      PROVE  Board!Next
  BY <1>1, ClaimOnBoard, BoardActions
<1>2. CASE ApplySweep(w)
  <2>1. PICK row \in swept[w] : ApplySweepRow(w, row)
    BY <1>2 DEF ApplySweep
  <2> DEFINE j == row[1]
  <2>2. j \in Jobs
    BY <1>t DEF TypeOK
  <2>3. CASE SweepApplies(row)
    <3>1. leaseExpired[j] /\ status[j] = "running"
      BY <2>1, <2>3 DEF SweepApplies, SweptRowsHold, Leased
    <3>2. \A k \in AttemptNos : phase[j][k] \notin Supervised
      BY <2>2, <3>1 DEF LiveHoldsLease
    <3>3. Hands[j] = {} /\ States[j] = "out"
      BY <2>2, <3>1, <3>2, NoHands, Standings DEF Hands, States
    <3>4. UNCHANGED <<phase, ranBy, attemptCount>> /\ status' = [status EXCEPT ![j] = "dead_letter"]
      BY <2>1, <2>3 DEF ApplySweepRow
    <3>5. States' = [States EXCEPT ![j] = "over"]
      <4>1. Standing("dead_letter") = "over"
        BY Standings DEF TERMINAL
      <4> QED BY <1>t, <2>2, <3>4, <4>1, StateBecomes
    <3>6. Hands' = Hands
      BY <3>4 DEF Hands, HandsOn
    <3>7. attemptCount[j] >= MaxAttempts[j]
      BY <2>1 DEF SweptAreExhausted
    <3>8. Board!GiveUp(j)
      BY <3>3, <3>4, <3>5, <3>6, <3>7 DEF Board!GiveUp, Board!Become, States, Hands
    <3> QED BY <2>2, <3>8, BoardActions
  <2>4. CASE ~SweepApplies(row)
    BY <2>1, <2>4, BoardStays DEF ApplySweepRow, document
  <2> QED BY <2>3, <2>4
<1>3. ASSUME Gone(w)
      PROVE  Board!Next
  <2> DEFINE some == {j \in Jobs : w \in HandsOn(j)}
  <2>1. UNCHANGED <<status, attemptCount, ranBy>>
    BY <1>3 DEF Gone, document
  <2>2. \A j \in Jobs, k \in AttemptNos :
          phase'[j][k] \in Supervised <=> phase[j][k] \in Supervised /\ ranBy[j][k] # w
    BY <1>3 DEF Gone, Supervised, Unsettled, Settling
  <2>3. ASSUME NEW j \in Jobs
        PROVE  HandsOn(j)' = HandsOn(j) \ {w}
    BY <2>1, <2>2 DEF HandsOn, Supervised
  <2>4. \A j \in some : HandsOn(j) = {w}
    <3> SUFFICES ASSUME NEW j \in some PROVE HandsOn(j) = {w}
      OBVIOUS
    <3>1. PICK k \in AttemptNos : phase[j][k] \in Supervised /\ ranBy[j][k] = w
      BY DEF HandsOn, Supervised
    <3> QED BY <3>1, OneHand
  <2>5. Hands' = [j \in Jobs |-> IF j \in some THEN {} ELSE Hands[j]]
    <3>1. \A j \in Jobs : HandsOn(j)' = IF j \in some THEN {} ELSE HandsOn(j)
      BY <2>3, <2>4
    <3> QED BY <3>1 DEF Hands
  <2>6. \A j \in some : Hands[j] = {w}
    BY <2>4 DEF Hands
  <2> HIDE DEF some
  <2>7. Board!LetGo(w, some)
    BY <2>1, <2>5, <2>6 DEF Board!LetGo, States, Hands
  <2>8. some \in SUBSET Jobs
    BY DEF some
  <2> QED BY <2>7, <2>8, BoardActions
<1>4. CASE UNCHANGED <<status, attemptCount, phase, ranBy>>
  BY <1>4, BoardStays
<1> QED
  BY <1>1, <1>2, <1>3, <1>4
  DEF WorkerStep, BeginClaim, ClaimNothing, ReadForSweep, Stop, Exit, Crash, Restart, document

\* While no lease lapses under a live attempt, the queue is a job board: to
\* who submits and works, heartbeats, late writes, stale rows of the sweep,
\* cancellations under way and restarts show nothing that a board with one
\* worker at a time on a job would not show.
THEOREM BoardIsImplemented ==
    ASSUME ~LeaseMayLapse
    PROVE  Spec => ImplementsBoard
<1>1. Init => Board!Init
  <2> SUFFICES ASSUME Init PROVE Board!Init
    OBVIOUS
  <2>1. \A j \in Jobs : HandsOn(j) = {}
    BY NoHands DEF Init, Supervised, Unsettled, Settling
  <2>2. \A j \in Jobs : Standing(status[j]) = "absent"
    BY Standings DEF Init
  <2> QED BY <2>1, <2>2 DEF Board!Init, Init
<1>2. /\ IInv /\ LiveHoldsLease /\ SweptRowsHold /\ SweptAreExhausted /\ RetriesAreLeft
      /\ [Next]_vars
      => [Board!Next]_(Board!board)
  <2> SUFFICES ASSUME IInv, LiveHoldsLease, SweptRowsHold, SweptAreExhausted, RetriesAreLeft,
                      [Next]_vars
               PROVE  Board!Next \/ UNCHANGED Board!board
    OBVIOUS
  <2>1. TypeOK
    BY DEF IInv
  <2>2. CASE UNCHANGED vars
    BY <2>2, BoardStays DEF vars, document
  <2> QED
    BY <2>1, <2>2, JobStepOnBoard, AttemptStepOnBoard, WorkerStepOnBoard DEF Next
<1> QED
  BY <1>1, <1>2, Invariance, LiveInvariance, SweptInvariance, ExhaustedInvariance,
     RetriesInvariance, PTL DEF Spec, ImplementsBoard, Board!Spec
=============================================================================

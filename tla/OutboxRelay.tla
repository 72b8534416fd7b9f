---------------------------- MODULE OutboxRelay ----------------------------
(***************************************************************************)
(* From a business command to a webhook: CommandPipeline.execute runs a    *)
(* command in a MongoDB transaction and enqueues its event in the outbox;  *)
(* the drain loop of outboxJob.js claims events and its default handler    *)
(* turns each into an integration job; the drain loop of integrationJob.js *)
(* claims those and sends them to the endpoint.                            *)
(*                                                                         *)
(* Any process may drain: the scheduler's owner, a web process an admin    *)
(* asks to, the script outbox-drain.js.  One flag per loop keeps a process *)
(* on one event and one job at a time.                                     *)
(*                                                                         *)
(* A command emits one event, which carries its name.  The job that the    *)
(* n-th claim of an event makes is <<event, n>>.  Times are left out: a    *)
(* claim may come at any time after the retry delay or the lock's timeout, *)
(* so these only tell whether it may overtake a live handler (a `lapse`).  *)
(* A database operation that throws has changed nothing.                   *)
(***************************************************************************)
EXTENDS Integers, FiniteSets

CONSTANTS
    Commands,     \* executions of commands
    KeyOf,        \* idempotency key of an execution
    NoKey,        \* no key
    NameOf,       \* name of the command it executes
    Processes,    \* processes that drain
    Targeted,     \* those that have OUTBOX_WEBHOOK_ENDPOINT and the flag
    NoClaim,      \* what a loop works on between claims
    MaxAttempts,  \* maxAttempts of an event
    ClaimLimit,   \* events are not claimed more often
    JobAttempts,  \* maxAttempts of an integration job
    MaxFaults     \* bound: claims that overtake a live handler, crashes, and
                  \* jobs an operator puts back, in total

ASSUME OutboxRelayAssumption ==
    /\ Targeted \subseteq Processes
    /\ MaxAttempts \in Nat \ {0}
    /\ ClaimLimit \in Nat
    /\ MaxAttempts <= ClaimLimit
    /\ JobAttempts \in Nat \ {0}
    /\ MaxFaults \in Nat

Jobs == Commands \X (1..ClaimLimit)

ASSUME NoClaimAssumption == NoClaim \notin Jobs

VARIABLES
    pc,                                \* executions of commands
    \* outbox_events, by command
    status, attempts, result,
    \* integration_jobs
    jobStatus, jobAttempts,
    \* per process: the outbox loop's claim (event, attempt) and where it is;
    \* the integration loop's, and attemptCount as its claim returned it
    claim, stage, sending, sendNo, sendStage,
    received,                          \* jobs the endpoint has got
    lapses, upsets                     \* counted: handlers overtaken; crashes and retries

outbox  == <<status, attempts, result>>
jobs    == <<jobStatus, jobAttempts>>
drain   == <<claim, stage>>
sender  == <<sending, sendNo, sendStage>>
faults  == <<lapses, upsets>>
vars    == <<pc, outbox, jobs, drain, sender, received, faults>>

EventStatus == {"absent", "pending", "processing", "processed", "failed"}
JobStatus   == {"absent", "pending", "processing", "completed", "failed"}

TypeOK ==
    /\ pc \in [Commands -> {"idle", "open", "doomed", "executed", "replayed", "failed"}]
    /\ status \in [Commands -> EventStatus]
    /\ attempts \in [Commands -> 0..ClaimLimit]
    /\ result \in [Commands -> SUBSET Jobs]
    /\ jobStatus \in [Jobs -> JobStatus]
    /\ jobAttempts \in [Jobs -> 0..JobAttempts]
    /\ claim \in [Processes -> Jobs \cup {NoClaim}]
    /\ stage \in [Processes -> {"idle", "claimed", "handled", "failing"}]
    /\ sending \in [Processes -> Jobs \cup {NoClaim}]
    /\ sendNo \in [Processes -> 0..JobAttempts]
    /\ sendStage \in [Processes -> {"idle", "sending", "answered", "failing"}]
    /\ received \subseteq Jobs
    /\ lapses \in Nat /\ upsets \in Nat

Init ==
    /\ pc = [c \in Commands |-> "idle"]
    /\ status = [c \in Commands |-> "absent"]
    /\ attempts = [c \in Commands |-> 0]
    /\ result = [c \in Commands |-> {}]
    /\ jobStatus = [j \in Jobs |-> "absent"]
    /\ jobAttempts = [j \in Jobs |-> 0]
    /\ claim = [p \in Processes |-> NoClaim]
    /\ stage = [p \in Processes |-> "idle"]
    /\ sending = [p \in Processes |-> NoClaim]
    /\ sendNo = [p \in Processes |-> 0]
    /\ sendStage = [p \in Processes |-> "idle"]
    /\ received = {}
    /\ lapses = 0 /\ upsets = 0

-----------------------------------------------------------------------------
(* CommandPipeline.execute *)

KeyTaken_NoUniqueIndex(c) == FALSE  \* mutant

\* The unique index on `key`, which knows no command name and no tenant.
KeyTaken(c) ==
    KeyOf[c] # NoKey /\ \E d \in Commands : pc[d] = "executed" /\ KeyOf[d] = KeyOf[c]

SameRequest(c, d) == KeyOf[c] # NoKey /\ KeyOf[d] = KeyOf[c] /\ NameOf[d] = NameOf[c]

CommandStep(c, to) ==
    /\ pc' = [pc EXCEPT ![c] = to]
    /\ UNCHANGED <<outbox, jobs, drain, sender, received, faults>>

\* The transaction's first read.  An execution whose key was used for another
\* command will fail on the index, whatever its handler does.
Begin(c) ==
    /\ pc[c] = "idle"
    /\ CommandStep(c,
         IF \E d \in Commands : pc[d] = "executed" /\ SameRequest(c, d) THEN "replayed"
         ELSE IF KeyTaken(c) THEN "doomed" ELSE "open")

\* Handler, audit, event and idempotency record commit together.
Commit(c) ==
    /\ pc[c] = "open"
    /\ ~KeyTaken(c)
    /\ pc' = [pc EXCEPT ![c] = "executed"]
    /\ status' = [status EXCEPT ![c] = "pending"]
    /\ UNCHANGED <<attempts, result, jobs, drain, sender, received, faults>>

\* The key was taken since the first read: a write conflict, and
\* withTransaction begins again.
Conflict(c) ==
    /\ pc[c] = "open"
    /\ KeyTaken(c)
    /\ CommandStep(c, "idle")

Fail_EventStays(c) ==  \* mutant: the event is written outside the transaction
    /\ pc[c] \in {"open", "doomed"}
    /\ pc' = [pc EXCEPT ![c] = "failed"]
    /\ status' = [status EXCEPT ![c] = "pending"]
    /\ UNCHANGED <<attempts, result, jobs, drain, sender, received, faults>>

\* The handler throws, or the index refuses the key.
Fail(c) ==
    /\ pc[c] \in {"open", "doomed"}
    /\ CommandStep(c, "failed")

-----------------------------------------------------------------------------
(* outboxJob.drain: claimNext, the handler, markProcessed or markFailed *)

Overtakes(c) ==
    status[c] = "processing" /\ \E p \in Processes : claim[p] = <<c, attempts[c]>>

Claimable_NoLimit(c) ==  \* mutant: no `attempts` in the filter
    /\ status[c] \in {"pending", "processing"}
    /\ Overtakes(c) => lapses + upsets < MaxFaults
Claimable_PendingOnly(c) ==  \* mutant: an abandoned event is not taken over
    attempts[c] < ClaimLimit /\ status[c] = "pending"

\* A pending event, or one whose lock is stale.
Claimable(c) ==
    /\ attempts[c] < ClaimLimit
    /\ status[c] \in {"pending", "processing"}
    /\ Overtakes(c) => lapses + upsets < MaxFaults

ClaimEvent_StaysPending(p, c) ==  \* mutant: the update does not set the status
    /\ stage[p] = "idle"
    /\ Claimable(c)
    /\ lapses' = IF Overtakes(c) THEN lapses + 1 ELSE lapses
    /\ attempts' = [attempts EXCEPT ![c] = @ + 1]
    /\ claim' = [claim EXCEPT ![p] = <<c, attempts[c] + 1>>]
    /\ stage' = [stage EXCEPT ![p] = "claimed"]
    /\ UNCHANGED <<pc, status, result, jobs, sender, received, upsets>>

ClaimEvent(p, c) ==
    /\ stage[p] = "idle"
    /\ Claimable(c)
    /\ lapses' = IF Overtakes(c) THEN lapses + 1 ELSE lapses
    /\ status' = [status EXCEPT ![c] = "processing"]
    /\ attempts' = [attempts EXCEPT ![c] = @ + 1]
    /\ claim' = [claim EXCEPT ![p] = <<c, attempts[c] + 1>>]
    /\ stage' = [stage EXCEPT ![p] = "claimed"]
    /\ UNCHANGED <<pc, result, jobs, sender, received, upsets>>

Handle_KeepsNoJob(p) ==  \* mutant: the job is not inserted
    /\ stage[p] = "claimed"
    /\ stage' = [stage EXCEPT ![p] = "handled"]
    /\ UNCHANGED <<pc, outbox, jobs, claim, sender, received, faults>>

\* The handler inserts an integration job, or has no target and answers
\* NO_INTEGRATION_TARGET.
Handle(p) ==
    /\ stage[p] = "claimed"
    /\ stage' = [stage EXCEPT ![p] = "handled"]
    /\ jobStatus' = IF p \in Targeted THEN [jobStatus EXCEPT ![claim[p]] = "pending"]
                    ELSE jobStatus
    /\ UNCHANGED <<pc, outbox, jobAttempts, claim, sender, received, faults>>

\* The endpoint is not allowed, the insert fails, or after the handler
\* markProcessed throws: all end in markFailed.
HandlingFails(p) ==
    /\ stage[p] \in {"claimed", "handled"}
    /\ stage' = [stage EXCEPT ![p] = "failing"]
    /\ UNCHANGED <<pc, outbox, jobs, claim, sender, received, faults>>

EndDrain(p) ==
    /\ claim' = [claim EXCEPT ![p] = NoClaim]
    /\ stage' = [stage EXCEPT ![p] = "idle"]
    /\ UNCHANGED <<pc, jobs, sender, received, faults>>

\* The filter is the event's id: neither lockedBy nor the status matters.
MarkProcessed(p) ==
    LET c == claim[p][1] IN
    /\ stage[p] = "handled"
    /\ status' = [status EXCEPT ![c] = "processed"]
    /\ result' = [result EXCEPT ![c] = IF p \in Targeted THEN {claim[p]} ELSE {}]
    /\ EndDrain(p)
    /\ UNCHANGED attempts

\* The decision is made on attempts as claimNext returned it.
Exhausted(n) == n >= MaxAttempts

MarkFailed(p) ==
    LET c == claim[p][1] IN
    /\ stage[p] = "failing"
    /\ status' = [status EXCEPT ![c] = IF Exhausted(claim[p][2]) THEN "failed" ELSE "pending"]
    /\ EndDrain(p)
    /\ UNCHANGED <<attempts, result>>

\* markFailed throws: drain ends and the event stays locked.
DrainThrows(p) ==
    /\ stage[p] = "failing"
    /\ EndDrain(p)
    /\ UNCHANGED outbox

-----------------------------------------------------------------------------
(* integrationJob.drain: IntegrationService.processOne *)

JobOvertakes(j) ==
    /\ jobStatus[j] = "processing"
    /\ \E p \in Processes : sending[p] = j /\ sendNo[p] = jobAttempts[j]

\* A pending job, or one not updated for five minutes: a request times out
\* far earlier, so only a process that was paused is overtaken.
JobClaimable(j) ==
    /\ jobAttempts[j] < JobAttempts
    /\ jobStatus[j] \in {"pending", "processing"}
    /\ JobOvertakes(j) => lapses + upsets < MaxFaults

ClaimJob(p, j) ==
    /\ sendStage[p] = "idle"
    /\ JobClaimable(j)
    /\ lapses' = IF JobOvertakes(j) THEN lapses + 1 ELSE lapses
    /\ jobStatus' = [jobStatus EXCEPT ![j] = "processing"]
    /\ jobAttempts' = [jobAttempts EXCEPT ![j] = @ + 1]
    /\ sending' = [sending EXCEPT ![p] = j]
    /\ sendNo' = [sendNo EXCEPT ![p] = jobAttempts[j] + 1]
    /\ sendStage' = [sendStage EXCEPT ![p] = "sending"]
    /\ UNCHANGED <<pc, outbox, drain, received, upsets>>

\* The endpoint gets the request; its answer is 2xx, or an error, or late.
EndpointReceives(p) ==
    /\ sendStage[p] = "sending"
    /\ received' = received \cup {sending[p]}
    /\ \E s \in {"answered", "failing"} : sendStage' = [sendStage EXCEPT ![p] = s]
    /\ UNCHANGED <<pc, outbox, jobs, drain, sending, sendNo, faults>>

SendFails_TakenForSent(p) ==  \* mutant: response.ok is not looked at
    /\ sendStage[p] = "sending"
    /\ sendStage' = [sendStage EXCEPT ![p] = "answered"]
    /\ UNCHANGED <<pc, outbox, jobs, drain, sending, sendNo, received, faults>>

\* The request does not get there, or after an answer the update throws.
SendFails(p) ==
    /\ sendStage[p] \in {"sending", "answered"}
    /\ sendStage' = [sendStage EXCEPT ![p] = "failing"]
    /\ UNCHANGED <<pc, outbox, jobs, drain, sending, sendNo, received, faults>>

EndSend(p) ==
    /\ sending' = [sending EXCEPT ![p] = NoClaim]
    /\ sendNo' = [sendNo EXCEPT ![p] = 0]
    /\ sendStage' = [sendStage EXCEPT ![p] = "idle"]
    /\ UNCHANGED <<pc, outbox, drain, received, faults>>

\* As in the outbox, the updates go by the job's id alone.
CompleteJob(p) ==
    /\ sendStage[p] = "answered"
    /\ jobStatus' = [jobStatus EXCEPT ![sending[p]] = "completed"]
    /\ EndSend(p)
    /\ UNCHANGED jobAttempts

FailJob(p) ==
    LET j == sending[p] IN
    /\ sendStage[p] = "failing"
    /\ jobStatus' = [jobStatus EXCEPT ![j] = IF sendNo[p] >= JobAttempts THEN "failed" ELSE "pending"]
    /\ EndSend(p)
    /\ UNCHANGED jobAttempts

SendThrows(p) ==
    /\ sendStage[p] = "failing"
    /\ EndSend(p)
    /\ UNCHANGED jobs

\* IntegrationService.retry: whatever the status is, and attemptCount stays.
RetryJob(j) ==
    /\ lapses + upsets < MaxFaults
    /\ jobStatus[j] # "absent"
    /\ upsets' = upsets + 1
    /\ jobStatus' = [jobStatus EXCEPT ![j] = "pending"]
    /\ UNCHANGED <<pc, outbox, jobAttempts, drain, sender, received, lapses>>

-----------------------------------------------------------------------------
\* The process is gone with both loops; its supervisor starts it again.
Crash(p) ==
    /\ lapses + upsets < MaxFaults
    /\ stage[p] # "idle" \/ sendStage[p] # "idle"
    /\ upsets' = upsets + 1
    /\ claim' = [claim EXCEPT ![p] = NoClaim]
    /\ stage' = [stage EXCEPT ![p] = "idle"]
    /\ sending' = [sending EXCEPT ![p] = NoClaim]
    /\ sendNo' = [sendNo EXCEPT ![p] = 0]
    /\ sendStage' = [sendStage EXCEPT ![p] = "idle"]
    /\ UNCHANGED <<pc, outbox, jobs, received, lapses>>

DrainStep(p) ==
    Handle(p) \/ HandlingFails(p) \/ MarkProcessed(p) \/ MarkFailed(p) \/ DrainThrows(p)

CommandNext(c) == Begin(c) \/ Commit(c) \/ Conflict(c) \/ Fail(c)

EventNext(c) ==
    \E p \in Processes : ClaimEvent(p, c)

JobNext(j) ==
    \/ RetryJob(j)
    \/ \E p \in Processes : ClaimJob(p, j)

ProcessNext(p) ==
    \/ DrainStep(p)
    \/ EndpointReceives(p) \/ SendFails(p) \/ CompleteJob(p) \/ FailJob(p) \/ SendThrows(p)
    \/ Crash(p)

Next ==
    \/ \E c \in Commands : CommandNext(c) \/ EventNext(c)
    \/ \E j \in Jobs : JobNext(j)
    \/ \E p \in Processes : ProcessNext(p)

Spec == Init /\ [][Next]_vars

(***************************************************************************)
(* Fairness.  withTransaction retries and a command ends; the outbox timer *)
(* fires on every process and a handler ends; claims are taken in the      *)
(* order of availableAt, so that no event is passed over for ever.         *)
(***************************************************************************)
Fairness ==
    /\ \A c \in Commands : SF_vars(\E p \in Processes : ClaimEvent(p, c))
    /\ \A p \in Processes : WF_vars(DrainStep(p))

FairSpec == Spec /\ Fairness

-----------------------------------------------------------------------------
(* Properties *)

\* Requests with one idempotency key and one command name are executed once,
\* and a request is answered from a record only when such an execution exists.
OneExecutionPerRequest ==
    /\ \A c, d \in Commands :
        pc[c] = "executed" /\ pc[d] = "executed" /\ SameRequest(c, d) => c = d
    /\ \A c \in Commands :
        pc[c] = "replayed" => \E d \in Commands : pc[d] = "executed" /\ SameRequest(c, d)

\* A processed event's record names a job that was really enqueued for it,
\* even when two handlers of the event finish one after the other; only a
\* process without a target processes an event without a job.
ProcessedHasItsJob ==
    \A c \in Commands :
        /\ \A j \in result[c] : j[1] = c /\ jobStatus[j] # "absent"
        /\ status[c] = "processed" /\ result[c] = {} => Targeted # Processes

\* While no handler was overtaken, at most one process works on an event, and
\* an event that waits can still be claimed.
OneHandlerWhileLocked ==
    lapses = 0 =>
        \A c \in Commands :
            /\ \A p, q \in Processes :
                claim[p] # NoClaim /\ claim[q] # NoClaim
                    /\ claim[p][1] = c /\ claim[q][1] = c => p = q
            /\ status[c] = "pending" => attempts[c] < ClaimLimit

\* While no handler was overtaken, a processed event stays processed and a
\* failed one failed, although neither update repeats the status or the lock.
SettledIsFinal ==
    [][\A c \in Commands :
        lapses = 0 /\ status[c] \in {"processed", "failed"} => status'[c] = status[c]]_vars

\* An event is given up only after MaxAttempts claims, however many of them
\* ended in a crash or went unrecorded.
GivenUpOnlyWhenExhausted ==
    \A c \in Commands : status[c] = "failed" => attempts[c] >= MaxAttempts

\* The outbox implements EventRelay: what reaches the endpoint was committed,
\* and a job is completed only if the endpoint got it.
Relay == INSTANCE EventRelay WITH
    Events       <- Commands,
    published    <- {c \in Commands : pc[c] = "executed"},
    delivered    <- {j[1] : j \in received},
    acknowledged <- {j[1] : j \in {i \in Jobs : jobStatus[i] = "completed"}}

ImplementsRelay == Relay!Spec

\* Every committed event is processed or given up, over crashes, overtaken
\* handlers and updates that throw, unless these use up all its claims.
EveryEventSettles ==
    \A c \in Commands :
        pc[c] = "executed" ~> \/ status[c] \in {"processed", "failed"}
                              \/ attempts[c] = ClaimLimit
=============================================================================

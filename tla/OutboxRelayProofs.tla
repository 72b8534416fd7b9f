------------------------- MODULE OutboxRelayProofs -------------------------
(***************************************************************************)
(* Safety of the outbox for every set of commands, keys and processes,     *)
(* every limit, and any number of overtaken handlers, crashes and retries. *)
(***************************************************************************)
EXTENDS OutboxRelay, TLAPS

-----------------------------------------------------------------------------
(* The inductive invariant *)

\* A loop has a claim exactly while it works, and the integration loop too.
LoopsHaveClaims ==
    \A p \in Processes :
        /\ stage[p] = "idle" <=> claim[p] = NoClaim
        /\ sendStage[p] = "idle" <=> sending[p] = NoClaim

\* An event exists only for a command that committed, and is claimed only then.
EventsAreCommitted ==
    \A c \in Commands :
        IF status[c] = "absent" THEN attempts[c] = 0 ELSE pc[c] = "executed"

\* A claim is of an event that exists, and not newer than its last one.
ClaimsAreOfEvents ==
    \A p \in Processes : claim[p] # NoClaim =>
        /\ status[claim[p][1]] # "absent"
        /\ claim[p][2] <= attempts[claim[p][1]]

\* A handler that returned on a process with a target has left a job.
HandledHasJob ==
    \A p \in Processes :
        stage[p] = "handled" /\ p \in Targeted => jobStatus[claim[p]] # "absent"

\* Jobs are of committed events, and so is what is being sent or received;
\* a job is answered or completed only if the endpoint got it.
JobsAreOfEvents ==
    /\ \A j \in Jobs : jobStatus[j] # "absent" => status[j[1]] # "absent"
    /\ \A p \in Processes : sending[p] # NoClaim => jobStatus[sending[p]] # "absent"
    /\ \A j \in received : jobStatus[j] # "absent"
    /\ \A p \in Processes : sendStage[p] = "answered" => sending[p] \in received
    /\ \A j \in Jobs : jobStatus[j] = "completed" => j \in received

\* While no handler was overtaken, a claim is the last one of its event, and
\* the event waits for it.
ClaimsAreCurrent ==
    lapses = 0 =>
        \A p \in Processes : claim[p] # NoClaim =>
            /\ claim[p][2] = attempts[claim[p][1]]
            /\ status[claim[p][1]] = "processing"
            /\ \A q \in Processes :
                claim[q] # NoClaim /\ claim[q][1] = claim[p][1] => q = p

\* A pending event has a claim left while no handler was overtaken.
PendingHasClaims ==
    lapses = 0 => \A c \in Commands : status[c] = "pending" => attempts[c] < ClaimLimit

IInv ==
    /\ TypeOK
    /\ LoopsHaveClaims
    /\ EventsAreCommitted
    /\ ClaimsAreOfEvents
    /\ HandledHasJob
    /\ JobsAreOfEvents
    /\ ClaimsAreCurrent
    /\ PendingHasClaims
    /\ ProcessedHasItsJob
    /\ GivenUpOnlyWhenExhausted
    /\ OneExecutionPerRequest

-----------------------------------------------------------------------------
(* Types, and what the loops hold *)

USE OutboxRelayAssumption, NoClaimAssumption

Types == TypeOK /\ LoopsHaveClaims

LEMMA TypesStep == Types /\ [Next]_vars => Types'
<1> SUFFICES ASSUME Types, [Next]_vars
             PROVE  Types'
  OBVIOUS
<1> USE DEF Types, TypeOK, LoopsHaveClaims, EventStatus, JobStatus,
            outbox, jobs, drain, sender, faults
<1>1. ASSUME NEW c \in Commands, CommandNext(c)
      PROVE  Types'
  <2> USE DEF CommandStep
  <2>1. CASE Begin(c)    BY <2>1 DEF Begin
  <2>2. CASE Commit(c)   BY <2>2 DEF Commit
  <2>3. CASE Conflict(c) BY <2>3 DEF Conflict
  <2>4. CASE Fail(c)     BY <2>4 DEF Fail
  <2> QED BY <1>1, <2>1, <2>2, <2>3, <2>4 DEF CommandNext
<1>2. ASSUME NEW c \in Commands, NEW p \in Processes, ClaimEvent(p, c)
      PROVE  Types'
  <2>1. attempts[c] + 1 \in 1..ClaimLimit
    BY <1>2 DEF ClaimEvent, Claimable
  <2>2. <<c, attempts[c] + 1>> \in Jobs
    BY <2>1 DEF Jobs
  <2> QED BY <1>2, <2>1, <2>2 DEF ClaimEvent
<1>3. ASSUME NEW j \in Jobs, NEW p \in Processes, ClaimJob(p, j)
      PROVE  Types'
  <2>1. jobAttempts[j] + 1 \in 0..JobAttempts
    BY <1>3 DEF ClaimJob, JobClaimable
  <2> QED BY <1>3, <2>1 DEF ClaimJob
<1>4. ASSUME NEW j \in Jobs, RetryJob(j)
      PROVE  Types'
  BY <1>4 DEF RetryJob
<1>5. ASSUME NEW p \in Processes, ProcessNext(p)
      PROVE  Types'
  <2> USE DEF EndDrain, EndSend
  <2>1. CASE Handle(p)           BY <2>1 DEF Handle
  <2>2. CASE HandlingFails(p)    BY <2>2 DEF HandlingFails
  <2>3. CASE MarkProcessed(p)    BY <2>3 DEF MarkProcessed
  <2>4. CASE MarkFailed(p)       BY <2>4 DEF MarkFailed
  <2>5. CASE DrainThrows(p)      BY <2>5 DEF DrainThrows
  <2>6. CASE EndpointReceives(p) BY <2>6 DEF EndpointReceives
  <2>7. CASE SendFails(p)        BY <2>7 DEF SendFails
  <2>8. CASE CompleteJob(p)      BY <2>8 DEF CompleteJob
  <2>9. CASE FailJob(p)          BY <2>9 DEF FailJob
  <2>10. CASE SendThrows(p)      BY <2>10 DEF SendThrows
  <2>11. CASE Crash(p)           BY <2>11 DEF Crash
  <2> QED BY <1>5, <2>1, <2>2, <2>3, <2>4, <2>5, <2>6, <2>7, <2>8, <2>9, <2>10, <2>11
          DEF ProcessNext, DrainStep
<1>6. CASE UNCHANGED vars
  BY <1>6 DEF vars
<1> QED
  BY <1>1, <1>2, <1>3, <1>4, <1>5, <1>6 DEF Next, EventNext, JobNext

-----------------------------------------------------------------------------
(* Every step preserves the invariant *)

LEMMA InvStep == IInv /\ [Next]_vars => IInv'
<1> SUFFICES ASSUME IInv, [Next]_vars
             PROVE  IInv'
  OBVIOUS
<1>0. Types /\ Types'
  BY TypesStep DEF Types, IInv
<1> USE <1>0 DEF Types, TypeOK, LoopsHaveClaims, IInv, Jobs,
                 outbox, jobs, drain, sender, faults
<1>1. ASSUME NEW c \in Commands, Begin(c)
      PROVE  IInv'
  <2>1. EventsAreCommitted'
    BY <1>1 DEF Begin, CommandStep, EventsAreCommitted
  <2>2. OneExecutionPerRequest'
    BY <1>1 DEF Begin, CommandStep, OneExecutionPerRequest, SameRequest
  <2>3. ClaimsAreOfEvents' /\ HandledHasJob'
          /\ JobsAreOfEvents' /\ ClaimsAreCurrent'
          /\ PendingHasClaims' /\ ProcessedHasItsJob'
          /\ GivenUpOnlyWhenExhausted'
    BY <1>1 DEF Begin, CommandStep, ClaimsAreOfEvents, HandledHasJob, JobsAreOfEvents,
               ClaimsAreCurrent, PendingHasClaims, ProcessedHasItsJob,
               GivenUpOnlyWhenExhausted
  <2> QED BY <2>1, <2>2, <2>3
<1>2. ASSUME NEW c \in Commands, Commit(c)
      PROVE  IInv'
  <2>1. EventsAreCommitted'
    BY <1>2 DEF Commit, EventsAreCommitted
  <2>2. ClaimsAreOfEvents'
    BY <1>2 DEF Commit, ClaimsAreOfEvents
  <2>3. JobsAreOfEvents'
    BY <1>2 DEF Commit, JobsAreOfEvents
  <2>4. ClaimsAreCurrent'
    BY <1>2 DEF Commit, ClaimsAreCurrent, EventsAreCommitted, ClaimsAreOfEvents
  <2>5. PendingHasClaims'
    BY <1>2 DEF Commit, PendingHasClaims, EventsAreCommitted
  <2>6. OneExecutionPerRequest'
    BY <1>2 DEF Commit, OneExecutionPerRequest, SameRequest, KeyTaken
  <2>7. HandledHasJob' /\ ProcessedHasItsJob'
          /\ GivenUpOnlyWhenExhausted'
    BY <1>2 DEF Commit, HandledHasJob, ProcessedHasItsJob, GivenUpOnlyWhenExhausted
  <2> QED BY <2>1, <2>2, <2>3, <2>4, <2>5, <2>6, <2>7
<1>3. ASSUME NEW c \in Commands, Conflict(c)
      PROVE  IInv'
  <2>1. EventsAreCommitted'
    BY <1>3 DEF Conflict, CommandStep, EventsAreCommitted
  <2>2. OneExecutionPerRequest'
    BY <1>3 DEF Conflict, CommandStep, OneExecutionPerRequest, SameRequest
  <2>3. ClaimsAreOfEvents' /\ HandledHasJob'
          /\ JobsAreOfEvents' /\ ClaimsAreCurrent'
          /\ PendingHasClaims' /\ ProcessedHasItsJob'
          /\ GivenUpOnlyWhenExhausted'
    BY <1>3 DEF Conflict, CommandStep, ClaimsAreOfEvents, HandledHasJob, JobsAreOfEvents,
               ClaimsAreCurrent, PendingHasClaims, ProcessedHasItsJob,
               GivenUpOnlyWhenExhausted
  <2> QED BY <2>1, <2>2, <2>3
<1>4. ASSUME NEW c \in Commands, Fail(c)
      PROVE  IInv'
  <2>1. EventsAreCommitted'
    BY <1>4 DEF Fail, CommandStep, EventsAreCommitted
  <2>2. OneExecutionPerRequest'
    BY <1>4 DEF Fail, CommandStep, OneExecutionPerRequest, SameRequest
  <2>3. ClaimsAreOfEvents' /\ HandledHasJob'
          /\ JobsAreOfEvents' /\ ClaimsAreCurrent'
          /\ PendingHasClaims' /\ ProcessedHasItsJob'
          /\ GivenUpOnlyWhenExhausted'
    BY <1>4 DEF Fail, CommandStep, ClaimsAreOfEvents, HandledHasJob, JobsAreOfEvents,
               ClaimsAreCurrent, PendingHasClaims, ProcessedHasItsJob,
               GivenUpOnlyWhenExhausted
  <2> QED BY <2>1, <2>2, <2>3
<1>5. ASSUME NEW c \in Commands, NEW p \in Processes, ClaimEvent(p, c)
      PROVE  IInv'
  <2>1. EventsAreCommitted'
    BY <1>5 DEF ClaimEvent, Claimable, EventsAreCommitted
  <2>2. ClaimsAreOfEvents'
    BY <1>5 DEF ClaimEvent, Claimable, ClaimsAreOfEvents
  <2>3. HandledHasJob'
    BY <1>5 DEF ClaimEvent, Claimable, HandledHasJob
  <2>4. JobsAreOfEvents'
    BY <1>5 DEF ClaimEvent, Claimable, JobsAreOfEvents
  <2>5. ClaimsAreCurrent'
    <3>1. SUFFICES ASSUME lapses' = 0
                   PROVE  ClaimsAreCurrent'
      BY DEF ClaimsAreCurrent
    <3>2. lapses = 0 /\ ~Overtakes(c)
      BY <1>5, <3>1 DEF ClaimEvent
    <3>3. ASSUME NEW q \in Processes, claim[q] # NoClaim, claim[q][1] = c
          PROVE  FALSE
      <4>1. claim[q][2] = attempts[c] /\ status[c] = "processing"
        BY <3>2, <3>3 DEF ClaimsAreCurrent
      <4>2. claim[q] = <<c, attempts[c]>>
        BY <3>3, <4>1
      <4> QED BY <3>2, <4>1, <4>2 DEF Overtakes
    <3> QED BY <1>5, <3>2, <3>3 DEF ClaimEvent, ClaimsAreCurrent
  <2>6. PendingHasClaims'
    BY <1>5 DEF ClaimEvent, Claimable, PendingHasClaims
  <2>7. ProcessedHasItsJob'
    BY <1>5 DEF ClaimEvent, Claimable, ProcessedHasItsJob
  <2>8. GivenUpOnlyWhenExhausted'
    BY <1>5 DEF ClaimEvent, Claimable, GivenUpOnlyWhenExhausted
  <2>9. OneExecutionPerRequest'
    BY <1>5 DEF ClaimEvent, Claimable, OneExecutionPerRequest, SameRequest
  <2> QED BY <2>1, <2>2, <2>3, <2>4, <2>5, <2>6, <2>7, <2>8, <2>9
<1>6. ASSUME NEW j \in Jobs, NEW p \in Processes, ClaimJob(p, j)
      PROVE  IInv'
  <2>1. HandledHasJob'
    BY <1>6 DEF ClaimJob, JobClaimable, HandledHasJob
  <2>2. JobsAreOfEvents'
    BY <1>6 DEF ClaimJob, JobClaimable, JobsAreOfEvents
  <2>3. PendingHasClaims'
    BY <1>6 DEF ClaimJob, JobClaimable, PendingHasClaims
  <2>4. ProcessedHasItsJob'
    BY <1>6 DEF ClaimJob, JobClaimable, ProcessedHasItsJob
  <2>5. ClaimsAreCurrent'
    BY <1>6 DEF ClaimJob, JobClaimable, ClaimsAreCurrent
  <2>6. EventsAreCommitted' /\ ClaimsAreOfEvents'
          /\ GivenUpOnlyWhenExhausted' /\ OneExecutionPerRequest'
    BY <1>6 DEF ClaimJob, JobClaimable, EventsAreCommitted, ClaimsAreOfEvents,
               GivenUpOnlyWhenExhausted, OneExecutionPerRequest, SameRequest
  <2> QED BY <2>1, <2>2, <2>3, <2>4, <2>5, <2>6
<1>7. ASSUME NEW j \in Jobs, RetryJob(j)
      PROVE  IInv'
  <2>1. HandledHasJob'
    BY <1>7 DEF RetryJob, HandledHasJob
  <2>2. JobsAreOfEvents'
    BY <1>7 DEF RetryJob, JobsAreOfEvents
  <2>3. ProcessedHasItsJob'
    BY <1>7 DEF RetryJob, ProcessedHasItsJob
  <2>4. EventsAreCommitted' /\ ClaimsAreOfEvents'
          /\ ClaimsAreCurrent' /\ PendingHasClaims'
          /\ GivenUpOnlyWhenExhausted' /\ OneExecutionPerRequest'
    BY <1>7 DEF RetryJob, EventsAreCommitted, ClaimsAreOfEvents, ClaimsAreCurrent,
               PendingHasClaims, GivenUpOnlyWhenExhausted, OneExecutionPerRequest,
               SameRequest
  <2> QED BY <2>1, <2>2, <2>3, <2>4
<1>8. ASSUME NEW p \in Processes, Handle(p)
      PROVE  IInv'
  <2>1. HandledHasJob'
    BY <1>8 DEF Handle, HandledHasJob
  <2>2. JobsAreOfEvents'
    BY <1>8 DEF Handle, JobsAreOfEvents, ClaimsAreOfEvents
  <2>3. ProcessedHasItsJob'
    BY <1>8 DEF Handle, ProcessedHasItsJob
  <2>4. EventsAreCommitted' /\ ClaimsAreOfEvents'
          /\ ClaimsAreCurrent' /\ PendingHasClaims'
          /\ GivenUpOnlyWhenExhausted' /\ OneExecutionPerRequest'
    BY <1>8 DEF Handle, EventsAreCommitted, ClaimsAreOfEvents, ClaimsAreCurrent,
               PendingHasClaims, GivenUpOnlyWhenExhausted, OneExecutionPerRequest,
               SameRequest
  <2> QED BY <2>1, <2>2, <2>3, <2>4
<1>9. ASSUME NEW p \in Processes, HandlingFails(p)
      PROVE  IInv'
  <2>1. HandledHasJob'
    BY <1>9 DEF HandlingFails, HandledHasJob
  <2>2. EventsAreCommitted' /\ ClaimsAreOfEvents'
          /\ JobsAreOfEvents' /\ ClaimsAreCurrent'
          /\ PendingHasClaims' /\ ProcessedHasItsJob'
          /\ GivenUpOnlyWhenExhausted' /\ OneExecutionPerRequest'
    BY <1>9 DEF HandlingFails, EventsAreCommitted, ClaimsAreOfEvents, JobsAreOfEvents,
               ClaimsAreCurrent, PendingHasClaims, ProcessedHasItsJob,
               GivenUpOnlyWhenExhausted, OneExecutionPerRequest, SameRequest
  <2> QED BY <2>1, <2>2
<1>10. ASSUME NEW p \in Processes, MarkProcessed(p)
      PROVE  IInv'
  <2>1. EventsAreCommitted'
    BY <1>10 DEF MarkProcessed, EndDrain, EventsAreCommitted, ClaimsAreOfEvents
  <2>2. ClaimsAreOfEvents'
    BY <1>10 DEF MarkProcessed, EndDrain, ClaimsAreOfEvents
  <2>3. HandledHasJob'
    BY <1>10 DEF MarkProcessed, EndDrain, HandledHasJob
  <2>4. JobsAreOfEvents'
    BY <1>10 DEF MarkProcessed, EndDrain, JobsAreOfEvents
  <2>5. ClaimsAreCurrent'
    BY <1>10 DEF MarkProcessed, EndDrain, ClaimsAreCurrent
  <2>6. PendingHasClaims'
    BY <1>10 DEF MarkProcessed, EndDrain, PendingHasClaims
  <2>7. ProcessedHasItsJob'
    BY <1>10 DEF MarkProcessed, EndDrain, ProcessedHasItsJob, HandledHasJob
  <2>8. GivenUpOnlyWhenExhausted'
    BY <1>10 DEF MarkProcessed, EndDrain, GivenUpOnlyWhenExhausted
  <2>9. OneExecutionPerRequest'
    BY <1>10 DEF MarkProcessed, EndDrain, OneExecutionPerRequest, SameRequest
  <2> QED BY <2>1, <2>2, <2>3, <2>4, <2>5, <2>6, <2>7, <2>8, <2>9
<1>11. ASSUME NEW p \in Processes, MarkFailed(p)
      PROVE  IInv'
  <2>1. EventsAreCommitted'
    BY <1>11 DEF MarkFailed, EndDrain, Exhausted, EventsAreCommitted, ClaimsAreOfEvents
  <2>2. ClaimsAreOfEvents'
    BY <1>11 DEF MarkFailed, EndDrain, Exhausted, ClaimsAreOfEvents
  <2>3. HandledHasJob'
    BY <1>11 DEF MarkFailed, EndDrain, Exhausted, HandledHasJob
  <2>4. JobsAreOfEvents'
    BY <1>11 DEF MarkFailed, EndDrain, Exhausted, JobsAreOfEvents
  <2>5. ClaimsAreCurrent'
    BY <1>11 DEF MarkFailed, EndDrain, Exhausted, ClaimsAreCurrent
  <2>6. PendingHasClaims'
    BY <1>11 DEF MarkFailed, EndDrain, Exhausted, PendingHasClaims, ClaimsAreCurrent
  <2>7. ProcessedHasItsJob'
    BY <1>11 DEF MarkFailed, EndDrain, Exhausted, ProcessedHasItsJob
  <2>8. GivenUpOnlyWhenExhausted'
    BY <1>11 DEF MarkFailed, EndDrain, Exhausted, GivenUpOnlyWhenExhausted,
                ClaimsAreOfEvents
  <2>9. OneExecutionPerRequest'
    BY <1>11 DEF MarkFailed, EndDrain, Exhausted, OneExecutionPerRequest, SameRequest
  <2> QED BY <2>1, <2>2, <2>3, <2>4, <2>5, <2>6, <2>7, <2>8, <2>9
<1>12. ASSUME NEW p \in Processes, DrainThrows(p)
      PROVE  IInv'
  <2>1. ClaimsAreOfEvents'
    BY <1>12 DEF DrainThrows, EndDrain, ClaimsAreOfEvents
  <2>2. HandledHasJob'
    BY <1>12 DEF DrainThrows, EndDrain, HandledHasJob
  <2>3. ClaimsAreCurrent'
    BY <1>12 DEF DrainThrows, EndDrain, ClaimsAreCurrent
  <2>4. EventsAreCommitted' /\ JobsAreOfEvents'
          /\ PendingHasClaims' /\ ProcessedHasItsJob'
          /\ GivenUpOnlyWhenExhausted' /\ OneExecutionPerRequest'
    BY <1>12 DEF DrainThrows, EndDrain, EventsAreCommitted, JobsAreOfEvents,
                PendingHasClaims, ProcessedHasItsJob, GivenUpOnlyWhenExhausted,
                OneExecutionPerRequest, SameRequest
  <2> QED BY <2>1, <2>2, <2>3, <2>4
<1>13. ASSUME NEW p \in Processes, EndpointReceives(p)
      PROVE  IInv'
  <2>1. JobsAreOfEvents'
    BY <1>13 DEF EndpointReceives, JobsAreOfEvents
  <2>2. EventsAreCommitted' /\ ClaimsAreOfEvents'
          /\ HandledHasJob' /\ ClaimsAreCurrent'
          /\ PendingHasClaims' /\ ProcessedHasItsJob'
          /\ GivenUpOnlyWhenExhausted' /\ OneExecutionPerRequest'
    BY <1>13 DEF EndpointReceives, EventsAreCommitted, ClaimsAreOfEvents, HandledHasJob,
                ClaimsAreCurrent, PendingHasClaims, ProcessedHasItsJob,
                GivenUpOnlyWhenExhausted, OneExecutionPerRequest, SameRequest
  <2> QED BY <2>1, <2>2
<1>14. ASSUME NEW p \in Processes, SendFails(p)
      PROVE  IInv'
  <2>1. JobsAreOfEvents'
    BY <1>14 DEF SendFails, JobsAreOfEvents
  <2>2. EventsAreCommitted' /\ ClaimsAreOfEvents'
          /\ HandledHasJob' /\ ClaimsAreCurrent'
          /\ PendingHasClaims' /\ ProcessedHasItsJob'
          /\ GivenUpOnlyWhenExhausted' /\ OneExecutionPerRequest'
    BY <1>14 DEF SendFails, EventsAreCommitted, ClaimsAreOfEvents, HandledHasJob,
                ClaimsAreCurrent, PendingHasClaims, ProcessedHasItsJob,
                GivenUpOnlyWhenExhausted, OneExecutionPerRequest, SameRequest
  <2> QED BY <2>1, <2>2
<1>15. ASSUME NEW p \in Processes, CompleteJob(p)
      PROVE  IInv'
  <2>1. HandledHasJob'
    BY <1>15 DEF CompleteJob, EndSend, HandledHasJob
  <2>2. JobsAreOfEvents'
    BY <1>15 DEF CompleteJob, EndSend, JobsAreOfEvents
  <2>3. ProcessedHasItsJob'
    BY <1>15 DEF CompleteJob, EndSend, ProcessedHasItsJob
  <2>4. EventsAreCommitted' /\ ClaimsAreOfEvents'
          /\ ClaimsAreCurrent' /\ PendingHasClaims'
          /\ GivenUpOnlyWhenExhausted' /\ OneExecutionPerRequest'
    BY <1>15 DEF CompleteJob, EndSend, EventsAreCommitted, ClaimsAreOfEvents,
                ClaimsAreCurrent, PendingHasClaims, GivenUpOnlyWhenExhausted,
                OneExecutionPerRequest, SameRequest
  <2> QED BY <2>1, <2>2, <2>3, <2>4
<1>16. ASSUME NEW p \in Processes, FailJob(p)
      PROVE  IInv'
  <2>1. HandledHasJob'
    BY <1>16 DEF FailJob, EndSend, HandledHasJob
  <2>2. JobsAreOfEvents'
    BY <1>16 DEF FailJob, EndSend, JobsAreOfEvents
  <2>3. ProcessedHasItsJob'
    BY <1>16 DEF FailJob, EndSend, ProcessedHasItsJob
  <2>4. EventsAreCommitted' /\ ClaimsAreOfEvents'
          /\ ClaimsAreCurrent' /\ PendingHasClaims'
          /\ GivenUpOnlyWhenExhausted' /\ OneExecutionPerRequest'
    BY <1>16 DEF FailJob, EndSend, EventsAreCommitted, ClaimsAreOfEvents,
                ClaimsAreCurrent, PendingHasClaims, GivenUpOnlyWhenExhausted,
                OneExecutionPerRequest, SameRequest
  <2> QED BY <2>1, <2>2, <2>3, <2>4
<1>17. ASSUME NEW p \in Processes, SendThrows(p)
      PROVE  IInv'
  <2>1. JobsAreOfEvents'
    BY <1>17 DEF SendThrows, EndSend, JobsAreOfEvents
  <2>2. EventsAreCommitted' /\ ClaimsAreOfEvents'
          /\ HandledHasJob' /\ ClaimsAreCurrent'
          /\ PendingHasClaims' /\ ProcessedHasItsJob'
          /\ GivenUpOnlyWhenExhausted' /\ OneExecutionPerRequest'
    BY <1>17 DEF SendThrows, EndSend, EventsAreCommitted, ClaimsAreOfEvents,
                HandledHasJob, ClaimsAreCurrent, PendingHasClaims, ProcessedHasItsJob,
                GivenUpOnlyWhenExhausted, OneExecutionPerRequest, SameRequest
  <2> QED BY <2>1, <2>2
<1>18. ASSUME NEW p \in Processes, Crash(p)
      PROVE  IInv'
  <2>1. ClaimsAreOfEvents'
    BY <1>18 DEF Crash, ClaimsAreOfEvents
  <2>2. HandledHasJob'
    BY <1>18 DEF Crash, HandledHasJob
  <2>3. JobsAreOfEvents'
    BY <1>18 DEF Crash, JobsAreOfEvents
  <2>4. ClaimsAreCurrent'
    BY <1>18 DEF Crash, ClaimsAreCurrent
  <2>5. EventsAreCommitted' /\ PendingHasClaims'
          /\ ProcessedHasItsJob' /\ GivenUpOnlyWhenExhausted'
          /\ OneExecutionPerRequest'
    BY <1>18 DEF Crash, EventsAreCommitted, PendingHasClaims, ProcessedHasItsJob,
                GivenUpOnlyWhenExhausted, OneExecutionPerRequest, SameRequest
  <2> QED BY <2>1, <2>2, <2>3, <2>4, <2>5
<1>19. CASE UNCHANGED vars
  BY <1>19 DEF vars, EventsAreCommitted, ClaimsAreOfEvents, HandledHasJob,
               JobsAreOfEvents, ClaimsAreCurrent, PendingHasClaims, ProcessedHasItsJob,
               GivenUpOnlyWhenExhausted, OneExecutionPerRequest, SameRequest
<1> QED
  BY <1>1, <1>2, <1>3, <1>4, <1>5, <1>6, <1>7, <1>8, <1>9, <1>10, <1>11, <1>12,
     <1>13, <1>14, <1>15, <1>16, <1>17, <1>18, <1>19
     DEF Next, CommandNext, EventNext, JobNext, ProcessNext, DrainStep

-----------------------------------------------------------------------------
(* The theorems *)

\* The invariant holds in every reachable state.
THEOREM Invariance == Spec => []IInv
<1>1. Init => IInv
  BY DEF Init, IInv, TypeOK, EventStatus, JobStatus, LoopsHaveClaims, EventsAreCommitted,
         ClaimsAreOfEvents, HandledHasJob, JobsAreOfEvents, ClaimsAreCurrent,
         PendingHasClaims, ProcessedHasItsJob, GivenUpOnlyWhenExhausted,
         OneExecutionPerRequest
<1> QED BY <1>1, InvStep, PTL DEF Spec

\* The variables keep their types; in particular no event and no job is claimed
\* more often than its limit.
THEOREM TypeCorrect == Spec => []TypeOK
<1>1. IInv => TypeOK
  BY DEF IInv
<1> QED BY <1>1, Invariance, PTL

\* Requests with one idempotency key and command name execute once, whatever
\* executions run at the same time.
THEOREM RequestsExecuteOnce == Spec => []OneExecutionPerRequest
<1>1. IInv => OneExecutionPerRequest
  BY DEF IInv
<1> QED BY <1>1, Invariance, PTL

\* The record of a processed event names a job that exists.
THEOREM ProcessedNamesJob == Spec => []ProcessedHasItsJob
<1>1. IInv => ProcessedHasItsJob
  BY DEF IInv
<1> QED BY <1>1, Invariance, PTL

\* While no handler was overtaken, an event has one handler at a time and,
\* while it waits, a claim left.
THEOREM LockExcludes == Spec => []OneHandlerWhileLocked
<1>1. IInv => OneHandlerWhileLocked
  BY DEF IInv, ClaimsAreCurrent, PendingHasClaims, OneHandlerWhileLocked
<1> QED BY <1>1, Invariance, PTL

\* An event is given up after MaxAttempts claims and not before.
THEOREM GivenUpLate == Spec => []GivenUpOnlyWhenExhausted
<1>1. IInv => GivenUpOnlyWhenExhausted
  BY DEF IInv
<1> QED BY <1>1, Invariance, PTL

\* While no handler was overtaken, no late markFailed or markProcessed changes
\* an event that was settled.
THEOREM SettledStays == Spec => SettledIsFinal
<1> DEFINE Final == \A c \in Commands :
        lapses = 0 /\ status[c] \in {"processed", "failed"} => status'[c] = status[c]
<1>1. IInv /\ [Next]_vars => Final
  <2> SUFFICES ASSUME IInv, [Next]_vars, NEW c \in Commands,
                      lapses = 0, status[c] \in {"processed", "failed"}
               PROVE  status'[c] = status[c]
    OBVIOUS
  <2>0. Types
    BY DEF IInv, Types
  <2> USE <2>0 DEF Types, TypeOK, LoopsHaveClaims, IInv, Jobs, outbox, jobs, faults
  <2>1. ASSUME NEW d \in Commands, CommandNext(d)
        PROVE  status'[c] = status[c]
    <3>1. CASE Commit(d)
      <4>1. pc[c] # "open"
        BY DEF EventsAreCommitted
      <4> QED BY <3>1, <4>1 DEF Commit
    <3>2. CASE Begin(d) \/ Conflict(d) \/ Fail(d)
      BY <3>2 DEF Begin, Conflict, Fail, CommandStep
    <3> QED BY <2>1, <3>1, <3>2 DEF CommandNext
  <2>2. ASSUME NEW d \in Commands, NEW p \in Processes, ClaimEvent(p, d)
        PROVE  status'[c] = status[c]
    BY <2>2 DEF ClaimEvent, Claimable
  <2>3. ASSUME NEW j \in Jobs, JobNext(j)
        PROVE  status'[c] = status[c]
    BY <2>3 DEF JobNext, RetryJob, ClaimJob
  <2>4. ASSUME NEW p \in Processes, ProcessNext(p)
        PROVE  status'[c] = status[c]
    <3>1. CASE MarkProcessed(p) \/ MarkFailed(p)
      <4>1. claim[p] # NoClaim
        BY <3>1 DEF MarkProcessed, MarkFailed
      <4>2. claim[p][1] # c
        BY <4>1 DEF ClaimsAreCurrent
      <4> QED BY <3>1, <4>1, <4>2 DEF MarkProcessed, MarkFailed
    <3>2. CASE Handle(p) \/ HandlingFails(p) \/ DrainThrows(p) \/ Crash(p)
      BY <3>2 DEF Handle, HandlingFails, DrainThrows, Crash
    <3>3. CASE EndpointReceives(p) \/ SendFails(p) \/ CompleteJob(p) \/ FailJob(p)
                 \/ SendThrows(p)
      BY <3>3 DEF EndpointReceives, SendFails, CompleteJob, FailJob, SendThrows, EndSend
    <3> QED BY <2>4, <3>1, <3>2, <3>3 DEF ProcessNext, DrainStep
  <2>5. CASE UNCHANGED vars
    BY <2>5 DEF vars
  <2> QED BY <2>1, <2>2, <2>3, <2>4, <2>5 DEF Next, EventNext, JobNext
<1>2. Final => [Final]_vars
  OBVIOUS
<1> QED BY <1>1, <1>2, Invariance, PTL DEF Spec, SettledIsFinal

-----------------------------------------------------------------------------
(* The refinement *)

Published    == {c \in Commands : pc[c] = "executed"}
Delivered    == {j[1] : j \in received}
Completed    == {j \in Jobs : jobStatus[j] = "completed"}
Acknowledged == {j[1] : j \in Completed}

\* Every step of the outbox is one of EventRelay, or none.
LEMMA StepIsRelayed ==
    ASSUME IInv, [Next]_vars
    PROVE  [Relay!Next]_<<Published, Delivered, Acknowledged>>
<1>0. Types
  BY DEF IInv, Types
<1> USE <1>0 DEF Types, TypeOK, LoopsHaveClaims, outbox, jobs, faults,
                 Published, Delivered, Completed, Acknowledged
<1> DEFINE Same == UNCHANGED <<Published, Delivered, Acknowledged>>
<1>1. ASSUME UNCHANGED <<pc, received, jobStatus>>
      PROVE  Same
  BY <1>1
<1>2. ASSUME NEW c \in Commands, CommandNext(c)
      PROVE  Same \/ Relay!Publish(c)
  <2>1. CASE Commit(c)
    <3>1. Published' = Published \cup {c}
      BY <2>1 DEF Commit
    <3>2. UNCHANGED <<received, jobStatus>>
      BY <2>1 DEF Commit
    <3> QED BY <3>1, <3>2 DEF Relay!Publish
  <2>2. CASE Begin(c) \/ Conflict(c) \/ Fail(c)
    <3>1. PICK to \in {"idle", "doomed", "open", "replayed", "failed"} : CommandStep(c, to)
      BY <2>2 DEF Begin, Conflict, Fail
    <3>2. pc[c] # "executed"
      BY <2>2 DEF Begin, Conflict, Fail
    <3>3. UNCHANGED <<Published, received, jobStatus>>
      BY <3>1, <3>2 DEF CommandStep
    <3> QED BY <3>3
  <2> QED BY <1>2, <2>1, <2>2 DEF CommandNext
<1>3. ASSUME NEW c \in Commands, NEW p \in Processes, ClaimEvent(p, c)
      PROVE  Same
  BY <1>3, <1>1 DEF ClaimEvent
<1>4. ASSUME NEW j \in Jobs, UNCHANGED <<pc, received>>,
             jobStatus' = [jobStatus EXCEPT ![j] = "pending"]
                \/ jobStatus' = [jobStatus EXCEPT ![j] = "processing"]
                \/ jobStatus' = [jobStatus EXCEPT ![j] = "failed"]
      PROVE  Same \/ Relay!Reopen(j[1])
  <2>1. UNCHANGED <<Published, Delivered>>
    BY <1>4
  <2>2. Completed' = Completed \ {j}
    BY <1>4
  <2>3. Acknowledged' = Acknowledged \/ Acknowledged' = Acknowledged \ {j[1]}
    BY <2>2
  <2> QED BY <2>1, <2>3 DEF Relay!Reopen
<1>5. ASSUME NEW p \in Processes, EndpointReceives(p), NEW j \in Jobs, j = sending[p]
      PROVE  Relay!Deliver(j[1])
  <2>1. j[1] \in Published
    BY <1>5 DEF EndpointReceives, IInv, JobsAreOfEvents, EventsAreCommitted, Jobs
  <2>2. Delivered' = Delivered \cup {j[1]}
    BY <1>5 DEF EndpointReceives
  <2>3. UNCHANGED <<Published, Acknowledged>>
    BY <1>5 DEF EndpointReceives
  <2> QED BY <2>1, <2>2, <2>3 DEF Relay!Deliver
<1>6. ASSUME NEW p \in Processes, CompleteJob(p), NEW j \in Jobs, j = sending[p]
      PROVE  Relay!Acknowledge(j[1])
  <2>1. j[1] \in Delivered
    BY <1>6 DEF CompleteJob, IInv, JobsAreOfEvents
  <2>2. Completed' = Completed \cup {j}
    BY <1>6 DEF CompleteJob
  <2>3. Acknowledged' = Acknowledged \cup {j[1]}
    BY <2>2
  <2>4. UNCHANGED <<Published, Delivered>>
    BY <1>6 DEF CompleteJob, EndSend
  <2> QED BY <2>1, <2>3, <2>4 DEF Relay!Acknowledge
<1>7. ASSUME NEW j \in Jobs, JobNext(j)
      PROVE  Same \/ Relay!Reopen(j[1])
  BY <1>7, <1>4 DEF JobNext, RetryJob, ClaimJob
<1>8. ASSUME NEW p \in Processes, ProcessNext(p)
      PROVE  Same \/ \E e \in Commands : Relay!Deliver(e) \/ Relay!Acknowledge(e) \/ Relay!Reopen(e)
  <2>1. CASE Handle(p)
    <3>1. claim[p] \in Jobs
      BY <2>1 DEF Handle
    <3>2. claim[p][1] \in Commands
      BY <3>1 DEF Jobs
    <3>3. UNCHANGED <<pc, received>>
      BY <2>1 DEF Handle
    <3>4. jobStatus' = jobStatus \/ jobStatus' = [jobStatus EXCEPT ![claim[p]] = "pending"]
      BY <2>1 DEF Handle
    <3> QED BY <1>1, <1>4, <3>1, <3>2, <3>3, <3>4
  <2>2. CASE FailJob(p)
    <3>1. sending[p] \in Jobs
      BY <2>2 DEF FailJob
    <3>2. sending[p][1] \in Commands
      BY <3>1 DEF Jobs
    <3>3. UNCHANGED <<pc, received>>
      BY <2>2 DEF FailJob, EndSend
    <3>4. \/ jobStatus' = [jobStatus EXCEPT ![sending[p]] = "failed"]
          \/ jobStatus' = [jobStatus EXCEPT ![sending[p]] = "pending"]
      BY <2>2 DEF FailJob
    <3> QED BY <1>4, <3>1, <3>2, <3>3, <3>4
  <2>3. CASE EndpointReceives(p) \/ CompleteJob(p)
    <3>1. PICK j \in Jobs : j = sending[p]
      BY <2>3 DEF EndpointReceives, CompleteJob
    <3>2. Relay!Deliver(j[1]) \/ Relay!Acknowledge(j[1])
      BY <2>3, <3>1, <1>5, <1>6
    <3> QED BY <3>2 DEF Jobs
  <2>4. CASE HandlingFails(p) \/ MarkProcessed(p) \/ MarkFailed(p) \/ DrainThrows(p)
               \/ SendFails(p) \/ SendThrows(p) \/ Crash(p)
    BY <2>4, <1>1 DEF HandlingFails, MarkProcessed, MarkFailed, DrainThrows, EndDrain,
                      SendFails, SendThrows, EndSend, Crash
  <2> QED BY <1>8, <2>1, <2>2, <2>3, <2>4 DEF ProcessNext, DrainStep
<1>9. ASSUME UNCHANGED vars
      PROVE  Same
  BY <1>9, <1>1 DEF vars
<1>10. \A j \in Jobs : j[1] \in Commands
  BY DEF Jobs
<1> QED
  BY <1>2, <1>3, <1>7, <1>8, <1>9, <1>10 DEF Next, EventNext, JobNext, Relay!Next

\* The outbox, the integration queue and the processes that drain them implement
\* the relay: only committed events reach the endpoint, and none is taken for
\* delivered that did not.
THEOREM RelayIsImplemented == Spec => ImplementsRelay
<1>1. Init => Relay!Init
  BY DEF Init, Relay!Init, Jobs
<1>2. IInv /\ [Next]_vars => [Relay!Next]_(Relay!relay)
  BY StepIsRelayed DEF Relay!relay, Published, Delivered, Completed, Acknowledged
<1> QED
  BY <1>1, <1>2, Invariance, PTL DEF Spec, ImplementsRelay, Relay!Spec
=============================================================================

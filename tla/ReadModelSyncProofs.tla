------------------------ MODULE ReadModelSyncProofs ------------------------
(***************************************************************************)
(* Safety of the debt read model for every set of customers, sources, jobs *)
(* and processes, every limit and every number of faults.                  *)
(***************************************************************************)
EXTENDS ReadModelSync, TLAPS

-----------------------------------------------------------------------------
(* The inductive invariant *)

\* A job is never queued for more than the ledger holds.
AskedBefore ==
    \A j \in Jobs : \A s \in j.sources : asked[j][s] <= ledger[s]

\* Two runs of one customer at the same time have disturbed both their jobs.
Alone ==
    \A p, q \in Processes :
        /\ p # q
        /\ drain[p].job # None /\ drain[q].job # None
        /\ drain[p].job.customer = drain[q].job.customer
        => drain[p].job \in disturbed

\* What a run has still to do, by its stage.
Shape(r) ==
    /\ r.job # None => r.todo \subseteq r.job.sources
    /\ r.stage = "order" => r.source \in r.todo
    /\ r.stage \in {"orders", "summary", "done"} => r.todo = {}

\* How far a run has come whose job was queued at versions `ask`.
Ahead(r, ask) ==
    /\ r.stage # "failed" => \A s \in r.job.sources \ r.todo : order[s] >= ask[s]
    /\ r.stage = "order" => r.seen[r.source] >= ask[r.source]
    /\ r.stage = "summary" => \A s \in r.job.sources : r.seen[s] >= ask[s]
    /\ r.stage = "done" => \A s \in r.job.sources : summary[s] >= ask[s]

\* A run that will not set job j back.
Spares(r, j) ==
    /\ r.stage = "order" /\ r.source \in j.sources =>
          r.seen[r.source] >= asked[j][r.source]
    /\ r.stage = "summary" => \A s \in j.sources : r.seen[s] >= asked[j][s]

RunsFit ==
    \A p \in Processes :
        /\ Shape(drain[p])
        /\ drain[p].job # None /\ drain[p].job \notin disturbed =>
              Ahead(drain[p], asked[drain[p].job])

DoneIsSpared ==
    \A j \in Jobs :
        job[j].status = "done" /\ j \notin disturbed =>
            /\ Shows(j)
            /\ \A p \in RunsOf(j.customer) : Spares(drain[p], j)

Fits == AskedBefore /\ Alone /\ RunsFit /\ DoneIsSpared

IInv == TypeOK /\ Fits

-----------------------------------------------------------------------------
(* Types *)

LEMMA States ==
    /\ Unread \in Versions
    /\ \A stage \in STAGES, left \in Nat : Between(stage, left) \in DrainState
    /\ \A r \in DrainState, stage \in STAGES, todo \in SUBSET Sources,
          source \in Sources \cup {None}, seen \in Versions :
             Run(r, stage, todo, source, seen) \in DrainState
BY DEF Unread, Versions, Between, Run, DrainState

LEMMA JobsTyped ==
    ASSUME NEW j \in Jobs
    PROVE  /\ j.customer \in Customers /\ j.sources \subseteq Sources /\ j # None
           /\ \A s \in j.sources : CustomerOf[s] = j.customer
BY ReadModelSyncAssumption

LEMMA InitTyped == Init => TypeOK
BY States DEF Init, TypeOK, Absent, Idle, Between, InRun, STATUSES, STAGES

LEMMA CloseoutTyped ==
    ASSUME TypeOK,
           \/ \E w \in Webs, groups \in SUBSET Jobs : Commit(w, groups)
           \/ \E s \in Sources : PostElsewhere(s)
           \/ \E w \in Webs, j \in Jobs : Enqueue(w, j) \/ EnqueueFails(w, j)
    PROVE  TypeOK'
<1>1. ASSUME NEW w \in Webs, NEW groups \in SUBSET Jobs, Commit(w, groups)
      PROVE  TypeOK'
  <2>1. ledger' \in Versions /\ closing' \in [Webs -> SUBSET Jobs] /\ queued' \in [Webs -> BOOLEAN]
    BY <1>1 DEF Commit, TypeOK, Versions
  <2>2. QED
    BY <1>1, <2>1 DEF Commit, TypeOK, rows, InRun
<1>2. ASSUME NEW s \in Sources, PostElsewhere(s)
      PROVE  TypeOK'
  <2>1. ledger' \in Versions /\ order' \in Versions
    BY <1>2 DEF PostElsewhere, TypeOK, Versions
  <2>2. QED
    BY <1>2, <2>1 DEF PostElsewhere, TypeOK, closeout, InRun
<1>3. ASSUME NEW w \in Webs, NEW j \in Jobs, Enqueue(w, j)
      PROVE  TypeOK'
  <2>1. /\ closing' \in [Webs -> SUBSET Jobs] /\ queued' \in [Webs -> BOOLEAN]
        /\ scheduled' \in [Webs -> BOOLEAN]
    BY <1>3 DEF Enqueue, TypeOK
  <2>2. asked' \in [Jobs -> Versions] /\ disturbed' \subseteq Jobs
    BY <1>3 DEF Enqueue, TypeOK, Versions
  <2>3. Upserted(job[j]) \in [status : STATUSES, attempts : Nat, due : BOOLEAN]
    BY DEF Upserted, TypeOK, STATUSES
  <2>4. /\ job' \in [Jobs -> [status : STATUSES, attempts : Nat, due : BOOLEAN]]
        /\ \A i \in Jobs : job'[i].status = "none" => i # j /\ job'[i] = job[i]
    BY <1>3, <2>3 DEF Enqueue, TypeOK, Upserted
  <2>5. \A i \in Jobs : job[i].status # "none" => job'[i].status # "none"
    BY <1>3, <2>4 DEF Enqueue, TypeOK
  <2>6. QED
    BY <1>3, <2>1, <2>2, <2>4, <2>5 DEF Enqueue, TypeOK, rows, InRun, DrainState
<1>4. ASSUME NEW w \in Webs, NEW j \in Jobs, EnqueueFails(w, j)
      PROVE  TypeOK'
  BY <1>4 DEF EnqueueFails, Fault, TypeOK, rows, InRun
<1>5. QED
  BY <1>1, <1>2, <1>3, <1>4

\* The states a drain may be in, as far as they can be told from the state.
Sound(r) ==
    /\ r \in DrainState
    /\ r.job # None <=> r.stage \in {"ledger", "order", "orders", "summary", "done", "failed"}
    /\ r.stage = "order" => r.source # None

LEMMA DrainTyped ==
    ASSUME TypeOK, NEW p \in Processes, NEW r, Sound(r), To(p, r),
           job' \in [Jobs -> [status : STATUSES, attempts : Nat, due : BOOLEAN]],
           \A j \in Jobs : job'[j].status = "none" => job'[j] = job[j] /\ r.job # j
    PROVE  /\ drain' \in [Processes -> DrainState]
           /\ \A q \in Processes : Sound(drain'[q])
           /\ \A q \in Processes : drain'[q].job # None => job'[drain'[q].job].status # "none"
           /\ \A j \in Jobs : job'[j].status = "none" => job'[j] = Absent
           /\ \A q \in Processes : drain'[q] = IF q = p THEN r ELSE drain[q]
<1>1. \A q \in Processes : drain'[q] = IF q = p THEN r ELSE drain[q]
  BY DEF To, TypeOK
<1>2. drain' \in [Processes -> DrainState]
  BY DEF To, TypeOK, Sound
<1>3. \A q \in Processes : Sound(drain[q])
  BY DEF TypeOK, Sound, InRun
<1>4. ASSUME NEW q \in Processes, drain'[q].job # None
      PROVE  job'[drain'[q].job].status # "none"
  <2>1. drain'[q].job \in Jobs
    BY <1>2, <1>4 DEF DrainState
  <2>2. CASE q = p
    BY <1>1, <2>1, <2>2
  <2>3. CASE q # p
    <3>1. drain'[q] = drain[q]
      BY <1>1, <2>3
    <3>2. job[drain[q].job].status # "none"
      BY <1>4, <3>1 DEF TypeOK
    <3>3. QED
      BY <2>1, <3>1, <3>2
  <2>4. QED
    BY <2>2, <2>3
<1>5. \A j \in Jobs : job'[j].status = "none" => job'[j] = Absent
  BY DEF TypeOK
<1>6. QED
  BY <1>1, <1>2, <1>3, <1>4, <1>5

\* The job keeps what it is in a step that leaves the jobs alone.
LEMMA JobsKept ==
    ASSUME TypeOK, UNCHANGED job, NEW p \in Processes, NEW r,
           r.job \in {None, drain[p].job}
    PROVE  /\ job' \in [Jobs -> [status : STATUSES, attempts : Nat, due : BOOLEAN]]
           /\ \A j \in Jobs : job'[j].status = "none" => job'[j] = job[j] /\ r.job # j
<1>1. \A j \in Jobs : r.job = j => job[j].status # "none"
  BY JobsTyped DEF TypeOK
<1>2. QED
  BY <1>1 DEF TypeOK

\* The next state of the drain for each of its steps.
After(p) ==
    IF drain[p].stage = "ending" THEN Idle
    ELSE IF drain[p].stage = "order" THEN
            Run(drain[p], NextStage(drain[p].todo \ {drain[p].source}),
                drain[p].todo \ {drain[p].source}, None, Unread)
    ELSE IF drain[p].stage = "orders" THEN Run(drain[p], "summary", {}, None, order)
    ELSE IF drain[p].stage = "summary" THEN Run(drain[p], "done", {}, None, Unread)
    ELSE Between("claim", drain[p].left)

LEMMA AfterSound ==
    ASSUME TypeOK, NEW p \in Processes,
           drain[p].stage \in {"ending", "order", "orders", "summary", "done", "failed"}
    PROVE  Sound(After(p)) /\ After(p).job \in {None, drain[p].job}
<1>1. drain[p] \in DrainState /\ drain[p].left \in Nat /\ order \in Versions
  BY DEF TypeOK, DrainState
<1>2. drain[p].stage \in {"order", "orders", "summary"} => drain[p].job # None
  BY DEF TypeOK, InRun
<1>3. CASE drain[p].stage = "ending"
  BY <1>3, States DEF After, Sound, Idle, Between, STAGES
<1>4. CASE drain[p].stage = "order"
  <2> DEFINE todo == drain[p].todo \ {drain[p].source}
  <2>1. todo \in SUBSET Sources
    BY <1>1 DEF DrainState
  <2>2. NextStage(todo) \in {"orders", "ledger"}
    BY DEF NextStage
  <2>3. Run(drain[p], NextStage(todo), todo, None, Unread) \in DrainState
    BY <1>1, <2>1, <2>2, States DEF STAGES
  <2>4. After(p) = Run(drain[p], NextStage(todo), todo, None, Unread)
    BY <1>4 DEF After
  <2>5. QED
    BY <1>2, <1>4, <2>2, <2>3, <2>4 DEF Sound, Run
<1>5. CASE drain[p].stage = "orders"
  BY <1>1, <1>2, <1>5, States DEF After, Sound, Run, STAGES
<1>6. CASE drain[p].stage = "summary"
  BY <1>1, <1>2, <1>6, States DEF After, Sound, Run, STAGES
<1>7. CASE drain[p].stage \in {"done", "failed"}
  BY <1>1, <1>7, States DEF After, Sound, Between, STAGES
<1>8. QED
  BY <1>3, <1>4, <1>5, <1>6, <1>7

LEMMA DrainStepTyped ==
    ASSUME TypeOK, NEW p \in Processes, DrainStep(p)
    PROVE  TypeOK'
<1>1. ASSUME NEW j \in Jobs, Claim(p, j)
      PROVE  TypeOK'
  <2> DEFINE r == [stage |-> NextStage(j.sources), left |-> drain[p].left - 1,
                   job |-> j, attempts |-> job[j].attempts, todo |-> j.sources,
                   source |-> None, seen |-> Unread]
  <2>1. Sound(r)
    <3>1. drain[p].left - 1 \in Nat /\ job[j].attempts \in Nat
      BY <1>1 DEF Claim, TypeOK, DrainState
    <3>2. QED
      BY <3>1, JobsTyped, States DEF Sound, DrainState, NextStage, STAGES
  <2>2. To(p, r)
    BY <1>1 DEF Claim
  <2>3. /\ job' \in [Jobs -> [status : STATUSES, attempts : Nat, due : BOOLEAN]]
        /\ \A i \in Jobs : job'[i].status = "none" => job'[i] = job[i] /\ r.job # i
    BY <1>1 DEF Claim, TypeOK, STATUSES
  <2>4. disturbed' \subseteq Jobs
    <3>1. {drain[q].job : q \in RunsOf(j.customer)} \subseteq Jobs
      BY DEF RunsOf, TypeOK, DrainState
    <3>2. QED
      BY <1>1, <3>1 DEF Claim, TypeOK
  <2> HIDE DEF r
  <2>5. QED
    <3>1. /\ drain' \in [Processes -> DrainState]
          /\ \A q \in Processes : Sound(drain'[q])
          /\ \A q \in Processes : drain'[q].job # None => job'[drain'[q].job].status # "none"
          /\ \A i \in Jobs : job'[i].status = "none" => job'[i] = Absent
      BY <2>1, <2>2, <2>3, DrainTyped
    <3>2. UNCHANGED <<ledger, order, summary, closing, queued, scheduled, faults, asked>>
      BY <1>1 DEF Claim, rows, closeout
    <3>3. QED
      BY <2>3, <2>4, <3>1, <3>2 DEF TypeOK, Sound, InRun
<1>2. ASSUME FindNone(p)
      PROVE  TypeOK'
  <2> DEFINE r == Between("ending", 0)
  <2>1. Sound(r) /\ r.job = None
    BY States DEF Sound, STAGES, Between
  <2>2. To(p, r) /\ UNCHANGED job
    BY <1>2 DEF FindNone
  <2> HIDE DEF r
  <2>3. QED
    BY <1>2, <2>1, <2>2, JobsKept, DrainTyped DEF FindNone, TypeOK, Sound, InRun, rows, closeout
<1>3. ASSUME NEW s \in Sources, ReadLedger(p, s)
      PROVE  TypeOK'
  <2> DEFINE r == Run(drain[p], "order", drain[p].todo, s, [Unread EXCEPT ![s] = ledger[s]])
  <2>1. [Unread EXCEPT ![s] = ledger[s]] \in Versions
    BY DEF Unread, Versions, TypeOK
  <2>2. drain[p].todo \in SUBSET Sources /\ drain[p] \in DrainState /\ drain[p].job # None
    BY <1>3 DEF ReadLedger, TypeOK, DrainState, InRun
  <2>3. Sound(r) /\ r.job = drain[p].job
    <3>1. r \in DrainState
      BY <2>1, <2>2, States DEF STAGES
    <3>2. QED
      BY <2>2, <3>1, ReadModelSyncAssumption DEF Sound, Run
  <2>4. To(p, r) /\ UNCHANGED job
    BY <1>3 DEF ReadLedger
  <2> HIDE DEF r
  <2>5. QED
    BY <1>3, <2>3, <2>4, JobsKept, DrainTyped DEF ReadLedger, TypeOK, Sound, InRun, rows, closeout
<1>4. ASSUME EndDrain(p) \/ WriteOrder(p) \/ ReadOrders(p) \/ WriteSummary(p)
      PROVE  TypeOK'
  <2>1. Sound(After(p)) /\ After(p).job \in {None, drain[p].job}
    BY <1>4, AfterSound DEF EndDrain, WriteOrder, ReadOrders, WriteSummary
  <2>2. To(p, After(p)) /\ UNCHANGED job
    BY <1>4 DEF EndDrain, WriteOrder, ReadOrders, WriteSummary, After, closeout
  <2>3. order' \in Versions /\ summary' \in Versions
    <3>1. CASE EndDrain(p) \/ ReadOrders(p)
      BY <3>1 DEF EndDrain, ReadOrders, TypeOK, rows
    <3>2. CASE WriteOrder(p)
      BY <3>2 DEF WriteOrder, TypeOK, DrainState, Versions
    <3>3. CASE WriteSummary(p)
      BY <3>3 DEF WriteSummary, Added, TypeOK, DrainState, Versions
    <3>4. QED
      BY <1>4, <3>1, <3>2, <3>3
  <2>4. UNCHANGED <<ledger, closeout, faults, asked, disturbed>>
    BY <1>4 DEF EndDrain, WriteOrder, ReadOrders, WriteSummary
  <2>5. QED
    BY <2>1, <2>2, <2>3, <2>4, JobsKept, DrainTyped DEF TypeOK, Sound, InRun, closeout
<1>5. ASSUME MarkDone(p) \/ MarkFailed(p)
      PROVE  TypeOK'
  <2>1. drain[p].stage \in {"done", "failed"} /\ drain[p].job \in Jobs
    BY <1>5 DEF MarkDone, MarkFailed, TypeOK, DrainState, InRun
  <2>2. Sound(After(p)) /\ After(p).job = None /\ To(p, After(p))
    BY <1>5, <2>1, AfterSound DEF MarkDone, MarkFailed, After, Between
  <2>3. drain[p].attempts + 1 \in Nat
    BY DEF TypeOK, DrainState
  <2>4. /\ job' \in [Jobs -> [status : STATUSES, attempts : Nat, due : BOOLEAN]]
        /\ \A j \in Jobs : job'[j].status = "none" => job'[j] = job[j]
    <3>1. \E row \in [status : STATUSES \ {"none"}, attempts : Nat, due : BOOLEAN] :
             job' = [job EXCEPT ![drain[p].job] = row]
      <4>1. CASE MarkDone(p)
        <5>1. job[drain[p].job].attempts \in Nat
          BY <2>1 DEF TypeOK
        <5>2. [status |-> "done", attempts |-> job[drain[p].job].attempts, due |-> FALSE]
                \in [status : STATUSES \ {"none"}, attempts : Nat, due : BOOLEAN]
          BY <5>1 DEF STATUSES
        <5>3. QED
          BY <4>1, <5>2 DEF MarkDone
      <4>2. CASE MarkFailed(p)
        <5> DEFINE row == [status |-> IF drain[p].attempts + 1 >= MAX_ATTEMPTS THEN "failed" ELSE "pending",
                           attempts |-> drain[p].attempts + 1, due |-> FALSE]
        <5>1. row \in [status : STATUSES \ {"none"}, attempts : Nat, due : BOOLEAN]
          BY <2>3 DEF STATUSES
        <5>2. job' = [job EXCEPT ![drain[p].job] = row]
          BY <4>2 DEF MarkFailed
        <5> HIDE DEF row
        <5>3. QED
          BY <5>1, <5>2
      <4>3. QED
        BY <1>5, <4>1, <4>2
    <3>2. QED
      BY <2>1, <3>1 DEF TypeOK
  <2>5. QED
    BY <1>5, <2>2, <2>4, JobsTyped, DrainTyped
    DEF MarkDone, MarkFailed, TypeOK, Sound, InRun, rows, closeout
<1>6. QED
  BY <1>1, <1>2, <1>3, <1>4, <1>5 DEF DrainStep

LEMMA OtherTyped ==
    ASSUME TypeOK,
           \/ \E w \in Webs : RunScheduled(w)
           \/ \E x \in Scripts : RunScript(x)
           \/ \E p \in Processes : ClaimFails(p) \/ RunFails(p) \/ AbortDrain(p) \/ Crash(p)
           \/ \E j \in Jobs : BecomeDue(j)
    PROVE  TypeOK'
<1>1. ASSUME NEW stage \in {"idle", "claim", "ending"}, NEW left \in Nat
      PROVE  Sound(Between(stage, left)) /\ Between(stage, left).job = None
  BY States DEF Sound, Between, STAGES
<1>2. LIMIT \in Nat
  BY ReadModelSyncAssumption
<1>3. ASSUME NEW w \in Webs, RunScheduled(w)
      PROVE  TypeOK'
  <2>1. scheduled' \in [Webs -> BOOLEAN]
    BY <1>3 DEF RunScheduled, TypeOK
  <2>2. CASE drain[w].stage = "idle"
    <3> DEFINE r == Between("claim", LIMIT)
    <3>1. To(w, r) /\ UNCHANGED job /\ w \in Processes
      BY <1>3, <2>2 DEF RunScheduled, Processes
    <3>2. Sound(r) /\ r.job = None
      BY <1>1, <1>2
    <3> HIDE DEF r
    <3>3. QED
      BY <1>3, <2>1, <3>1, <3>2, JobsKept, DrainTyped DEF RunScheduled, TypeOK, Sound, InRun, rows
  <2>3. CASE drain[w].stage # "idle"
    BY <1>3, <2>1, <2>3 DEF RunScheduled, TypeOK, InRun, rows
  <2>4. QED
    BY <2>2, <2>3
<1>4. ASSUME NEW x \in Scripts, RunScript(x)
      PROVE  TypeOK'
  <2> DEFINE r == Between("claim", LIMIT)
  <2>1. To(x, r) /\ UNCHANGED job /\ x \in Processes
    BY <1>4 DEF RunScript, Processes
  <2>2. Sound(r) /\ r.job = None
    BY <1>1, <1>2
  <2> HIDE DEF r
  <2>3. QED
    BY <1>4, <2>1, <2>2, JobsKept, DrainTyped DEF RunScript, TypeOK, Sound, InRun, rows, closeout
<1>5. ASSUME NEW p \in Processes, ClaimFails(p) \/ AbortDrain(p)
      PROVE  TypeOK'
  <2> DEFINE r == Between("ending", 0)
  <2>1. To(p, r) /\ UNCHANGED job
    BY <1>5 DEF ClaimFails, AbortDrain
  <2>2. Sound(r) /\ r.job = None
    BY <1>1
  <2> HIDE DEF r
  <2>3. QED
    BY <1>5, <2>1, <2>2, JobsKept, DrainTyped
    DEF ClaimFails, AbortDrain, Fault, TypeOK, Sound, InRun, rows, closeout
<1>6. ASSUME NEW p \in Processes, RunFails(p)
      PROVE  TypeOK'
  <2> DEFINE r == Run(drain[p], "failed", {}, None, Unread)
  <2>1. To(p, r) /\ UNCHANGED job
    BY <1>6 DEF RunFails
  <2>2. Sound(r) /\ r.job = drain[p].job
    <3>1. drain[p] \in DrainState /\ drain[p].job # None
      BY <1>6 DEF RunFails, TypeOK
    <3>2. r \in DrainState
      BY <3>1, States DEF STAGES
    <3>3. QED
      BY <3>1, <3>2 DEF Sound, Run
  <2> HIDE DEF r
  <2>3. QED
    BY <1>6, <2>1, <2>2, JobsKept, DrainTyped DEF RunFails, Fault, TypeOK, Sound, InRun, rows, closeout
<1>7. ASSUME NEW p \in Processes, Crash(p)
      PROVE  TypeOK'
  <2> DEFINE r == Idle
  <2>1. To(p, r) /\ UNCHANGED job
    BY <1>7 DEF Crash
  <2>2. Sound(r) /\ r.job = None
    BY <1>1 DEF Idle
  <2>3. /\ closing' \in [Webs -> SUBSET Jobs] /\ queued' \in [Webs -> BOOLEAN]
        /\ scheduled' \in [Webs -> BOOLEAN]
    BY <1>7 DEF Crash, TypeOK
  <2> HIDE DEF r
  <2>4. QED
    BY <1>7, <2>1, <2>2, <2>3, JobsKept, DrainTyped DEF Crash, Fault, TypeOK, Sound, InRun, rows
<1>8. ASSUME NEW j \in Jobs, BecomeDue(j)
      PROVE  TypeOK'
  <2>1. [status |-> "pending", attempts |-> job[j].attempts, due |-> TRUE]
            \in [status : STATUSES \ {"none"}, attempts : Nat, due : BOOLEAN]
    BY DEF TypeOK, STATUSES
  <2>2. /\ job' \in [Jobs -> [status : STATUSES, attempts : Nat, due : BOOLEAN]]
        /\ \A i \in Jobs : job'[i].status = "none" => job'[i] = job[i] /\ job[i].status = "none"
    BY <1>8, <2>1 DEF BecomeDue, TypeOK
  <2>3. \A q \in Processes : drain[q].job # None => drain[q].job \in Jobs
    BY DEF TypeOK, DrainState
  <2>4. QED
    BY <1>8, <2>2, <2>3 DEF BecomeDue, TypeOK, InRun, rows, closeout
<1>9. QED
  BY <1>3, <1>4, <1>5, <1>6, <1>7, <1>8

LEMMA NextTyped == TypeOK /\ [Next]_vars => TypeOK'
<1> SUFFICES ASSUME TypeOK, [Next]_vars
             PROVE  TypeOK'
  OBVIOUS
<1>1. CASE UNCHANGED vars
  BY <1>1 DEF TypeOK, vars, rows, closeout, InRun
<1>2. CASE \E p \in Processes : DrainStep(p)
  BY <1>2, DrainStepTyped
<1>3. QED
  BY <1>1, <1>2, CloseoutTyped, OtherTyped DEF Next


-----------------------------------------------------------------------------
(* The rows a job was queued for *)

LEMMA InitFits == Init => Fits
<1> SUFFICES ASSUME Init
             PROVE  Fits
  OBVIOUS
<1>1. AskedBefore
  BY JobsTyped DEF Init, AskedBefore, Unread
<1>2. Alone /\ RunsFit
  BY DEF Init, Alone, RunsFit, Shape, Idle, Between
<1>3. DoneIsSpared
  BY DEF Init, DoneIsSpared, Absent
<1>4. QED
  BY <1>1, <1>2, <1>3 DEF Fits

LEMMA RunTyped ==
    ASSUME TypeOK, NEW p \in Processes
    PROVE  /\ drain[p] \in DrainState
           /\ drain[p].stage \in {"ledger", "order", "orders", "summary", "done", "failed"}
                <=> drain[p].job # None
           /\ drain[p].job # None => drain[p].job \in Jobs
           /\ drain[p].todo \subseteq Sources
           /\ drain[p].seen \in Versions
BY DEF TypeOK, DrainState, InRun

\* The ledger grows; a row stays or takes all of it into account.
LEMMA GrowthFits ==
    ASSUME TypeOK, Fits, ledger' \in Versions, order' \in Versions,
           \A s \in Sources : /\ ledger'[s] >= ledger[s]
                              /\ order'[s] = order[s] \/ order'[s] >= ledger[s],
           UNCHANGED <<summary, job, drain, asked, disturbed>>
    PROVE  Fits'
<1>1. \A s \in Sources : /\ ledger[s] \in Nat /\ ledger'[s] \in Nat
                         /\ order[s] \in Nat /\ order'[s] \in Nat
  BY DEF TypeOK, Versions
<1>2. \A j \in Jobs, s \in Sources : asked[j][s] \in Nat
  BY DEF TypeOK, Versions
<1>3. AskedBefore'
  BY <1>1, <1>2, JobsTyped DEF Fits, AskedBefore
<1>4. Alone'
  BY DEF Fits, Alone
<1>5. RunsFit'
  <2> SUFFICES ASSUME NEW p \in Processes
               PROVE  /\ Shape(drain[p])
                      /\ drain[p].job # None /\ drain[p].job \notin disturbed =>
                            Ahead(drain[p], asked[drain[p].job])'
    BY DEF RunsFit
  <2>1. Shape(drain[p])
    BY DEF Fits, RunsFit
  <2>2. ASSUME drain[p].job # None, drain[p].job \notin disturbed
        PROVE  Ahead(drain[p], asked[drain[p].job])'
    <3>1. drain[p].job \in Jobs /\ drain[p].job.sources \subseteq Sources
      BY <2>2, RunTyped, JobsTyped
    <3>2. Ahead(drain[p], asked[drain[p].job])
      BY <2>2 DEF Fits, RunsFit
    <3>3. \A s \in drain[p].job.sources : ledger[s] >= asked[drain[p].job][s]
      BY <1>1, <1>2, <3>1 DEF Fits, AskedBefore
    <3>4. QED
      BY <1>1, <1>2, <3>1, <3>2, <3>3 DEF Ahead
  <2>3. QED
    BY <2>1, <2>2
<1>6. DoneIsSpared'
  <2> SUFFICES ASSUME NEW j \in Jobs, job[j].status = "done", j \notin disturbed
               PROVE  Shows(j)' /\ \A p \in RunsOf(j.customer) : Spares(drain[p], j)
    BY DEF DoneIsSpared, RunsOf, Spares
  <2>1. Shows(j) /\ \A p \in RunsOf(j.customer) : Spares(drain[p], j)
    BY DEF Fits, DoneIsSpared
  <2>2. \A s \in j.sources : ledger[s] >= asked[j][s]
    BY <1>1, <1>2, JobsTyped DEF Fits, AskedBefore
  <2>3. Shows(j)'
    BY <1>1, <1>2, <2>1, <2>2, JobsTyped DEF Shows
  <2>4. QED
    BY <2>1, <2>3
<1>7. QED
  BY <1>3, <1>4, <1>5, <1>6 DEF Fits

LEMMA PostFits ==
    ASSUME TypeOK, Fits,
           \/ \E w \in Webs, groups \in SUBSET Jobs : Commit(w, groups)
           \/ \E s \in Sources : PostElsewhere(s)
    PROVE  Fits'
<1>1. ASSUME NEW w \in Webs, NEW groups \in SUBSET Jobs, Commit(w, groups)
      PROVE  Fits'
  <2>1. ledger' \in Versions /\ \A s \in Sources : ledger'[s] >= ledger[s]
    BY <1>1 DEF Commit, TypeOK, Versions
  <2>2. UNCHANGED <<order, summary, job, drain, asked, disturbed>> /\ order' \in Versions
    BY <1>1 DEF Commit, TypeOK, rows
  <2>3. QED
    BY <2>1, <2>2, GrowthFits
<1>2. ASSUME NEW t \in Sources, PostElsewhere(t)
      PROVE  Fits'
  <2>1. /\ ledger' \in Versions /\ order' \in Versions
        /\ \A s \in Sources : ledger'[s] >= ledger[s]
    BY <1>2 DEF PostElsewhere, TypeOK, Versions
  <2>2. \A s \in Sources : order'[s] = order[s] \/ order'[s] >= ledger[s]
    BY <1>2 DEF PostElsewhere, TypeOK, Versions
  <2>3. QED
    BY <1>2, <2>1, <2>2, GrowthFits DEF PostElsewhere
<1>3. QED
  BY <1>1, <1>2

\* Nothing but the jobs changes, and none becomes done.
LEMMA JobsFit ==
    ASSUME Fits, UNCHANGED <<ledger, order, summary, drain, asked, disturbed>>,
           \A j \in Jobs : job'[j].status = "done" => job[j].status = "done"
    PROVE  Fits'
<1>1. AskedBefore' /\ Alone'
  BY DEF Fits, AskedBefore, Alone
<1>2. RunsFit'
  BY DEF Fits, RunsFit, Ahead
<1>3. DoneIsSpared'
  BY DEF Fits, DoneIsSpared, Shows, RunsOf, Spares
<1>4. QED
  BY <1>1, <1>2, <1>3 DEF Fits

LEMMA EnqueueFits ==
    ASSUME TypeOK, Fits, NEW w \in Webs, NEW j \in Jobs, Enqueue(w, j)
    PROVE  Fits'
<1>1. /\ UNCHANGED <<ledger, order, summary, drain>>
      /\ disturbed \subseteq disturbed' /\ disturbed' \subseteq disturbed \cup {j}
      /\ Runs(j) # {} => j \in disturbed'
      /\ \A i \in Jobs : i # j => job'[i] = job[i] /\ asked'[i] = asked[i]
      /\ job'[j].status = "pending"
  BY DEF Enqueue, rows, TypeOK, Upserted
<1>2. \A s \in j.sources : asked'[j][s] = ledger[s] /\ ledger[s] \in Nat
  BY JobsTyped DEF Enqueue, TypeOK, Versions
<1>3. AskedBefore'
  BY <1>1, <1>2 DEF Fits, AskedBefore
<1>4. Alone'
  BY <1>1 DEF Fits, Alone
<1>5. RunsFit'
  <2> SUFFICES ASSUME NEW p \in Processes
               PROVE  /\ Shape(drain[p])
                      /\ drain[p].job # None /\ drain[p].job \notin disturbed' =>
                            Ahead(drain[p], asked[drain[p].job])'
    BY <1>1 DEF RunsFit
  <2>1. Shape(drain[p])
    BY DEF Fits, RunsFit
  <2>2. ASSUME drain[p].job # None, drain[p].job \notin disturbed'
        PROVE  Ahead(drain[p], asked[drain[p].job])'
    <3>1. drain[p].job # j /\ drain[p].job \in Jobs
      BY <1>1, <2>2, RunTyped DEF Runs
    <3>2. Ahead(drain[p], asked[drain[p].job])
      BY <1>1, <2>2 DEF Fits, RunsFit
    <3>3. asked'[drain[p].job] = asked[drain[p].job]
      BY <1>1, <3>1
    <3>4. QED
      BY <1>1, <3>2, <3>3 DEF Ahead
  <2>3. QED
    BY <2>1, <2>2
<1>6. DoneIsSpared'
  <2> SUFFICES ASSUME NEW i \in Jobs, job'[i].status = "done", i \notin disturbed'
               PROVE  Shows(i)' /\ \A p \in RunsOf(i.customer)' : Spares(drain[p], i)'
    BY <1>1 DEF DoneIsSpared
  <2>1. i # j /\ asked'[i] = asked[i]
    BY <1>1
  <2>2. Shows(i) /\ \A p \in RunsOf(i.customer) : Spares(drain[p], i)
    BY <1>1, <2>1 DEF Fits, DoneIsSpared
  <2>3. QED
    BY <1>1, <2>1, <2>2 DEF Shows, Spares, RunsOf
<1>7. QED
  BY <1>3, <1>4, <1>5, <1>6 DEF Fits

\* A drain that is between its jobs after the step, or whose run has failed.
LEMMA LeaveFits ==
    ASSUME TypeOK, Fits, NEW p \in Processes, NEW r, To(p, r),
           \/ r.job = None /\ r.stage \in {"idle", "claim", "ending"}
           \/ r.job = drain[p].job /\ r.stage = "failed" /\ r.todo = {},
           UNCHANGED <<ledger, order, summary, asked, disturbed>>,
           \A j \in Jobs : job'[j].status = "done" => job[j].status = "done"
    PROVE  Fits'
<1>1. \A q \in Processes : drain'[q] = IF q = p THEN r ELSE drain[q]
  BY DEF To, TypeOK
<1>2. AskedBefore'
  BY DEF Fits, AskedBefore
<1>3. Alone'
  <2> SUFFICES ASSUME NEW a \in Processes, NEW b \in Processes, a # b,
                      drain'[a].job # None, drain'[b].job # None,
                      drain'[a].job.customer = drain'[b].job.customer
               PROVE  drain'[a].job \in disturbed
    BY DEF Alone
  <2>1. drain'[a].job = drain[a].job /\ drain'[b].job = drain[b].job
    BY <1>1
  <2>2. QED
    BY <2>1 DEF Fits, Alone
<1>4. RunsFit'
  <2> SUFFICES ASSUME NEW q \in Processes
               PROVE  /\ Shape(drain'[q])
                      /\ drain'[q].job # None /\ drain'[q].job \notin disturbed =>
                            Ahead(drain[q], asked[drain[q].job])'
    BY DEF RunsFit
  <2>1. CASE q = p
    BY <1>1, <2>1 DEF Shape, Ahead
  <2>2. CASE q # p
    BY <1>1, <2>2 DEF Fits, RunsFit, Ahead
  <2>3. QED
    BY <2>1, <2>2
<1>5. DoneIsSpared'
  <2> SUFFICES ASSUME NEW i \in Jobs, job'[i].status = "done", i \notin disturbed
               PROVE  Shows(i)' /\ \A q \in RunsOf(i.customer)' : Spares(drain[q], i)'
    BY DEF DoneIsSpared
  <2>1. Shows(i) /\ \A q \in RunsOf(i.customer) : Spares(drain[q], i)
    BY DEF Fits, DoneIsSpared
  <2>2. ASSUME NEW q \in RunsOf(i.customer)'
        PROVE  Spares(drain[q], i)'
    <3>1. CASE q = p
      BY <1>1, <2>2, <3>1 DEF Spares, RunsOf
    <3>2. CASE q # p
      <4>1. drain'[q] = drain[q] /\ q \in RunsOf(i.customer)
        BY <1>1, <2>2, <3>2 DEF RunsOf
      <4>2. Spares(drain[q], i)
        BY <2>1, <4>1
      <4>3. QED
        BY <4>1, <4>2 DEF Spares
    <3>3. QED
      BY <3>1, <3>2
  <2>3. QED
    BY <2>1, <2>2 DEF Shows
<1>6. QED
  BY <1>2, <1>3, <1>4, <1>5 DEF Fits

LEMMA ClaimFits ==
    ASSUME TypeOK, Fits, NEW p \in Processes, NEW j \in Jobs, Claim(p, j)
    PROVE  Fits'
<1> DEFINE r == [stage |-> NextStage(j.sources), left |-> drain[p].left - 1,
                 job |-> j, attempts |-> job[j].attempts, todo |-> j.sources,
                 source |-> None, seen |-> Unread]
           others == {drain[q].job : q \in RunsOf(j.customer)}
<1>1. \A q \in Processes : drain'[q] = IF q = p THEN r ELSE drain[q]
  BY DEF Claim, To, TypeOK
<1>2. /\ UNCHANGED <<ledger, order, summary, asked>>
      /\ \A i \in Jobs : job'[i].status = "done" => i # j /\ job[i].status = "done"
      /\ disturbed' = IF others = {} THEN disturbed \ {j} ELSE disturbed \cup others \cup {j}
      /\ drain[p].job = None
  BY DEF Claim, rows, TypeOK, InRun
<1>3. /\ r.job = j /\ r.todo = j.sources /\ r.stage \in {"ledger", "orders"}
      /\ r.stage = "orders" => j.sources = {}
  BY DEF NextStage
<1> HIDE DEF r
<1>4. AskedBefore'
  BY <1>2 DEF Fits, AskedBefore
<1>5. ASSUME NEW q \in Processes, q # p, drain[q].job # None, drain[q].job \notin disturbed'
      PROVE  drain[q].job \notin disturbed /\ drain[q].job.customer # j.customer
  <2>1. CASE drain[q].job.customer = j.customer
    <3>1. drain[q].job \in others
      BY <1>5, <2>1 DEF RunsOf
    <3>2. QED
      BY <1>2, <1>5, <3>1
  <2>2. CASE drain[q].job.customer # j.customer
    BY <1>2, <1>5, <2>2
  <2>3. QED
    BY <2>1, <2>2
<1>6. Alone'
  <2> SUFFICES ASSUME NEW a \in Processes, NEW b \in Processes, a # b,
                      drain'[a].job # None, drain'[b].job # None,
                      drain'[a].job.customer = drain'[b].job.customer,
                      drain'[a].job \notin disturbed'
               PROVE  FALSE
    BY DEF Alone
  <2>1. CASE a = p
    <3>1. drain[b].job \in others
      BY <1>1, <1>3, <2>1 DEF RunsOf
    <3>2. QED
      BY <1>1, <1>2, <1>3, <2>1, <3>1
  <2>2. CASE b = p
    BY <1>1, <1>3, <1>5, <2>2
  <2>3. CASE a # p /\ b # p
    BY <1>1, <1>5, <2>3 DEF Fits, Alone
  <2>4. QED
    BY <2>1, <2>2, <2>3
<1>7. RunsFit'
  <2> SUFFICES ASSUME NEW q \in Processes
               PROVE  /\ Shape(drain'[q])
                      /\ drain'[q].job # None /\ drain'[q].job \notin disturbed' =>
                            Ahead(drain[q], asked[drain[q].job])'
    BY DEF RunsFit
  <2>1. CASE q = p
    BY <1>1, <1>3, <2>1 DEF Shape, Ahead
  <2>2. CASE q # p
    <3>1. drain'[q] = drain[q] /\ Shape(drain[q])
      BY <1>1, <2>2 DEF Fits, RunsFit
    <3>2. ASSUME drain[q].job # None, drain[q].job \notin disturbed'
          PROVE  Ahead(drain[q], asked[drain[q].job])
      BY <1>5, <2>2, <3>2 DEF Fits, RunsFit
    <3>3. QED
      BY <1>2, <3>1, <3>2 DEF Ahead
  <2>3. QED
    BY <2>1, <2>2
<1>8. DoneIsSpared'
  <2> SUFFICES ASSUME NEW i \in Jobs, job'[i].status = "done", i \notin disturbed'
               PROVE  Shows(i)' /\ \A q \in RunsOf(i.customer)' : Spares(drain[q], i)'
    BY DEF DoneIsSpared
  <2>1. Shows(i) /\ \A q \in RunsOf(i.customer) : Spares(drain[q], i)
    BY <1>2 DEF Fits, DoneIsSpared
  <2>2. ASSUME NEW q \in RunsOf(i.customer)'
        PROVE  Spares(drain[q], i)'
    <3>1. CASE q = p
      BY <1>1, <1>3, <2>2, <3>1 DEF Spares, RunsOf
    <3>2. CASE q # p
      <4>1. drain'[q] = drain[q] /\ q \in RunsOf(i.customer)
        BY <1>1, <2>2, <3>2 DEF RunsOf
      <4>2. Spares(drain[q], i)
        BY <2>1, <4>1
      <4>3. QED
        BY <1>2, <4>1, <4>2 DEF Spares
    <3>3. QED
      BY <3>1, <3>2
  <2>3. QED
    BY <1>2, <2>1, <2>2 DEF Shows
<1>9. QED
  BY <1>4, <1>6, <1>7, <1>8 DEF Fits

LEMMA MarkDoneFits ==
    ASSUME TypeOK, Fits, NEW p \in Processes, MarkDone(p)
    PROVE  Fits'
<1> DEFINE r == Between("claim", drain[p].left)
           j == drain[p].job
<1>1. \A q \in Processes : drain'[q] = IF q = p THEN r ELSE drain[q]
  BY DEF MarkDone, To, TypeOK
<1>2. /\ UNCHANGED <<ledger, order, summary, asked, disturbed>>
      /\ \A i \in Jobs : i # j => job'[i] = job[i]
      /\ drain[p].stage = "done" /\ j \in Jobs
  BY RunTyped DEF MarkDone, rows, TypeOK
<1>3. r.job = None /\ r.stage = "claim" /\ r.todo = {}
  BY DEF Between
<1> HIDE DEF r
<1>4. AskedBefore'
  BY <1>2 DEF Fits, AskedBefore
<1>5. Alone'
  BY <1>1, <1>2, <1>3 DEF Fits, Alone
<1>6. RunsFit'
  <2> SUFFICES ASSUME NEW q \in Processes
               PROVE  /\ Shape(drain'[q])
                      /\ drain'[q].job # None /\ drain'[q].job \notin disturbed =>
                            Ahead(drain[q], asked[drain[q].job])'
    BY <1>2 DEF RunsFit
  <2>1. CASE q = p
    BY <1>1, <1>3, <2>1 DEF Shape
  <2>2. CASE q # p
    BY <1>1, <1>2, <2>2 DEF Fits, RunsFit, Ahead
  <2>3. QED
    BY <2>1, <2>2
<1>7. DoneIsSpared'
  <2> SUFFICES ASSUME NEW i \in Jobs, job'[i].status = "done", i \notin disturbed
               PROVE  Shows(i)' /\ \A q \in RunsOf(i.customer)' : Spares(drain[q], i)'
    BY <1>2 DEF DoneIsSpared
  <2>1. ASSUME NEW q \in RunsOf(i.customer)'
        PROVE  q \in RunsOf(i.customer) /\ drain'[q] = drain[q] /\ q # p
    BY <1>1, <1>3, <2>1 DEF RunsOf
  <2>2. CASE i = j
    <3>1. Shows(i)
      <4>1. Ahead(drain[p], asked[j]) /\ Shape(drain[p]) /\ j # None
        BY <1>2, <2>2, JobsTyped DEF Fits, RunsFit
      <4>2. QED
        BY <1>2, <2>2, <4>1 DEF Ahead, Shape, Shows
    <3>2. RunsOf(i.customer)' = {}
      BY <1>1, <1>2, <2>1, <2>2, JobsTyped DEF RunsOf, Fits, Alone
    <3>3. QED
      BY <1>2, <3>1, <3>2 DEF Shows
  <2>3. CASE i # j
    <3>1. Shows(i) /\ \A q \in RunsOf(i.customer) : Spares(drain[q], i)
      BY <1>2, <2>3 DEF Fits, DoneIsSpared
    <3>2. QED
      BY <1>2, <2>1, <3>1 DEF Shows, Spares
  <2>4. QED
    BY <2>2, <2>3
<1>8. QED
  BY <1>4, <1>5, <1>6, <1>7 DEF Fits

\* A step of a run: every other run of its customer has disturbed it, and it
\* changes no row of another customer.
LEMMA RunStepFits ==
    ASSUME TypeOK, Fits, NEW p \in Processes, NEW r, NEW j \in Jobs, To(p, r),
           order' \in Versions, summary' \in Versions, drain[p].job = j, r.job = j,
           UNCHANGED <<ledger, job, asked, disturbed>>,
           Shape(r),
           j \notin disturbed => Ahead(r, asked[j])',
           \A s \in Sources : CustomerOf[s] # j.customer =>
               order'[s] = order[s] /\ summary'[s] = summary[s],
           \A i \in Jobs :
              /\ job[i].status = "done" /\ i \notin disturbed
              /\ i.customer = j.customer
              => Shows(i)' /\ Spares(r, i)
    PROVE  Fits'
<1>1. \A q \in Processes : drain'[q] = IF q = p THEN r ELSE drain[q]
  BY DEF To, TypeOK
<1>2. AskedBefore'
  BY DEF Fits, AskedBefore
<1>3. Alone'
  <2> SUFFICES ASSUME NEW a \in Processes, NEW b \in Processes, a # b,
                      drain'[a].job # None, drain'[b].job # None,
                      drain'[a].job.customer = drain'[b].job.customer
               PROVE  drain'[a].job \in disturbed
    BY DEF Alone
  <2>1. drain'[a].job = drain[a].job /\ drain'[b].job = drain[b].job
    BY <1>1
  <2>2. QED
    BY <2>1 DEF Fits, Alone
<1>4. RunsFit'
  <2> SUFFICES ASSUME NEW q \in Processes
               PROVE  /\ Shape(drain'[q])
                      /\ drain'[q].job # None /\ drain'[q].job \notin disturbed =>
                            Ahead(drain[q], asked[drain[q].job])'
    BY DEF RunsFit
  <2>1. CASE q = p
    BY <1>1, <2>1 DEF Ahead
  <2>2. CASE q # p
    <3>1. drain'[q] = drain[q] /\ Shape(drain[q])
      BY <1>1, <2>2 DEF Fits, RunsFit
    <3>2. ASSUME drain[q].job # None, drain[q].job \notin disturbed
          PROVE  Ahead(drain[q], asked[drain[q].job])'
      <4>1. drain[q].job.customer # j.customer
        BY <2>2, <3>2, JobsTyped DEF Fits, Alone
      <4>2. /\ \A s \in drain[q].job.sources : order'[s] = order[s] /\ summary'[s] = summary[s]
            /\ drain[q].job \in Jobs
        BY <3>2, <4>1, RunTyped, JobsTyped
      <4>3. Ahead(drain[q], asked[drain[q].job])
        BY <3>2 DEF Fits, RunsFit
      <4>4. QED
        BY <3>1, <4>2, <4>3 DEF Ahead
    <3>3. QED
      BY <3>1, <3>2
  <2>3. QED
    BY <2>1, <2>2
<1>5. DoneIsSpared'
  <2> SUFFICES ASSUME NEW i \in Jobs, job[i].status = "done", i \notin disturbed
               PROVE  Shows(i)' /\ \A q \in RunsOf(i.customer)' : Spares(drain[q], i)'
    BY DEF DoneIsSpared
  <2>1. Shows(i) /\ \A q \in RunsOf(i.customer) : Spares(drain[q], i)
    BY DEF Fits, DoneIsSpared
  <2>2. Shows(i)'
    <3>1. CASE i.customer = j.customer
      BY <3>1
    <3>2. CASE i.customer # j.customer
      BY <2>1, <3>2, JobsTyped DEF Shows
    <3>3. QED
      BY <3>1, <3>2
  <2>3. ASSUME NEW q \in RunsOf(i.customer)'
        PROVE  Spares(drain[q], i)'
    <3>1. CASE q = p
      <4>1. Spares(r, i)
        BY <1>1, <2>3, <3>1 DEF RunsOf
      <4>2. QED
        BY <1>1, <2>3, <3>1, <4>1 DEF Spares, RunsOf
    <3>2. CASE q # p
      <4>1. drain'[q] = drain[q] /\ q \in RunsOf(i.customer)
        BY <1>1, <2>3, <3>2 DEF RunsOf
      <4>2. Spares(drain[q], i)
        BY <2>1, <4>1
      <4>3. QED
        BY <4>1, <4>2 DEF Spares
    <3>3. QED
      BY <3>1, <3>2
  <2>4. QED
    BY <2>2, <2>3
<1>6. QED
  BY <1>2, <1>3, <1>4, <1>5 DEF Fits

LEMMA ReadFits ==
    ASSUME TypeOK, Fits, NEW p \in Processes,
           (\E s \in Sources : ReadLedger(p, s)) \/ ReadOrders(p)
    PROVE  Fits'
<1>0. PICK j : j = drain[p].job
  OBVIOUS
<1>1. /\ j # None /\ j \in Jobs /\ Shape(drain[p])
      /\ j \notin disturbed => Ahead(drain[p], asked[j])
      /\ order \in Versions /\ summary \in Versions
  BY <1>0, RunTyped DEF ReadLedger, ReadOrders, Fits, RunsFit, TypeOK
<1>2. ASSUME NEW i \in Jobs, job[i].status = "done", i \notin disturbed
      PROVE  Shows(i)
  BY <1>2 DEF Fits, DoneIsSpared
<1>3. ASSUME NEW s \in Sources, ReadLedger(p, s)
      PROVE  Fits'
  <2>0. PICK r : r = Run(drain[p], "order", drain[p].todo, s, [Unread EXCEPT ![s] = ledger[s]])
    OBVIOUS
  <2>1. /\ To(p, r) /\ UNCHANGED <<ledger, order, summary, job, asked, disturbed>>
        /\ drain[p].stage = "ledger" /\ s \in drain[p].todo
    BY <1>0, <2>0, <1>3 DEF ReadLedger, rows
  <2>2. /\ r.job = j /\ r.stage = "order" /\ r.todo = drain[p].todo /\ r.source = s
        /\ r.seen[s] = ledger[s]
    BY <1>0, <2>0 DEF Run, Unread
  <2>3. Shape(r)
    BY <1>0, <1>1, <2>1, <2>2 DEF Shape
  <2>4. s \in j.sources
    BY <1>0, <1>1, <2>1 DEF Shape
  <2>5. \A i \in Jobs : s \in i.sources => ledger[s] >= asked[i][s]
    BY JobsTyped DEF Fits, AskedBefore, TypeOK, Versions
  <2>6. j \notin disturbed => Ahead(r, asked[j])'
    BY <1>0, <1>1, <2>1, <2>2, <2>4, <2>5 DEF Ahead
  <2>7. ASSUME NEW i \in Jobs, job[i].status = "done", i \notin disturbed
        PROVE  Shows(i)' /\ Spares(r, i)
    BY <1>2, <2>1, <2>2, <2>5, <2>7 DEF Shows, Spares
  <2>8. QED
    BY <1>0, <1>1, <2>1, <2>2, <2>3, <2>6, <2>7, RunStepFits
<1>4. ASSUME ReadOrders(p)
      PROVE  Fits'
  <2>0. PICK r : r = Run(drain[p], "summary", {}, None, order)
    OBVIOUS
  <2>1. /\ To(p, r) /\ UNCHANGED <<ledger, order, summary, job, asked, disturbed>>
        /\ drain[p].stage = "orders"
    BY <1>0, <2>0, <1>4 DEF ReadOrders, rows
  <2>2. r.job = j /\ r.stage = "summary" /\ r.todo = {} /\ r.seen = order
    BY <1>0, <2>0 DEF Run
  <2>3. Shape(r)
    BY <2>2 DEF Shape
  <2>4. j \notin disturbed => Ahead(r, asked[j])'
    BY <1>0, <1>1, <2>1, <2>2 DEF Ahead, Shape
  <2>5. ASSUME NEW i \in Jobs, job[i].status = "done", i \notin disturbed
        PROVE  Shows(i)' /\ Spares(r, i)
    BY <1>2, <2>1, <2>2, <2>5 DEF Shows, Spares
  <2>6. QED
    BY <1>0, <1>1, <2>1, <2>2, <2>3, <2>4, <2>5, RunStepFits
<1>5. QED
  BY <1>3, <1>4

LEMMA WriteFits ==
    ASSUME TypeOK, Fits, NEW p \in Processes, WriteOrder(p) \/ WriteSummary(p)
    PROVE  Fits'
<1>0. PICK j : j = drain[p].job
  OBVIOUS
<1>1. /\ j # None /\ j \in Jobs /\ Shape(drain[p]) /\ drain[p].seen \in Versions
      /\ j \notin disturbed => Ahead(drain[p], asked[j])
      /\ order \in Versions /\ summary \in Versions /\ p \in RunsOf(j.customer)
      /\ j.sources \subseteq Sources /\ \A s \in j.sources : CustomerOf[s] = j.customer
  BY <1>0, RunTyped, JobsTyped DEF WriteOrder, WriteSummary, Fits, RunsFit, TypeOK, RunsOf
<1>2. ASSUME NEW i \in Jobs, job[i].status = "done", i \notin disturbed,
             i.customer = j.customer
      PROVE  Shows(i) /\ Spares(drain[p], i) /\ i.sources \subseteq Sources
  BY <1>1, <1>2, JobsTyped DEF Fits, DoneIsSpared
<1>3. ASSUME WriteOrder(p)
      PROVE  Fits'
  <2>a. PICK s : s = drain[p].source
    OBVIOUS
  <2>b. PICK todo : todo = drain[p].todo \ {s}
    OBVIOUS
  <2>0. PICK r : r = Run(drain[p], NextStage(todo), todo, None, Unread)
    OBVIOUS
  <2>1. /\ To(p, r) /\ UNCHANGED <<ledger, summary, job, asked, disturbed>>
        /\ drain[p].stage = "order"
        /\ order' = [order EXCEPT ![s] = drain[p].seen[s]]
    BY <1>0, <2>0, <2>a, <2>b, <1>3 DEF WriteOrder
  <2>2. s \in drain[p].todo /\ s \in j.sources /\ s \in Sources
    BY <1>0, <2>a, <1>1, <2>1 DEF Shape
  <2>3. /\ r.job = j /\ r.todo = todo /\ r.stage \in {"ledger", "orders"}
        /\ r.stage = "orders" => todo = {}
    BY <1>0, <2>0, <2>b DEF Run, NextStage
  <2>4. /\ order' \in Versions
        /\ \A t \in Sources : order'[t] = IF t = s THEN drain[p].seen[s] ELSE order[t]
    BY <1>0, <2>a, <2>b, <1>1, <2>1, <2>2 DEF Versions
  <2>5. Shape(r)
    BY <1>0, <2>a, <2>b, <1>1, <2>3 DEF Shape
  <2>6. j \notin disturbed => Ahead(r, asked[j])'
    BY <1>0, <2>a, <2>b, <1>1, <2>1, <2>2, <2>3, <2>4 DEF Ahead
  <2>7. ASSUME NEW i \in Jobs, job[i].status = "done", i \notin disturbed,
               i.customer = j.customer
        PROVE  Shows(i)' /\ Spares(r, i)
    BY <2>a, <1>2, <2>1, <2>3, <2>4, <2>7 DEF Shows, Spares
  <2>8. \A t \in Sources : CustomerOf[t] # j.customer =>
            order'[t] = order[t] /\ summary'[t] = summary[t]
    BY <1>1, <2>1, <2>2, <2>4
  <2>9. drain[p].job = j /\ r.job = j /\ j \in Jobs /\ summary' \in Versions /\ To(p, r)
    BY <1>0, <2>0, <1>1, <2>1, <2>3
  <2>10. QED
    BY <2>1, <2>4, <2>5, <2>6, <2>7, <2>8, <2>9, RunStepFits
<1>4. ASSUME WriteSummary(p)
      PROVE  Fits'
  <2>0. PICK r : r = Run(drain[p], "done", {}, None, Unread)
    OBVIOUS
  <2>1. /\ To(p, r) /\ UNCHANGED <<ledger, order, job, asked, disturbed>>
        /\ drain[p].stage = "summary"
        /\ summary' = Added(j.customer, drain[p].seen)
    BY <1>0, <2>0, <1>4 DEF WriteSummary
  <2>2. r.job = j /\ r.todo = {} /\ r.stage = "done"
    BY <1>0, <2>0 DEF Run
  <2>3. /\ summary' \in Versions
        /\ \A t \in Sources :
              summary'[t] = IF CustomerOf[t] = j.customer THEN drain[p].seen[t] ELSE summary[t]
    BY <1>0, <1>1, <2>1 DEF Versions, Added
  <2>4. Shape(r)
    BY <2>2 DEF Shape
  <2>5. j \notin disturbed => Ahead(r, asked[j])'
    BY <1>0, <1>1, <2>1, <2>2, <2>3 DEF Ahead, Shape
  <2>6. ASSUME NEW i \in Jobs, job[i].status = "done", i \notin disturbed,
               i.customer = j.customer
        PROVE  Shows(i)' /\ Spares(r, i)
    BY <1>2, <2>1, <2>2, <2>3, <2>6, JobsTyped DEF Shows, Spares
  <2>7. QED
    BY <1>0, <1>1, <2>1, <2>2, <2>3, <2>4, <2>5, <2>6, RunStepFits
<1>5. QED
  BY <1>3, <1>4

LEMMA MarkFailedFits ==
    ASSUME TypeOK, Fits, NEW p \in Processes, MarkFailed(p)
    PROVE  Fits'
<1> DEFINE r == Between("claim", drain[p].left)
<1>1. To(p, r) /\ UNCHANGED <<ledger, order, summary, asked, disturbed>>
  BY DEF MarkFailed, rows
<1>2. \A j \in Jobs : job'[j].status = "done" => job[j].status = "done"
  BY DEF MarkFailed, TypeOK
<1>3. r.job = None /\ r.stage = "claim"
  BY DEF Between
<1> HIDE DEF r
<1>4. QED
  BY <1>1, <1>2, <1>3, LeaveFits

LEMMA DrainStepFits ==
    ASSUME TypeOK, Fits, NEW p \in Processes, DrainStep(p)
    PROVE  Fits'
<1>1. CASE FindNone(p) \/ EndDrain(p)
  <2>1. PICK stage \in {"ending", "idle"} :
           To(p, Between(stage, 0)) /\ UNCHANGED <<ledger, order, summary, job, asked, disturbed>>
    BY <1>1 DEF FindNone, EndDrain, Idle, rows
  <2>2. Between(stage, 0).job = None /\ Between(stage, 0).stage = stage
    BY DEF Between
  <2>3. QED
    BY <2>1, <2>2, LeaveFits
<1>2. QED
  BY <1>1, ClaimFits, ReadFits, WriteFits, MarkDoneFits, MarkFailedFits DEF DrainStep

LEMMA OtherFits ==
    ASSUME TypeOK, Fits,
           \/ \E w \in Webs : RunScheduled(w)
           \/ \E x \in Scripts : RunScript(x)
           \/ \E p \in Processes : ClaimFails(p) \/ RunFails(p) \/ AbortDrain(p) \/ Crash(p)
           \/ \E w \in Webs, j \in Jobs : EnqueueFails(w, j)
           \/ \E j \in Jobs : BecomeDue(j)
    PROVE  Fits'
<1> DEFINE Same == UNCHANGED <<ledger, order, summary, job, asked, disturbed>>
<1>1. ASSUME NEW p \in Processes, NEW stage \in {"idle", "claim", "ending"}, NEW left,
             To(p, Between(stage, left)), Same
      PROVE  Fits'
  <2>1. Between(stage, left).job = None /\ Between(stage, left).stage = stage
    BY DEF Between
  <2>2. QED
    BY <1>1, <2>1, LeaveFits
<1>2. ASSUME NEW w \in Webs, RunScheduled(w)
      PROVE  Fits'
  <2>1. Same /\ w \in Processes
    BY <1>2 DEF RunScheduled, rows, Processes
  <2>2. CASE drain[w].stage = "idle"
    BY <1>1, <1>2, <2>1, <2>2 DEF RunScheduled
  <2>3. CASE drain[w].stage # "idle"
    <3>1. UNCHANGED drain
      BY <1>2, <2>3 DEF RunScheduled
    <3>2. QED
      BY <2>1, <3>1, JobsFit
  <2>4. QED
    BY <2>2, <2>3
<1>3. ASSUME NEW x \in Scripts, RunScript(x)
      PROVE  Fits'
  BY <1>1, <1>3 DEF RunScript, rows, Processes
<1>4. ASSUME NEW p \in Processes, ClaimFails(p) \/ AbortDrain(p) \/ Crash(p)
      PROVE  Fits'
  BY <1>1, <1>4 DEF ClaimFails, AbortDrain, Crash, Idle, rows
<1>5. ASSUME NEW p \in Processes, RunFails(p)
      PROVE  Fits'
  <2> DEFINE r == Run(drain[p], "failed", {}, None, Unread)
  <2>1. To(p, r) /\ Same
    BY <1>5 DEF RunFails, rows
  <2>2. r.job = drain[p].job /\ r.stage = "failed" /\ r.todo = {}
    BY DEF Run
  <2> HIDE DEF r
  <2>3. QED
    BY <2>1, <2>2, LeaveFits
<1>6. ASSUME NEW w \in Webs, NEW j \in Jobs, EnqueueFails(w, j)
      PROVE  Fits'
  BY <1>6, JobsFit DEF EnqueueFails, rows
<1>7. ASSUME NEW j \in Jobs, BecomeDue(j)
      PROVE  Fits'
  <2>1. \A i \in Jobs : job'[i].status = "done" => job[i].status = "done"
    BY <1>7 DEF BecomeDue, TypeOK
  <2>2. QED
    BY <1>7, <2>1, JobsFit DEF BecomeDue, rows
<1>8. QED
  BY <1>2, <1>3, <1>4, <1>5, <1>6, <1>7

-----------------------------------------------------------------------------
(* The theorems *)

LEMMA NextKeeps == IInv /\ [Next]_vars => IInv'
<1> SUFFICES ASSUME TypeOK, Fits, [Next]_vars
             PROVE  TypeOK' /\ Fits'
  BY DEF IInv
<1>1. TypeOK'
  BY NextTyped
<1>2. CASE UNCHANGED vars
  BY <1>1, <1>2, JobsFit DEF vars, rows
<1>3. CASE \E p \in Processes : DrainStep(p)
  BY <1>1, <1>3, DrainStepFits
<1>4. CASE \E w \in Webs, j \in Jobs : Enqueue(w, j)
  BY <1>1, <1>4, EnqueueFits
<1>5. QED
  BY <1>1, <1>2, <1>3, <1>4, PostFits, OtherFits DEF Next

\* The rows are as far as the stage of every undisturbed run says, and no run
\* under way will set a finished job back.
THEOREM InvariantHolds == Spec => []IInv
<1>1. Init => IInv
  BY InitTyped, InitFits DEF IInv
<1>2. QED
  BY <1>1, NextKeeps, PTL DEF Spec

\* Type correctness of jobs, drains and rows; a job that is claimed exists.
THEOREM TypeCorrect == Spec => []TypeOK
<1>1. IInv => TypeOK
  BY DEF IInv
<1>2. QED
  BY <1>1, InvariantHolds, PTL

\* A job that is done, whose run nothing disturbed, shows what it was queued
\* for, whatever the other runs, processes and faults are.
THEOREM DoneShows == Spec => []DoneMeansShown
<1>1. IInv => DoneMeansShown
  BY DEF IInv, Fits, DoneIsSpared, DoneMeansShown
<1>2. QED
  BY <1>1, InvariantHolds, PTL
=============================================================================

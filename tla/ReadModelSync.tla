--------------------------- MODULE ReadModelSync ---------------------------
(***************************************************************************)
(* The debt read model after a closeout (readModelSyncJob.service.js,      *)
(* arDebtReadModelProjector.service.js).  When the closeout is committed,  *)
(* a job per customer is queued; a drain of the web process, or of         *)
(* process-readmodel-sync-jobs.js, claims jobs one after the other,        *)
(* rebuilds the arDebtOrders row of every source of the job from the       *)
(* ledger and then the arDebtCustomers row from all order rows of the      *)
(* customer.  Nothing of it is in a transaction: every read and every      *)
(* write of the database is a step of its own.                             *)
(*                                                                         *)
(* Amounts are abstracted to versions: the number of changes of a source's *)
(* ledger that a row takes into account.  A job's identity is the hash of  *)
(* its customer and sources, here the pair itself.                         *)
(***************************************************************************)
EXTENDS Naturals

CONSTANTS
    Customers,
    Sources,      \* sales orders with entries in the ledger
    CustomerOf,   \* the customer of each source
    Jobs,         \* the groups closeouts have queued: [customer, sources]
    Webs,         \* web processes: they close, queue and drain
    Scripts,      \* runs of process-readmodel-sync-jobs.js
    LIMIT,        \* jobs of one drain (READMODEL_SYNC_DRAIN_LIMIT)
    MAX_ATTEMPTS, \* READMODEL_SYNC_MAX_ATTEMPTS
    MaxPosts,     \* bound: changes of the ledger of each source
    MaxFaults,    \* bound: failed database calls and crashes
    None

ASSUME ReadModelSyncAssumption ==
    /\ CustomerOf \in [Sources -> Customers]
    /\ Jobs \subseteq [customer : Customers, sources : SUBSET Sources]
    /\ \A j \in Jobs : \A s \in j.sources : CustomerOf[s] = j.customer
    /\ LIMIT \in Nat \ {0} /\ MAX_ATTEMPTS \in Nat \ {0}
    /\ MaxPosts \in [Sources -> Nat] /\ MaxFaults \in Nat
    /\ None \notin Jobs /\ None \notin Sources

Processes == Webs \cup Scripts

VARIABLES
    ledger,     \* arLedgers: how often the entries of a source have changed
    order,      \* arDebtOrders: the version the row of a source shows
    summary,    \* arDebtCustomers: the version of a source the total includes
    job,        \* readModelSyncJobs
    closing,    \* jobs a committed closeout has still to queue
    queued,     \* the closeout has queued one
    scheduled,  \* drainScheduled
    drain,      \* drainPendingJobs of each process
    faults,
    \* history: the ledger when a job was last queued, and the jobs whose last
    \* run shared its time with another run of the customer, or was asked for
    \* again before it ended
    asked, disturbed

rows     == <<order, summary>>
closeout == <<closing, queued, scheduled>>
vars     == <<ledger, rows, job, closeout, drain, faults, asked, disturbed>>

STATUSES == {"none", "pending", "running", "done", "failed"}

\* Where a drain is: about to claim, between the calls of a run, or through.
STAGES == {"idle", "claim", "ledger", "order", "orders", "summary", "done",
           "failed", "ending"}

Versions == [Sources -> Nat]

Absent == [status |-> "none", attempts |-> 0, due |-> FALSE]
Unread == [s \in Sources |-> 0]

\* A drain between its jobs, and one that runs a job.
Between(stage, left) ==
    [stage |-> stage, left |-> left, job |-> None, attempts |-> 0,
     todo |-> {}, source |-> None, seen |-> Unread]

Run(r, stage, todo, source, seen) ==
    [stage |-> stage, left |-> r.left, job |-> r.job, attempts |-> r.attempts,
     todo |-> todo, source |-> source, seen |-> seen]

Idle == Between("idle", 0)

Runs(j)     == {p \in Processes : drain[p].job = j}
RunsOf(c)   == {p \in Processes : drain[p].job # None /\ drain[p].job.customer = c}
InRun(p)    == drain[p].stage \in {"ledger", "order", "orders", "summary", "done"}

DrainState ==
    [stage : STAGES, left : Nat, job : Jobs \cup {None}, attempts : Nat,
     todo : SUBSET Sources, source : Sources \cup {None}, seen : Versions]

TypeOK ==
    /\ ledger \in Versions /\ order \in Versions /\ summary \in Versions
    /\ job \in [Jobs -> [status : STATUSES, attempts : Nat, due : BOOLEAN]]
    /\ \A j \in Jobs : job[j].status = "none" => job[j] = Absent
    /\ closing \in [Webs -> SUBSET Jobs]
    /\ queued \in [Webs -> BOOLEAN]
    /\ scheduled \in [Webs -> BOOLEAN]
    /\ drain \in [Processes -> DrainState]
    /\ \A p \in Processes :
          /\ drain[p].job # None <=> (InRun(p) \/ drain[p].stage = "failed")
          /\ drain[p].stage = "order" => drain[p].source # None
          /\ drain[p].job # None => job[drain[p].job].status # "none"
    /\ faults \in Nat
    /\ asked \in [Jobs -> Versions]
    /\ disturbed \subseteq Jobs

Init ==
    /\ ledger = Unread /\ order = Unread /\ summary = Unread
    /\ job = [j \in Jobs |-> Absent]
    /\ closing = [w \in Webs |-> {}]
    /\ queued = [w \in Webs |-> FALSE]
    /\ scheduled = [w \in Webs |-> FALSE]
    /\ drain = [p \in Processes |-> Idle]
    /\ faults = 0
    /\ asked = [j \in Jobs |-> Unread]
    /\ disturbed = {}

Fault == faults < MaxFaults /\ faults' = faults + 1

-----------------------------------------------------------------------------
(* The ledger, and the closeout after its commit *)

\* The transaction of a closeout, with one group for each customer.
Commit(w, groups) ==
    /\ closing[w] = {} /\ groups # {}
    /\ \A g, h \in groups : g.customer = h.customer => g = h
    /\ LET touched == UNION {g.sources : g \in groups} IN
          /\ \A s \in touched : ledger[s] < MaxPosts[s]
          /\ ledger' = [s \in Sources |-> IF s \in touched THEN ledger[s] + 1 ELSE ledger[s]]
    /\ closing' = [closing EXCEPT ![w] = groups]
    /\ queued' = [queued EXCEPT ![w] = FALSE]
    /\ UNCHANGED <<rows, job, scheduled, drain, faults, asked, disturbed>>

\* Everything else that posts, a transaction each: a receipt of debt or a sale
\* that is confirmed leaves the read model as it is; the reversal of a sale,
\* in the transaction of cancelOrder or deleteOrder, rebuilds its row as well.
PostElsewhere(s) ==
    /\ ledger[s] < MaxPosts[s]
    /\ ledger' = [ledger EXCEPT ![s] = @ + 1]
    /\ order' \in {order, [order EXCEPT ![s] = ledger[s] + 1]}
    /\ UNCHANGED <<summary, job, closeout, drain, faults, asked, disturbed>>

Upserted_StatusKept(row) ==  \* mutant: the upsert sets no status
    [status |-> row.status, attempts |-> row.attempts, due |-> TRUE]

Upserted_DoneKept(row) ==  \* mutant: a job that is done is not opened again
    [status |-> IF row.status = "done" THEN "done" ELSE "pending",
     attempts |-> row.attempts, due |-> TRUE]

\* The upsert by idempotencyKey: pending and due at once, whatever it was.
Upserted(row) == [status |-> "pending", attempts |-> row.attempts, due |-> TRUE]

Enqueue(w, j) ==
    /\ j \in closing[w]
    /\ job' = [job EXCEPT ![j] = Upserted(job[j])]
    /\ closing' = [closing EXCEPT ![w] = @ \ {j}]
    /\ queued' = [queued EXCEPT ![w] = TRUE]
    /\ scheduled' = [scheduled EXCEPT ![w] = @ \/ closing[w] = {j}]
    /\ asked' = [asked EXCEPT ![j] = [s \in Sources |-> IF s \in j.sources THEN ledger[s] ELSE 0]]
    /\ disturbed' = IF Runs(j) = {} THEN disturbed ELSE disturbed \cup {j}
    /\ UNCHANGED <<ledger, rows, drain, faults>>

\* The user gets a warning; what has been queued is drained all the same.
EnqueueFails(w, j) ==
    /\ j \in closing[w]
    /\ Fault
    /\ closing' = [closing EXCEPT ![w] = @ \ {j}]
    /\ scheduled' = [scheduled EXCEPT ![w] = @ \/ (closing[w] = {j} /\ queued[w])]
    /\ UNCHANGED <<ledger, rows, job, queued, drain, asked, disturbed>>

-----------------------------------------------------------------------------
(* drainPendingJobs *)

To(p, state) == drain' = [drain EXCEPT ![p] = state]

\* setImmediate's callback: a drain that is under way is left to it.
RunScheduled(w) ==
    /\ scheduled[w]
    /\ scheduled' = [scheduled EXCEPT ![w] = FALSE]
    /\ IF drain[w].stage = "idle" THEN To(w, Between("claim", LIMIT)) ELSE UNCHANGED drain
    /\ UNCHANGED <<ledger, rows, job, closing, queued, faults, asked, disturbed>>

RunScript(x) ==
    /\ drain[x].stage = "idle"
    /\ To(x, Between("claim", LIMIT))
    /\ UNCHANGED <<ledger, rows, job, closeout, faults, asked, disturbed>>

Claimable_Locked(j) ==  \* mutant: a failed run does not release its lock
    job[j].status = "pending" /\ job[j].due /\ job[j].attempts = 0

Claimable(j) == job[j].status = "pending" /\ job[j].due

\* The first step of projectArDebtReadModel: the sources, or the customer.
NextStage(todo) == IF todo = {} THEN "orders" ELSE "ledger"

Claim(p, j) ==
    /\ drain[p].stage = "claim" /\ drain[p].left > 0
    /\ Claimable(j)
    /\ job' = [job EXCEPT ![j] = [status |-> "running", attempts |-> job[j].attempts,
                                  due |-> job[j].due]]
    /\ To(p, [stage |-> NextStage(j.sources), left |-> drain[p].left - 1,
              job |-> j, attempts |-> job[j].attempts, todo |-> j.sources,
              source |-> None, seen |-> Unread])
    /\ LET others == {drain[q].job : q \in RunsOf(j.customer)} IN
          disturbed' = IF others = {} THEN disturbed \ {j}
                                      ELSE disturbed \cup others \cup {j}
    /\ UNCHANGED <<ledger, rows, closeout, faults, asked>>

\* Nothing to claim, or the limit: drainRunning is reset when the answer is in.
FindNone(p) ==
    /\ drain[p].stage = "claim"
    /\ drain[p].left = 0 \/ \A j \in Jobs : ~Claimable(j)
    /\ To(p, Between("ending", 0))
    /\ UNCHANGED <<ledger, rows, job, closeout, faults, asked, disturbed>>

ClaimFails(p) ==
    /\ drain[p].stage = "claim"
    /\ Fault
    /\ To(p, Between("ending", 0))
    /\ UNCHANGED <<ledger, rows, job, closeout, asked, disturbed>>

EndDrain(p) ==
    /\ drain[p].stage = "ending"
    /\ To(p, Idle)
    /\ UNCHANGED <<ledger, rows, job, closeout, faults, asked, disturbed>>

-----------------------------------------------------------------------------
(* projectArDebtReadModel, and what becomes of the job *)

\* rebuildDebtForSource reads the ledger of a source and replaces its row.
ReadLedger(p, s) ==
    /\ drain[p].stage = "ledger" /\ s \in drain[p].todo
    /\ To(p, Run(drain[p], "order", drain[p].todo, s, [Unread EXCEPT ![s] = ledger[s]]))
    /\ UNCHANGED <<ledger, rows, job, closeout, faults, asked, disturbed>>

WriteOrder(p) ==
    /\ drain[p].stage = "order"
    /\ LET s == drain[p].source
           todo == drain[p].todo \ {s}
       IN  /\ order' = [order EXCEPT ![s] = drain[p].seen[s]]
           /\ To(p, Run(drain[p], NextStage(todo), todo, None, Unread))
    /\ UNCHANGED <<ledger, summary, job, closeout, faults, asked, disturbed>>

\* refreshDebtCustomerFromOrders reads the rows of the customer ...
ReadOrders(p) ==
    /\ drain[p].stage = "orders"
    /\ To(p, Run(drain[p], "summary", {}, None, order))
    /\ UNCHANGED <<ledger, rows, job, closeout, faults, asked, disturbed>>

\* ... and writes what they add up to.
Added(c, seen) == [s \in Sources |-> IF CustomerOf[s] = c THEN seen[s] ELSE summary[s]]

WriteSummary(p) ==
    /\ drain[p].stage = "summary"
    /\ summary' = Added(drain[p].job.customer, drain[p].seen)
    /\ To(p, Run(drain[p], "done", {}, None, Unread))
    /\ UNCHANGED <<ledger, order, job, closeout, faults, asked, disturbed>>

\* By the id alone, whatever the job has become meanwhile.
MarkDone(p) ==
    /\ drain[p].stage = "done"
    /\ job' = [job EXCEPT ![drain[p].job] =
                [status |-> "done", attempts |-> job[drain[p].job].attempts, due |-> FALSE]]
    /\ To(p, Between("claim", drain[p].left))
    /\ UNCHANGED <<ledger, rows, closeout, faults, asked, disturbed>>

\* Any call of a run may throw.
RunFails(p) ==
    /\ InRun(p)
    /\ Fault
    /\ To(p, Run(drain[p], "failed", {}, None, Unread))
    /\ UNCHANGED <<ledger, rows, job, closeout, asked, disturbed>>

MarkFailed(p) ==
    /\ drain[p].stage = "failed"
    /\ LET attempts == drain[p].attempts + 1 IN
          job' = [job EXCEPT ![drain[p].job] =
                    [status |-> IF attempts >= MAX_ATTEMPTS THEN "failed" ELSE "pending",
                     attempts |-> attempts, due |-> FALSE]]
    /\ To(p, Between("claim", drain[p].left))
    /\ UNCHANGED <<ledger, rows, closeout, faults, asked, disturbed>>

\* markFailed throws: the drain is over and the job stays running.
AbortDrain(p) ==
    /\ drain[p].stage = "failed"
    /\ Fault
    /\ To(p, Between("ending", 0))
    /\ UNCHANGED <<ledger, rows, job, closeout, asked, disturbed>>

\* nextRunAt is reached.
BecomeDue(j) ==
    /\ job[j].status = "pending" /\ ~job[j].due
    /\ job' = [job EXCEPT ![j] = [status |-> "pending", attempts |-> job[j].attempts, due |-> TRUE]]
    /\ UNCHANGED <<ledger, rows, closeout, drain, faults, asked, disturbed>>

\* The process ends; what its closeout had still to queue is lost.
Crash(p) ==
    /\ Fault
    /\ To(p, Idle)
    /\ closing' = [w \in Webs |-> IF w = p THEN {} ELSE closing[w]]
    /\ queued' = [w \in Webs |-> w # p /\ queued[w]]
    /\ scheduled' = [w \in Webs |-> w # p /\ scheduled[w]]
    /\ UNCHANGED <<ledger, rows, job, asked, disturbed>>

DrainStep(p) ==
    \/ \E j \in Jobs : Claim(p, j)
    \/ FindNone(p)
    \/ EndDrain(p)
    \/ \E s \in Sources : ReadLedger(p, s)
    \/ WriteOrder(p)
    \/ ReadOrders(p)
    \/ WriteSummary(p)
    \/ MarkDone(p)
    \/ MarkFailed(p)

Next ==
    \/ \E w \in Webs, groups \in SUBSET Jobs : Commit(w, groups)
    \/ \E s \in Sources : PostElsewhere(s)
    \/ \E w \in Webs, j \in Jobs : Enqueue(w, j) \/ EnqueueFails(w, j)
    \/ \E w \in Webs : RunScheduled(w)
    \/ \E x \in Scripts : RunScript(x)
    \/ \E p \in Processes : DrainStep(p) \/ ClaimFails(p) \/ RunFails(p) \/ AbortDrain(p) \/ Crash(p)
    \/ \E j \in Jobs : BecomeDue(j)

\* What has been started goes on, and time passes.  That closeouts or the
\* script come again is not assumed.
Fairness ==
    /\ \A p \in Processes : WF_vars(DrainStep(p))
    /\ \A w \in Webs : WF_vars(RunScheduled(w))
    /\ \A j \in Jobs : WF_vars(BecomeDue(j))

Spec == Init /\ [][Next]_vars /\ Fairness

-----------------------------------------------------------------------------
(* Properties *)

Shows(j) ==
    \A s \in j.sources : order[s] >= asked[j][s] /\ summary[s] >= asked[j][s]

\* A job that is done has brought the rows of its orders and the total of its
\* customer up to the ledger it was queued for, and no later run of any job
\* sets them back, unless another run of the customer was under way during its
\* own or it was queued again before it had ended: reads and writes that no
\* transaction holds together.
DoneMeansShown ==
    \A j \in Jobs : job[j].status = "done" /\ j \notin disturbed => Shows(j)

\* "Job pending van duoc retry o lan drain sau": as long as drains come again,
\* no job stays pending, failed calls, limits and processes that end included.
PendingIsRetried ==
    ([]<>\E p \in Processes : drain[p].stage = "claim") =>
        \A j \in Jobs : job[j].status = "pending" ~> job[j].status # "pending"
=============================================================================

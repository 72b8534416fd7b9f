SPECIFICATION FairSpec
CONSTANTS
    export = export
    commit = commit
    w1 = w1
    w2 = w2
    Jobs = {export, commit}
    Workers = {w1, w2}
    NoWorker = NoWorker
    CancellableJobs = {export}
    CancelRequests = {commit}
    MaxAttempts <- MCMaxAttempts
    AttemptLimit = 2
    Concurrency = 1
    LeaseMayLapse = FALSE
    MaxLeaseNo = 0
    MaxRestarts = 1
INVARIANT BoundedConcurrency
INVARIANT OnlyOrphansOverlap
INVARIANT CancelledBeforeClaim
PROPERTY ImplementsBoard
PROPERTY EveryJobSettles

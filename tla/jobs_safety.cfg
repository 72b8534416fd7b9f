SPECIFICATION Spec
CONSTANTS
    export = export
    commit = commit
    w1 = w1
    w2 = w2
    Jobs = {export}
    Workers = {w1, w2}
    NoWorker = NoWorker
    CancellableJobs = {export}
    CancelRequests = {export}
    MaxAttempts <- MCMaxAttempts
    AttemptLimit = 2
    Concurrency = 2
    LeaseMayLapse = TRUE
    MaxLeaseNo = 3
    MaxRestarts = 1
SYMMETRY Symmetry
PROPERTY TerminalIsFinal
PROPERTY LastClaimantSettles
PROPERTY SweepSparesLiveLease

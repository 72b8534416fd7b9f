SPECIFICATION Spec
CONSTANTS
    order = order
    again = again
    other = other
    k = k
    create = create
    approve = approve
    p1 = p1
    p2 = p2
    Commands = {order, again, other}
    KeyOf <- MCKeyOf
    NoKey = NoKey
    NameOf <- MCNameOf
    Processes = {p1, p2}
    Targeted = {p1}
    NoClaim = NoClaim
    MaxAttempts = 2
    ClaimLimit = 2
    JobAttempts = 2
    MaxFaults = 1
CHECK_DEADLOCK FALSE
INVARIANT TypeOK
INVARIANT OneExecutionPerRequest
INVARIANT ProcessedHasItsJob
PROPERTY ImplementsRelay

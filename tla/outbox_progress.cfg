SPECIFICATION FairSpec
CONSTANTS
    order = order
    again = again
    other = other
    k = k
    create = create
    approve = approve
    p1 = p1
    p2 = p2
    Commands = {order}
    KeyOf <- MCKeyOf
    NoKey = NoKey
    NameOf <- MCNameOf
    Processes = {p1, p2}
    Targeted = {p1}
    NoClaim = NoClaim
    MaxAttempts = 2
    ClaimLimit = 3
    JobAttempts = 1
    MaxFaults = 2
CHECK_DEADLOCK FALSE
INVARIANT OneHandlerWhileLocked
PROPERTY EveryEventSettles

SPECIFICATION Spec
CONSTANTS
    c1 = c1
    s1 = s1
    s2 = s2
    w1 = w1
    x1 = x1
    None = None
    Customers = {c1}
    Sources = {s1, s2}
    CustomerOf <- MCCustomerOf
    Jobs <- MCJobs
    Webs = {w1}
    Scripts = {x1}
    LIMIT = 1
    MAX_ATTEMPTS = 2
    MaxPosts <- MCMaxPosts
    MaxFaults = 2
INVARIANT TypeOK
INVARIANT DoneMeansShown
PROPERTY PendingIsRetried

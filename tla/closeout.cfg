SPECIFICATION Spec
CONSTANTS
    o1 = o1
    c1 = c1
    c2 = c2
    k = k
    None = None
    Orders = {o1}
    Calls = {c1, c2}
    Payments = {1, 4}
    Returned = {0, 1}
    Receivable = 3
    Tolerance = 1
    Keys = {k}
    Requests <- MCRequests
    Receipts = {2}
    MaxVersion = 1
SYMMETRY Symmetry
INVARIANT TypeOK
INVARIANT VersionsAreLinear
INVARIANT OneCorrectionPerKey
PROPERTY NothingUnseenIsOverwritten
PROPERTY ImplementsAccount

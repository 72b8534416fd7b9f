SPECIFICATION FairSpec
CONSTANTS
    sale = sale
    ext = ext
    first = first
    both = both
    other = other
    k = k
    a1 = a1
    a2 = a2
    Orders = {sale, ext}
    ExternalOrders = {ext}
    Debt <- MCDebt
    Credit <- MCCredit
    Tolerance = 1
    Calls = {first, both, other}
    Alloc <- MCAlloc
    KeyOf <- MCKeyOf
    NoKey = NoKey
    CodeOnly = {}
    IdOf <- MCIdOf
    CodeOf <- MCCodeOf
    Clerks = {a1, a2}
    NoDoc = NoDoc
CHECK_DEADLOCK FALSE
INVARIANT NoOverCollection
INVARIANT HolderSeesEveryCollection
INVARIANT PostedIffConfirmed
INVARIANT OneCollectionPerKey
INVARIANT ExternalOrderMirrorsLedger
PROPERTY ImplementsBook
PROPERTY FreshConfirmNeverOverdraws
PROPERTY EveryCallIsAnswered

SPECIFICATION Spec
CONSTANTS
    sale = sale
    ext = ext
    first = first
    both = both
    other = other
    k = k
    a1 = a1
    a2 = a2
    Orders = {sale, ext}
    ExternalOrders = {ext}
    Debt <- MCDebt
    Credit <- MCCredit
    Tolerance = 1
    Calls = {first}
    Alloc <- MCAlloc
    KeyOf <- MCKeyOf
    NoKey = NoKey
    CodeOnly = {}
    IdOf <- MCIdOf
    CodeOf <- MCCodeOf
    Clerks = {a1}
    NoDoc = NoDoc
CHECK_DEADLOCK FALSE
PROPERTY ConfirmNeverOverdraws

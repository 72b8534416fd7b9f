SPECIFICATION Spec
CONSTANTS
    o1 = o1
    r1 = r1
    r2 = r2
    a1 = a1
    s1 = s1
    None = None
    Orders = {o1}
    Requests = {r1, r2}
    Appliers = {a1}
    Screens = {s1}
SYMMETRY Symmetry
INVARIANT TypeOK
INVARIANT FinalizedOnce
INVARIANT ReversalAsRecorded
INVARIANT CorrectionIsRestocked
INVARIANT SourceTakenBack

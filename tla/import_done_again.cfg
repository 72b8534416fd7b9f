SPECIFICATION Spec
CONSTANTS
    s1 = s1
    s2 = s2
    a1 = a1
    a2 = a2
    u1 = u1
    c1 = c1
    c2 = c2
    None = None
    Sessions = {s1, s2}
    Attempts = {a1, a2}
    Popups = {u1}
    Commits = {c1, c2}
    Codes = {1, 2}
    File <- MCFile
    Selections <- MCSelections
    Want <- MCWant
    Opening = 3
    ChunkSize = 2
    Moves = {1}
    MaxRequests = 3
    MaxMoves = 0
SYMMETRY Symmetry
PROPERTY DoneStaysDone
CHECK_DEADLOCK FALSE

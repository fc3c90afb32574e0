SPECIFICATION MCSpec
CONSTANTS
    c1 = c1
    c2 = c2
    k1 = k1
    k2 = k2
    Requests = {k1, k2}
    Copiers = {k1}
    Purgers = {k2}
    Restorers = {}
    Rows = {f1, f2}
    Paths = {a, b}
    Channels = {c1, c2}
    Primary = c1
    Pictures = {}
    NoRow = NoRow
    NoPath = NoPath
    MaxActive = 2
    MaxMessages = 2
    MaxFaults = 0
    MaxAborts = 0
    MaxCrashes = 0
SYMMETRY RowsAlike
\* Ids and messages are bounded: once they are used up, nothing moves.
CHECK_DEADLOCK FALSE
INVARIANTS
    TypeOK
    KeptAreReadable

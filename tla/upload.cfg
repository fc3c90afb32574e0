SPECIFICATION MCSpec
CONSTANTS
    r1 = r1
    r2 = r2
    v1 = v1
    v1big = v1big
    v2 = v2
    h1 = h1
    h2 = h2
    Requests = {r1, r2}
    Versions = {v1, v1big, v2}
    Hashes = {h1, h2}
    HashOf <- MCHashOf
    VersionOf <- TwoVersions
    Replacers = {r1, r2}
    Rows = {f1, f2, f3}
    Positions = {p1, p2}
    NoRow = NoRow
    NoChunk = NoChunk
    MaxActive = 1
    MaxFaults = 2
    MaxAborts = 0
    MaxCrashes = 1
    MaxDeletes = 1
SYMMETRY RowsAlike
\* Rows is finite: once no id is left for another request, nothing moves.
CHECK_DEADLOCK FALSE
INVARIANTS
    TypeOK
    BytesAreTheRows
    UploadedIsComplete
    OneCopy
    LedgerHasAnOwner
PROPERTIES
    Progress

SPECIFICATION MCSpec
CONSTANTS
    Jobs = {1}
    Dirs = {"", "d"}
    DirOf <- MCDirOf
    MAX_ATTEMPTS = 2
    MaxAsks = 3
    MaxFaults = 2
    Visitors = {"v1", "v2"}
    Others = {"k1", "k2"}
    FREE_ATTEMPTS = 1
    LOCK_ATTEMPTS = 3
    DECAY = 3
    MAX_COOKIE = 2
    LinkLife = 3
    MAX_KEYS = 2
    Addresses = {"a", "b"}
    LIFE = 3
    RENEW_BEFORE_EXPIRY = 1
    H3_FAILURE_THRESHOLD = 2
    MaxCertFaults = 3
    MaxMoves = 2
    Updates = {1, 2}
    InodePath = FALSE
    MaxRelease = 3
    MaxUpdateFaults = 1
INVARIANTS
    ThrottleHolds
    ItemsAreAccounted
    ServerIsWhole
PROPERTIES
    NothingComesBack
    PinHolds
    AgentsGoOn
    EventuallyCovered
    StaysFresh

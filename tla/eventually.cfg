SPECIFICATION MCSpec
CONSTANTS
    Paths = {"p", "q"}
    Versions = {1, 2}
    NoPath = "none"
    PageSize = 2
    MaxChanges = 2
    MaxEdits = 1
    MaxFaults = 1
INVARIANTS
    FeedIsFollowed
PROPERTIES
    EventuallyLands
    EventuallyCollected
    QueuedIsReplicated
    FeedCatchesUp

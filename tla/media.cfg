SPECIFICATION FairSpec
CONSTANTS
    r1 = r1
    r2 = r2
    Clients = {r1}
    Warmers = {r2}
    Asks <- MCAsks
    MediaPermits = 1
    ThumbPermits = 1
    Parts = 1
    Channels = {1}
    CacheLimit = 1
    MaxVersion = 2
    MaxChanges = 2
    MaxFails = 1
INVARIANT CachesHold
PROPERTY EveryReadEnds

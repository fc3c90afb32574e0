SPECIFICATION FairSpec
CONSTANTS
    Requests = {r1, r2}
    Messages = {1, 2}
    Storages = {"s", "t"}
    Home <- MCHome
    Bots = {"s", "t"}
    Stuck = {2}
    BatchSize = 1
    MaxAttempts = 2
    MaxFaults = 2
INVARIANT OutboxHolds
PROPERTY ImplementsOutbox

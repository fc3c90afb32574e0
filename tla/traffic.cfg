SPECIFICATION FairSpec
CONSTANTS
    Files = {f, g}
    Chunks = {1, 2}
    Others = {c}
    Chats = {0, 1}
    Bots = {b}
    UploadLimit = 2
    ChunkLimit = 2
    SendLimit = 2
    Rate = 2
    MaxAttempts = 2
    Budget = 1
    Disk = 4
    MaxFloods = 1
    MaxErrors = 2
INVARIANT GatesHold
PROPERTY EveryUploadEnds

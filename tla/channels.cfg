SPECIFICATION MCSpec
CONSTANTS
    x = x
    y = y
    z = z
    a = a
    b = b
    Slots = 2
    Channels = {1, 2, 3}
    Chats = {x, y, z}
    Chunks = {1}
    Admins = {a, b}
    First = 1
    FirstChat = x
    NoChannel = 0
    NoChat = NoChat
    NoChunk = 0
    Batch = 25
    MaxEdits = 1
    MaxDeaths = 1
    MaxCrashes = 1
    RowId <- ChunkByChunk
INVARIANT TypeOK
INVARIANT SlotsAreDistinct
PROPERTY StoredStays

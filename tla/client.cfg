SPECIFICATION FairSpec
CONSTANTS
    Scan <- MCScan
    Versions = {1, 2}
    SizeOf <- MCSizeOf
    Refused = {"f"}
    UriOnly = {"g"}
    Ladder <- MCLadder
    MaxInARow = 1
    MaxEdits = 2
    MaxFaults = 1
    MaxMoves = 1
CHECK_DEADLOCK FALSE
INVARIANTS
    IndexIsTrue
PROPERTIES
    SentOnce
    EventuallyStored

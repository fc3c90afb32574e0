SPECIFICATION RecordsSpec
CONSTANTS
    People = {"a", "b"}
    Owners = {"u"}
    Bots = {"k1", "k2"}
    Groups = {"c1", "c2"}
    MAX_CHANNELS = 2
    Storages = {"s1", "s2"}
    Calls = {t1, t2}
    MaxAsked = 2
    Restores = {t1, t2}
    Documents = {"f"}
    SAFETY_COPIES_KEPT = 2
    MaxSeconds = 1
    MaxArchives = 3
    MaxEvents = 2
    MaxErrors = 2
SYMMETRY CallsAlike
INVARIANTS
    CreationIsWhole
    BackupsAreSafe
    ClientStateHolds
    LinksHold
PROPERTIES
    GrantsHold
    TreeIsKept
    RestoreIsFaithful

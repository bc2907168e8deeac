SPECIFICATION SubSpec
CONSTANTS
    b1 = b1
    b2 = b2
    b3 = b3
    b4 = b4
    f1 = f1
    f2 = f2
    Blocks <- MCBlocks
    Feeds <- MCFeeds
    NoFeed = NoFeed
    StoresDropped = FALSE
    MaxAttach = 4
SYMMETRY RoomSymmetry
INVARIANTS
    VMTypeOK
    ListSound
    HandlesDistinct
    RolesAgree
    GhostsFromLostSessions
PROPERTIES
    CallbackFindsItsPeer
    ImplementsRoster

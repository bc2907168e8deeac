SPECIFICATION FairCallSpec
CONSTANTS
    b1 = b1
    b2 = b2
    b3 = b3
    f1 = f1
    Blocks <- TwoBlocks
    Feeds <- MCFeeds
    NoFeed = NoFeed
    StoresDropped = TRUE
    MaxAttach = 2
    NumWindows = 1
    MaxMaking = 1
    MaxPosted = 3
INVARIANTS
    RolesAgree
    WireOrder
    RequestFits
PROPERTIES
    NegotiationEnds

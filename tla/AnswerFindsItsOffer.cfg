SPECIFICATION CallSpec
CONSTANTS
    b1 = b1
    b2 = b2
    b3 = b3
    f1 = f1
    Blocks <- MCBlocks
    Feeds <- MCFeeds
    NoFeed = NoFeed
    StoresDropped = FALSE
    MaxAttach = 3
    NumWindows = 1
    MaxMaking = 1
    MaxPosted = 1
INVARIANT
    AnswerFindsItsOffer

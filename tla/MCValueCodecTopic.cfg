SPECIFICATION SpecCodec
CONSTANTS
    Sizes <- MCSizes
    Items <- MCItems
    Masks <- MCMasks
    Decimals = {0, 1, 2, 3}
    Float <- MCFloat
    Tokens = {"t1", "t2"}
    PendingBound = 2
INVARIANT
    TopicFollows

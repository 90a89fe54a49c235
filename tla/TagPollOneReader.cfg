SPECIFICATION FairSpec
CONSTANTS
    t1 = t1
    t2 = t2
    t3 = t3
    b1 = b1
    b2 = b2
    b3 = b3
    Tags = {t1, t2, t3}
    NumReaders = 1
    MaxTags = 2
    Automatic = TRUE
    Blocks = {b1, b2, b3}
    TestData = TestData
    NULL = NULL
    MaxFailures = 2
    MaxHooks = 1
CHECK_DEADLOCK FALSE
INVARIANTS TypeOK ArraysOwned PresentMatchesList CurrentIsReported
PROPERTIES OutFollowsIn InFollowsOut PollReturns SeenTagIsReported

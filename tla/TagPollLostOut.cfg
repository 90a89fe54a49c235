SPECIFICATION Spec
CONSTANTS
    t1 = t1
    t2 = t2
    t3 = t3
    b1 = b1
    b2 = b2
    b3 = b3
    Tags = {t1, t2}
    NumReaders = 1
    MaxTags = 2
    Automatic = TRUE
    Blocks = {b1, b2, b3}
    TestData = TestData
    NULL = NULL
    MaxFailures = 1
    MaxHooks = 1
CHECK_DEADLOCK FALSE
INVARIANTS RemovedTagsGetOut

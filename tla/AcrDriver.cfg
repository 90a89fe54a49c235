SPECIFICATION FairSpec
CONSTANTS
    t1 = t1
    t2 = t2
    t3 = t3
    Tags = {t1, t2, t3}
    Jcop = {t2}
    Opaque = {t3}
    ACR122U_MAX_NUM_TAGS = 2
    Failed = Failed
    Unknown = Unknown
    NoTag = NoTag
    Garbage = Garbage
    MaxReplugs = 1
    MaxGlitches = 1
    MaxOthers = 1
INVARIANTS TypeOK ListedAnswers SamIsReaders
PROPERTIES ImplementsTagScan ReadReturns

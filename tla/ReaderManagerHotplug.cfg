SPECIFICATION FairSpec
CONSTANTS
    r1 = r1
    r2 = r2
    r3 = r3
    Readers = {r1}
    Supported = {r1}
    Broken = {}
    NumSlots = 1
    Modes = {TRUE, FALSE}
    MaxTags = 1
    HangupInPoll = FALSE
    NULL = NULL
    Stale = Stale
    Freed = Freed
    MaxPlugs = 2
    MaxUnplugs = 2
    MaxRestarts = 0
    MaxFaults = 2
    MaxHangups = 1
    MaxSettings = 1
CHECK_DEADLOCK FALSE
INVARIANTS ListIsFilled
PROPERTIES HotplugWorks ChosenReadersWork

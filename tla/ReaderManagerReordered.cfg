SPECIFICATION FairSpec
CONSTANTS
    r1 = r1
    r2 = r2
    r3 = r3
    Readers = {r1, r2}
    Supported = {r1, r2}
    Broken = {}
    NumSlots = 2
    Modes = {TRUE}
    MaxTags = 1
    HangupInPoll = FALSE
    NULL = NULL
    Stale = Stale
    Freed = Freed
    MaxPlugs = 1
    MaxUnplugs = 0
    MaxRestarts = 0
    MaxFaults = 0
    MaxHangups = 0
    MaxSettings = 0
CHECK_DEADLOCK FALSE
PROPERTIES HotplugWorks

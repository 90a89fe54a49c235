SPECIFICATION GapFreeSpec
CONSTANTS
    r1 = r1
    r2 = r2
    r3 = r3
    Readers = {r1, r2, r3}
    Supported = {r1, r2}
    Broken = {}
    NumSlots = 2
    Modes = {TRUE, FALSE}
    MaxTags = 1
    HangupInPoll = TRUE
    NULL = NULL
    Stale = Stale
    Freed = Freed
    MaxPlugs = 1
    MaxUnplugs = 1
    MaxRestarts = 1
    MaxFaults = 1
    MaxHangups = 1
    MaxSettings = 1
CHECK_DEADLOCK FALSE
SYMMETRY Symmetry
INVARIANTS FreesOnlyInitialised

SPECIFICATION Spec
CONSTANTS
    p1 = p1
    p2 = p2
    p3 = p3
    s1 = s1
    s2 = s2
    Pids = {p1, p2}
    Stops = {s1, s2}
    EMPTY = EMPTY
    MaxStarts = 3
    MayCrash = FALSE
CHECK_DEADLOCK FALSE
INVARIANTS OnlyCopyThoughSlow

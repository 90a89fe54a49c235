SPECIFICATION Spec
CONSTANTS
    p1 = p1
    p2 = p2
    p3 = p3
    s1 = s1
    s2 = s2
    Pids = {p1, p2, p3}
    Stops = {s1, s2}
    EMPTY = EMPTY
    MaxStarts = 3
    MayCrash = TRUE
CHECK_DEADLOCK FALSE
SYMMETRY Symmetry
INVARIANTS OnlyCopy LockIsOfHolder

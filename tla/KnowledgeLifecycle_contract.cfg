SPECIFICATION Spec
CONSTANTS
    p1 = p1
    p2 = p2
    m1 = m1
    m2 = m2
    Paths = {p1, p2}
    Models = {m1, m2}
    IndexOverlaps = FALSE
    MaxCommits = 3
    MaxJobs = 3
    MaxEvents = 2
SYMMETRY Symmetry
INVARIANT
    PassedWasExact
CHECK_DEADLOCK FALSE

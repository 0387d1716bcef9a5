SPECIFICATION PartSpec
CONSTANTS
    Schedule <- ThreeTasks
    Cadence <- Cadences
    MaxDuration = 3
    MaxCrashes = 1
    None = None
    l1 = l1
    p1 = p1
    p2 = p2
    d1 = d1
    o1 = o1
    m1 = m1
    m2 = m2
    w1 = w1
    w2 = w2
PROPERTY AllWorkEnds
CHECK_DEADLOCK FALSE

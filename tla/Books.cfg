SPECIFICATION PartSpec
CONSTANTS
    Captures = {c1}
    Amounts = {1, 3, 25, 50, 369}
    Schedules <- Chosen
    Nothing = Nothing
    MaxVersion = 2
    MaxTime = 2
    Operations = {o1, o2}
    Items = {i1, i2}
    Workers = {w1, w2}
    Refs = {r1}
    c1 = c1
    o1 = o1
    o2 = o2
    i1 = i1
    i2 = i2
    w1 = w1
    w2 = w2
    r1 = r1
SYMMETRY Symmetry
INVARIANT ChargedExactly
PROPERTY StatementPromise
INVARIANT ReportExact
CHECK_DEADLOCK FALSE

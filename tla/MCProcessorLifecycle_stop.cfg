SPECIFICATION Spec
CONSTANTS
    c1 = c1
    c2 = c2
    d1 = d1
    d2 = d2
    x1 = x1
    x2 = x2
    e1 = e1
    e2 = e2
    Extractors = {x1}
    Events = {e1}
    BufferSize = 1
    Collectors = {c1}
    DataSources = {d1}
INVARIANTS
    StopWaitsForAll
CHECK_DEADLOCK FALSE

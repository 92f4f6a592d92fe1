SPECIFICATION Spec
CONSTANTS
    m1 = m1
    m2 = m2
    m3 = m3
    a = a
    b = b
    s1 = s1
    s2 = s2
    None = None
    Models = {m1, m2, m3}
    Names = {a, b}
    NameOf <- MCNameOf
    Groups = {g1}
    Prices = {0, 1, 3}
    Counts = {1}
    Sessions = {s1, s2}
    Pipelines <- MCPipelines
    Scale = 12
    CacheSize = 1
    MaxTurns = 2
    MaxChanges = 2
INVARIANTS
    TypeOK
    ForwardsWhatWasAsked
    NotDominated
    SessionSticks
SYMMETRY SelectorSymmetry
CHECK_DEADLOCK FALSE

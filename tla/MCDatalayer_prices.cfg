SPECIFICATION Spec
CONSTANTS
    r1 = r1
    r2 = r2
    m1 = m1
    m2 = m2
    plain = plain
    grouped = grouped
    None = None
    Malformed = Malformed
    Requests = {r1}
    Models = {m1}
    Entries = {plain, grouped}
    Grouped = {grouped}
    Files <- OneModelFiles
    MaxTokens <- OneMaxTokens
    Asked <- OneAsked
    Bodies <- TwoBodies
    BufferSize = 1
    MaxEdits = 1
INVARIANTS
    PricesAlwaysPresent
CHECK_DEADLOCK FALSE

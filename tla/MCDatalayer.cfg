SPECIFICATION FairSpec
CONSTANTS
    r1 = r1
    r2 = r2
    m1 = m1
    m2 = m2
    plain = plain
    grouped = grouped
    None = None
    Malformed = Malformed
    Requests = {r1, r2}
    Models = {m1, m2}
    Entries = {plain, grouped}
    Grouped = {grouped}
    Files <- TwoModelFiles
    MaxTokens <- TwoMaxTokens
    Asked <- TwoAsked
    Bodies <- TwoBodies
    BufferSize = 1
    MaxEdits = 2
INVARIANTS
    TypeOK
    InFlightCount
    PublishedCountIsCurrent
    SyncedModelsServed
    ChargedOnceAsListed
PROPERTIES
    EventuallyInSync
    CountsDrain
    FlushIsComplete
CHECK_DEADLOCK FALSE

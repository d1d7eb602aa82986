SPECIFICATION FairSpec
CONSTANTS
    p1 = p1
    p2 = p2
    p3 = p3
    Payments <- Three
    Old <- OneOld
    Flagged <- OneFlagged
    Readers = {r1, r2}
    Limit = 1
    MaxReviews = 1
    None = None
INVARIANTS
    StaleIsRaced
    WalkShowsAll
PROPERTIES
    StaleEntriesGo
CHECK_DEADLOCK FALSE

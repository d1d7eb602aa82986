SPECIFICATION Spec
CONSTANTS
    MaxNow = 3
    Requests = {r1, r2}
    Window = 2
    MaxRequests = 1
    MaxRedisFaults = 1
    Checks = {r1, r2}
    Amounts = {100}
    Known <- MCKnown
    Earlier = {2}
    Elsewhere <- MCElsewhere
    RoundAmounts = {100}
    VelocityTtl = 2
    KeptAmounts = 6
    MaxRuleFaults = 1
SYMMETRY Symmetry
INVARIANTS
    LimitHolds
    CountersWillGo
    BurstsAreNoticed
    CountedInAChain
    BlockedForARecord
CHECK_DEADLOCK FALSE

SPECIFICATION FairSpec
CONSTANTS
    Deliveries = {d1}
    Endpoints = {e1}
    Polls = {p1, p2}
    Dispatcher = dispatcher
    MaxRetries = 2
    MaxFailures = 2
    None = None
INVARIANTS
    DeliveredWasAccepted
    GivenUpAfterAllAttempts
    NothingLeftPending
PROPERTIES
    RetriesEnd
CHECK_DEADLOCK FALSE

SPECIFICATION FairSpec
CONSTANTS
    blocked = blocked
    failed = failed
    other = other
    trace1 = trace1
    trace2 = trace2
    Events = {blocked, failed, other}
    Topic <- MCTopic
    Trace <- MCTrace
    Bucket <- OnePartition
    Poison = {other}
    MaxSeen = 1
    MaxHiccups = 2
    MaxFaults = 1
    None = None
INVARIANTS
    NoneSkipped
    RepeatsNeedAFault
PROPERTIES
    StoredEventsAreSettled
CHECK_DEADLOCK FALSE

SPECIFICATION FairSpec
CONSTANTS
    Requests = {r1, r2}
    Accounts <- TwoAccounts
    Keys = {k1, k2}
    k1 = k1
    k2 = k2
    Orders <- Repeated
    Opening <- Opening3
    Status <- AllActive
    MinTransfer = 1
    MaxTransfer = 5
    Faults = {"redis", "db", "crash", "slow"}
    None = None
PROPERTIES
    EveryRequestEnds
    LocksAreFreed

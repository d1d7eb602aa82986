SPECIFICATION Spec
CONSTANTS
    Requests = {r1, r2}
    Accounts <- SixAccounts
    Keys = {k1, k2}
    k1 = k1
    k2 = k2
    Orders <- Everything
    Opening <- Opening3
    Status <- LastTwoClosed
    MinTransfer = 1
    MaxTransfer = 5
    Faults = {"redis", "db", "kafka", "crash", "slow", "late"}
    None = None
SYMMETRY RequestSymmetry
INVARIANTS
    OneTransferPerKey
    EventsAreTrue
    ReadsStayCurrent
    LedgerExplainsBalances
    MoneyIsAccountedFor
PROPERTIES
    ImplementsBank
    MoneyMovesInPairs

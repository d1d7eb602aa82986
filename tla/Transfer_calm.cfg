SPECIFICATION Spec
CONSTANTS
    Requests = {r1, r2, r3}
    Accounts <- MCAccounts
    Keys = {k1, k2}
    k1 = k1
    k2 = k2
    Orders <- Contended
    Opening <- Opening3
    Status <- AllActive
    MinTransfer = 1
    MaxTransfer = 5
    Faults = {}
    None = None
SYMMETRY RequestSymmetry
INVARIANTS
    LockHoldersAreAlone
    NotAllTurnedAway

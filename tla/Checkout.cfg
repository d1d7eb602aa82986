SPECIFICATION CheckoutSpec
CONSTANTS
    Requests = {r1, r2, r3, r4}
    MaxVisits = 3
    Accounts <- MCAccounts
    Orders <- MCOrders
    Opening <- MCOpening
    OpenAccounts <- MCAccounts
    None = None
SYMMETRY Symmetry
INVARIANTS
    SuccessIsPaid
    PaidOncePerReview
    PaidTwiceOnlyAfterUnknown
CHECK_DEADLOCK FALSE

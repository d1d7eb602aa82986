SPECIFICATION Spec
CONSTANTS
    Users = {u1}
    Requests = {r1, r2, r3, r4}
    Faults = {"fail", "resend", "late"}
    Undefined = Undefined
    None = None
SYMMETRY Symmetry
INVARIANTS
    OneRegistration
    SecondAccountOnlyByOverlap
    SessionsYieldToLaterOnes
PROPERTIES
    DisplacedForGood
    OneExchange

SPECIFICATION Spec
CONSTANTS
    Sessions = {s1}
    Payments = {p1, p2}
    Keys = {k1, k2}
    Amounts = {1, 2}
    Reasons = {w1, w2}
    Requests = {r1, r2}
    Totals = {0, 1, 2}
    NULL = NULL
SYMMETRY Interchangeable
INVARIANTS
    CloseIsWhole
    PaymentsAreKeyed
    VoidsWithinRaces
    PaidWithinRaces
PROPERTIES
    ClosedChecksDrain
    ImplementsLedger

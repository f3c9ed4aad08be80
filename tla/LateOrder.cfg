SPECIFICATION ServiceSpec
CONSTANTS
    Tables = {t1}
    Customers = {c1}
    Carts = {b1, b2}
    Items = {i1}
    Selections = {{}}
    Quantities = {1}
    Keys = {k1, k2}
    Orders = {o1, o2}
    Sessions = {s1, s2}
    Requests = {r1}
    Payments = {p1, p2}
    PaymentKeys = {l1, l2}
    Amounts = {1, 2}
    Reasons = {w1}
    CashierRequests = {q1}
    NULL = NULL
SYMMETRY Interchangeable
PROPERTY OrdersGoToOpenSessions

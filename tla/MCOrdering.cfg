SPECIFICATION Spec
CONSTANTS
    Tables = {t1, t2}
    Customers = {c1, c2}
    Carts = {b1, b2}
    Items = {i1}
    Selections = {{}}
    Quantities = {1}
    Keys = {k1, k2}
    Orders = {o1, o2}
    Sessions = {s1, s2}
    Requests = {r1, r2}
    NULL = NULL
SYMMETRY Interchangeable
INVARIANTS
    TablesAreWhole
    OneActiveCart
    OrdersAreKeyed
PROPERTY ImplementsSeating
    SubmittedCartsDrain
    ClosedSessionsDrain

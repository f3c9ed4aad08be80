SPECIFICATION Spec
CONSTANTS
    Stations = {s1, s2}
    Products = {p1}
    Variants = {v1, v2}
    Configs = {c1, c2, c3}
    Items = {i1}
    Requests = {r1, r2}
    Guests = {g1}
    NULL = NULL
SYMMETRY Interchangeable
INVARIANTS
    DefaultIsEnabled
    ModifiersWithinRaces
PROPERTY ProductsStrayByRaces
CHECK_DEADLOCK FALSE

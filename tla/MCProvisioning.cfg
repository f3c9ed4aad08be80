SPECIFICATION Spec
CONSTANTS
    Tenants = {t1, t2}
    Keys = {k1, k2, k3}
    Subdomains = {s1, s2}
    Numbers = {n1, n2, n3}
    Requests = {r1, r2}
    MaxEvents = 4
    NULL = NULL
SYMMETRY Interchangeable
INVARIANTS
    TenantsAreKeyed
    TrailLeadsToStatus
CHECK_DEADLOCK FALSE

SPECIFICATION Spec
CONSTANTS
    n1 = n1
    n2 = n2
    t1 = t1
    t2 = t2
    Tenants = {n1, n2}
    Tables = {t1, t2}
    TenantOf <- MCTenantOf
    Credentials = {d1, d2}
    Tokens = {k1, k2}
    Guests = {g1, g2}
    Requests = {r1, r2}
    TokenTTL = 1
    FreshTTL = 1
    SessionTTL = 2
    MaxClock = 2
    NULL = NULL
SYMMETRY Sym
INVARIANTS
    TokensAdmitOnce
    PresenceIsScanned
    DisplaysKeepOneCredential
PROPERTY
    ImplementsAdmission
CHECK_DEADLOCK FALSE

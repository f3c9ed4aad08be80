SPECIFICATION Spec
CONSTANTS
    Users = {u1, u2}
    Founder = u1
    Roles = {admin, service}
    Coded = {admin}
    ADMIN = admin
    OWNER = owner
    Challenges = {c1}
    Sessions = {s1}
    Administrators = {r1, r2}
    Logins = {l1, l2}
    MaxAttempts = 1
    NULL = NULL
SYMMETRY Interchangeable
INVARIANT SetupsWithinRaces
PROPERTIES
    LastAdminFallsToARace
    ImplementsMembership

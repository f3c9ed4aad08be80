SPECIFICATION FairSpec
CONSTANTS
    t1 = t1
    t2 = t2
    Items = {1, 2}
    Tables = {t1, t2}
    TableOf <- AllAtOneTable
    Staff = {w1}
    Keys = {k1, k2}
    Requests = {r1, r2}
    NULL = NULL
INVARIANTS
    TrailsAreTrue
    DeliveriesAreReady
    BulksAreWhole
    SomeoneIsFree
PROPERTIES
    NoPartialDelivery
    RequestsEnd
    ImplementsService

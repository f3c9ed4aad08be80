SPECIFICATION FairSpec
CONSTANTS
    TableIds = {t1, t2}
    Calls = {1, 2}
    MaxHanded = 1
    MaxFailures = 1
    null = null
INVARIANTS
    PaidWithinFailures
    BillIsOfSelected
PROPERTY ButtonsComeBack

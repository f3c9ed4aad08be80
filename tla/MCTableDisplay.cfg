SPECIFICATION DisplaySpec
CONSTANTS
    Half = 14
    Ttl = 6
    Margin = 1
    MinRefresh = 1
    Retry = 3
    ConnectMax = 3
    FetchMax = 2
    Pause = 2
    MaxQuiet = 8
INVARIANTS
    CodesAreReplaced
    BlindIsBrief
